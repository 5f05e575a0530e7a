------------------------------- MODULE GpuFlute --------------------------------
(***************************************************************************)
(* gpu_flute.hpp, solve_high_degree: FLUTE for many nets at once.  Each    *)
(* level holds its subnets, their pins one after another in three arrays,  *)
(* and their trees in a fourth.  A level whose subnets are all small ends  *)
(* the breaking; then the levels are solved and merged from the last to    *)
(* the first.  The recursion of flutes_MD keeps the pieces of one way to   *)
(* break a net apart; here the pieces of all the ways lie side by side,    *)
(* and only offsets tell them apart.                                       *)
(*                                                                         *)
(* A kernel is a step: its threads write to slices of their own, which     *)
(* RsmtTrees checks.                                                       *)
(***************************************************************************)
EXTENDS Flute, TLC

CONSTANT kThrustSortDegree     \* above, the pins are sorted by Thrust

VARIABLES
  levels,                      \* the levels, from the roots
  step,                        \* of solve_high_degree
  level_id                     \* of the merging loop

fluteVars == <<levels, step, level_id>>

Unwritten == -1

FluteInit == levels = <<>> /\ step = "hanan" /\ level_id = 0

\* inclusive_scan_sizes, behind a zero: the sum of the sizes before i
Offsets(size, n) ==
  LET before[i \in 0 .. n] == IF i = 0 THEN 0 ELSE before[i - 1] + size[i - 1] IN before

TreeOffsets(level) ==
  LET n == Cardinality(DOMAIN level.nets)
  IN  Offsets([i \in 0 .. n - 1 |-> 2 * level.nets[i].degree - 2], n)

\* A subnet, taken from the arrays of its level
SubnetAt(level, id) ==
  LET net == level.nets[id] IN
  [d |-> net.degree, xs |-> Window(level.xs, net.pin_offset, net.degree),
   ys |-> Window(level.ys, net.pin_offset, net.degree),
   s |-> Window(level.s, net.pin_offset, net.degree)]

TreeAt(level, id) ==
  LET branch == Window(level.trees, TreeOffsets(level)[id], 2 * level.nets[id].degree - 2)
  IN  [deg |-> level.nets[id].degree, branch |-> branch, length |-> wirelength(branch)]

\* The arrays of a level with pin_count pins; written are the subnets with
\* their offsets.
Filled(pin_count, written) ==
  LET Writers(k) == {w \in written : w.offset <= k /\ k < w.offset + w.net.d}
      slot(get(_, _)) ==
        [k \in 0 .. pin_count - 1 |->
           IF Writers(k) = {} THEN Unwritten
           ELSE LET w == CHOOSE w \in Writers(k) : TRUE IN get(w.net, k - w.offset)]
  IN  [xs |-> slot(LAMBDA net, i : net.xs[i]), ys |-> slot(LAMBDA net, i : net.ys[i]),
       s |-> slot(LAMBDA net, i : net.s[i])]

Level(nets, arrays) ==
  [nets |-> nets, xs |-> arrays.xs, ys |-> arrays.ys, s |-> arrays.s, trees |-> <<>>]
-----------------------------------------------------------------------------
(* The roots                                                                 *)

\* Thrust sorts by x and then, stably, by y: at equal y the lower x rank is
\* first, where the selection sort of FLUTE may have moved it.
StableGrid(pins) ==
  LET pt == ByX(pins)
      Before(i, j) == pt[i][2] < pt[j][2] \/ (pt[i][2] = pt[j][2] /\ i < j)
      order == Sorted(DOMAIN pt, Before)
      ranks == 0 .. Cardinality(pins) - 1
  IN  [d |-> Cardinality(pins), xs |-> [k \in ranks |-> pt[k + 1][1]],
       ys |-> [r \in ranks |-> pt[order[r + 1]][2]], s |-> [r \in ranks |-> order[r + 1] - 1]]

RootGrid(pins) ==
  IF Cardinality(pins) <= kThrustSortDegree THEN HananGrid(pins) ELSE StableGrid(pins)

\* make_hanan_kernel, thrust_sort_large_root_hanan: pins is the pin set of each
\* net of the design, roots the nets to solve.  The arrays have a place for the
\* pins of every net, and those of the others stay unwritten.
MakeHanan(pins, roots) ==
  /\ step = "hanan"
  /\ LET n == Len(pins)
         pin_acc_num == Offsets([i \in 0 .. n - 1 |-> Cardinality(pins[i + 1])], n)
         root(id) == roots[id + 1]
         Ids == 0 .. Len(roots) - 1
     IN  levels' = <<Level([id \in Ids |->
                              [degree |-> Cardinality(pins[root(id)]), acc |-> 3,
                               pin_offset |-> pin_acc_num[root(id) - 1],
                               child_begin |-> -1, child_count |-> 0, merge_kind |-> 0]],
                           Filled(pin_acc_num[n],
                                  {[net |-> RootGrid(pins[root(id)]),
                                    offset |-> pin_acc_num[root(id) - 1]] : id \in Ids}))>>
  /\ step' = "break"
  /\ UNCHANGED level_id
-----------------------------------------------------------------------------
(* The table                                                                 *)

\* upload_lut: the solutions of all groups one after another.  Groups that are the
\* same get a copy each.
DeviceLut ==
  LET Keys(d) == [k \in 1 .. numgrp(d) |-> <<d, k - 1>>]
      keys == FlattenSeq([d \in 1 .. DEGREE |-> IF d < 4 THEN <<>> ELSE Keys(d)])
      Upload(lut, key) ==
        LET list == LUT[key[1]][key[2]] IN
        [offsets |-> lut.offsets @@ (key :> Len(lut.solutions)),
         counts |-> lut.counts @@ (key :> Len(list)), solutions |-> lut.solutions \o list]
  IN  FoldLeft(Upload, [offsets |-> <<>>, counts |-> <<>>, solutions |-> <<>>], keys)

\* The statements of flutes_LD, with the table of the device
solve_low_degree(net) ==
  LET key == <<net.d, Group(net)>>
      at == DeviceLut.offsets[key]
  IN  IF net.d <= 3 THEN Joined(net)
      ELSE FromTable(net, SubSeq(DeviceLut.solutions, at + 1, at + DeviceLut.counts[key]))
-----------------------------------------------------------------------------
(* Breaking a level                                                          *)

High(level) == {id \in DOMAIN level.nets : level.nets[id].degree > DEGREE}

candidate_count(net, acc) ==
  LET total == Cardinality(Candidates(net, acc)) IN IF acc >= total THEN total - 1 ELSE acc

child_accuracy(acc) == IF acc <= 3 THEN 1 ELSE acc \div 2

\* The penalties, as sums that grow from the middle of the ranks to the rim: first
\* what a break in x costs at each rank, over it what one in y costs.
penalty(net) ==
  LET d == net.d
      ccc == Max({410 - 5 * d, 100}) * (d - 1)
      dx == ccc * (net.xs[d - 2] - net.xs[1])
      dy == ccc * (net.ys[d - 2] - net.ys[1])
      Outward(r) == [k \in 1 .. r - 1 |-> r + 1 - k]
      Put(p, r) == [p EXCEPT !.at[r] = p.sum, !.at[d - 1 - r] = p.sum]
      Add(p, r) == [p EXCEPT !.at[net.s[r]] = @ + p.sum, !.at[net.s[d - 1 - r]] = @ + p.sum]
      InX(start) == FoldLeft(LAMBDA p, r : [Put(p, r) EXCEPT !.sum = @ + dx], start,
                             Outward(d \div 2))
      InY(start) == FoldLeft(LAMBDA p, r : [Add(p, r) EXCEPT !.sum = @ + dy], start,
                             Outward(d \div 2 - 1))
      Rim(Write(_, _), p) == Write(Write(p, 1), 0)
      first == [at |-> [q \in 0 .. d - 1 |-> 0], sum |-> 0]
  IN  Rim(Add, InY([Rim(Put, InX(first)) EXCEPT !.sum = dy])).at

\* The extents of the two sides of each rank: order is s or si.  The sweep from the
\* low end stops at the last candidate, the one from the high end at the first.
Sweeps(net, acc, order, f, xydiff) ==
  [r \in Lb(net, acc) .. net.d - 3 |->
     Spread(f, {order[q] : q \in r .. net.d - 1})
     + IF r > net.d - 1 - Lb(net, acc) THEN 0
       ELSE Spread(f, {order[q] : q \in 0 .. r}) + xydiff]

precompute_break_arrays(net, acc) ==
  LET xydiff == (net.xs[net.d - 1] - net.xs[0]) - (net.ys[net.d - 1] - net.ys[0]) IN
  [si |-> si(net), penalty |-> penalty(net),
   distx |-> Sweeps(net, acc, net.s, net.xs, 0),
   disty |-> Sweeps(net, acc, si(net), net.ys, xydiff)]

break_score_pre(net, acc, pre, candidate) ==
  LET d == net.d
      p == BreakPt(net, acc, candidate)
      Of(gap, q, side, dist) ==
        1000 * (d - 3) * (d - 1) * gap - pre.penalty[q] - (d - 3) * (d - 1) * side
          - 4800 * (d - 3) * dist
  IN  IF BreakInX(candidate)
      THEN Of(net.xs[p + 1] - net.xs[p - 1], p, Side(net.ys, d, pre.si[p]), pre.disty[p])
      ELSE Of(net.ys[p + 1] - net.ys[p - 1], net.s[p], Side(net.xs, d, net.s[p]), pre.distx[p])

\* The candidate whose score is at place wanted, from 0; of equal scores the lower
\* candidate is first.  The loop keeps the first wanted + 1 of those it has seen.
kth_candidate(net, acc, wanted) ==
  LET Beats(score, c, other) ==
        score[c] > score[other] \/ (score[c] = score[other] /\ c < other)
      Insert(score, top, c) ==
        LET place == Min({Len(top) + 1} \cup {i \in DOMAIN top : Beats(score, c, top[i])})
        IN  SubSeq(InsertAt(top, place, c), 1, Min({wanted + 1, Len(top) + 1}))
      Best(score) == FoldLeft(LAMBDA top, c : Insert(score, top, c), <<>>,
                              [k \in 1 .. Cardinality(DOMAIN score) |-> k - 1])
      Scores(pre) == [c \in Candidates(net, acc) |-> break_score_pre(net, acc, pre, c)]
  IN  Best(Scores(precompute_break_arrays(net, acc)))[wanted + 1]

\* How many ways a subnet is broken
Selected(level, id) ==
  LET net == SubnetAt(level, id) IN
  IF DirectBreak(net)[1] # 0 THEN 1 ELSE candidate_count(net, level.nets[id].acc)

\* The two pieces of a way, their accuracy, and how their trees will be merged
Broken(net, acc, choice) ==
  LET AtCorner(direct) == [pieces |-> DirectPieces(net, direct), acc |-> acc, merge_kind |-> 1]
      AtPin(bp) == [pieces |-> Pieces(net, acc, bp), acc |-> child_accuracy(acc),
                    merge_kind |-> WayKind(bp)]
      Way(direct) ==
        IF direct[1] # 0 THEN AtCorner(direct) ELSE AtPin(kth_candidate(net, acc, choice))
  IN  Way(DirectBreak(net))

\* mutant: room for d pins per way
PinsWithoutCommon(level, id) ==
  LET d == level.nets[id].degree IN
  IF id \notin High(level) THEN 0
  ELSE IF DirectBreak(SubnetAt(level, id))[1] # 0 THEN d + 2 ELSE Selected(level, id) * d

\* estimate_break_kernel: a direct break repeats a corner point in both pieces,
\* every other way only the pin at the break.
NetSize(level, id) == IF id \in High(level) THEN 2 * Selected(level, id) ELSE 0
PinSize(level, id) ==
  LET d == level.nets[id].degree IN
  IF id \notin High(level) THEN 0
  ELSE IF DirectBreak(SubnetAt(level, id))[1] # 0 THEN d + 2 ELSE Selected(level, id) * (d + 1)

\* break_kernel: a subnet of the next level with its number and the offset of its
\* pins; the left piece of way choice, then the right one.
Children(level, id, net_offset, pin_offset) ==
  LET Pair(way, choice) ==
        LET left == pin_offset + choice * (level.nets[id].degree + 1)
            child(side, offset) ==
              [id |-> net_offset + 2 * choice + side - 1, offset |-> offset,
               net |-> way.pieces[side], acc |-> way.acc, merge_kind |-> way.merge_kind]
        IN  {child(1, left), child(2, left + way.pieces[1].d)}
  IN  UNION {Pair(Broken(SubnetAt(level, id), level.nets[id].acc, choice), choice) :
               choice \in 0 .. Selected(level, id) - 1}

\* estimate_break_kernel: the offsets of the children of each subnet
NetOffsets(level) ==
  Offsets([id \in DOMAIN level.nets |-> NetSize(level, id)], Cardinality(DOMAIN level.nets))
PinOffsets(level) ==
  Offsets([id \in DOMAIN level.nets |-> PinSize(level, id)], Cardinality(DOMAIN level.nets))

\* A subnet that is broken learns where its children are.
Parents(level, net_offsets) ==
  [id \in DOMAIN level.nets |->
     IF id \notin High(level) THEN level.nets[id]
     ELSE [level.nets[id] EXCEPT !.child_begin = net_offsets[id],
                                 !.child_count = net_offsets[id + 1] - net_offsets[id]]]

NextLevel(written, pin_count) ==
  Level([k \in {w.id : w \in written} |->
           LET w == CHOOSE w \in written : w.id = k IN
           [degree |-> w.net.d, acc |-> w.acc, pin_offset |-> w.offset,
            child_begin |-> -1, child_count |-> 0, merge_kind |-> w.merge_kind]],
        Filled(pin_count, written))

\* break_kernel
Break(level, net_offsets, pin_offsets) ==
  levels' = Append([levels EXCEPT ![Len(levels)].nets = Parents(level, net_offsets)],
                   NextLevel(UNION {Children(level, id, net_offsets[id], pin_offsets[id]) :
                                      id \in High(level)},
                             pin_offsets[Cardinality(DOMAIN level.nets)]))

BreakLevel ==
  /\ step = "break"
  /\ IF High(Last(levels)) = {}
     THEN /\ step' = "merge" /\ level_id' = Len(levels)
          /\ UNCHANGED levels
     ELSE /\ Break(Last(levels), NetOffsets(Last(levels)), PinOffsets(Last(levels)))
          /\ UNCHANGED <<step, level_id>>
-----------------------------------------------------------------------------
(* Merging                                                                   *)

\* The tree of way choice of a subnet, from the trees of the next level
Candidate(level, next, id, choice) ==
  LET left == level.nets[id].child_begin + 2 * choice
      Measured(branch) == [branch |-> branch, length |-> wirelength(branch)]
  IN  Measured(MergedWay(next.nets[left].merge_kind, <<TreeAt(next, left), TreeAt(next, left + 1)>>,
                         SubnetAt(level, id).s).branch)

\* merge_level_kernel
Merged(level, next, id) ==
  FirstShortest([choice \in 0 .. level.nets[id].child_count \div 2 - 1 |->
                   Candidate(level, next, id, choice)]).branch

\* solve_leaf_kernel, merge_level_kernel
MergeLevel ==
  /\ step = "merge" /\ level_id > 0
  /\ LET level == levels[level_id]
         TreeOf(id) == IF id \in High(level) THEN Merged(level, levels[level_id + 1], id)
                       ELSE solve_low_degree(SubnetAt(level, id)).branch
         Stored(tree, offsets) ==
           [k \in 0 .. offsets[Cardinality(DOMAIN tree)] - 1 |->
              LET owner == CHOOSE id \in DOMAIN tree : offsets[id] <= k /\ k < offsets[id + 1]
              IN  tree[owner][k - offsets[owner]]]
     IN  levels' = [levels EXCEPT ![level_id].trees =
                      Stored([id \in DOMAIN level.nets |-> TreeOf(id)], TreeOffsets(level))]
  /\ level_id' = level_id - 1
  /\ UNCHANGED step

\* The trees of the roots are on the host, and the levels are released.
Download ==
  /\ step = "merge" /\ level_id = 0
  /\ levels' = <<levels[1]>> /\ step' = "host"
  /\ UNCHANGED level_id

FluteNext == BreakLevel \/ MergeLevel \/ Download
=============================================================================
