-------------------------------- MODULE Flute ---------------------------------
(***************************************************************************)
(* flute.hpp, the Steiner trees of the CPU path.  A net is sorted onto its *)
(* Hanan grid: xs and ys are its coordinates in ascending order and s[r]   *)
(* is the x rank of the pin of y rank r.  Up to DEGREE pins the tree comes *)
(* from a table; above, the net is broken at one of the best places by a   *)
(* score, and the trees of the pieces are merged.                          *)
(*                                                                         *)
(* A tree is [deg, length, branch]; branch i has a place and the number of *)
(* its neighbour on the way to the root, which points to itself.  Scores   *)
(* are floats in the code and exact here, multiplied by what the divisors  *)
(* of the formula have in common; DEGREE, 9 in the code, is smaller.       *)
(***************************************************************************)
EXTENDS HostTree

CONSTANTS
  DEGREE,
  POWV, POST                   \* the two files: degree -> group -> its lines

\* The score divides by d - 3, and a break takes a rank that is not at the rim.
ASSUME FluteAssumption == DEGREE \in Nat /\ DEGREE >= 5

Absolute(a) == IF a < 0 THEN -a ELSE a
Spread(f, S) == f[Max(S)] - f[Min(S)]
SumOver(f, list) == FoldLeft(LAMBDA sum, i : sum + f[i], 0, list)
-----------------------------------------------------------------------------
(* readLUT: a group of POWV is a list of solutions or is the same as an      *)
(* earlier group.  The first bytes of POST are the Steiner points, row and   *)
(* column in base d, with d^2 added where the pin of that row hangs from     *)
(* this one; the others pair a branch with its neighbour, in base 16.        *)

numgrp(d) == Len(POWV[d])

Solution(d, line, bytes) ==
  LET point(c) == c % (d * d)
      Linked == {j \in 1 .. d - 2 : bytes[j] >= d * d}
      links == [k \in d - 1 .. Len(bytes) |-> <<bytes[k] \div 16, bytes[k] % 16>>]
  IN  [parent |-> line.parent, add |-> line.add, sub |-> line.sub,
       row |-> [j \in 0 .. d - 3 |-> point(bytes[j + 1]) \div d],
       col |-> [j \in 0 .. d - 3 |-> point(bytes[j + 1]) % d],
       neighbor |->
         [i \in 0 .. 2 * d - 3 |->
            IF \E k \in DOMAIN links : links[k][1] = i
            THEN links[CHOOSE k \in DOMAIN links : links[k][1] = i][2]
            ELSE IF i >= d THEN i
            ELSE d - 1 + CHOOSE j \in Linked : point(bytes[j]) \div d = i]]

LUT ==
  [d \in 4 .. DEGREE |->
     LET group[k \in 0 .. numgrp(d) - 1] ==
           LET lines == POWV[d][k + 1].lines IN
           IF lines = <<>> THEN group[POWV[d][k + 1].same]
           ELSE [j \in DOMAIN lines |-> Solution(d, lines[j], POST[d][k + 1][j])]
     IN  [k \in DOMAIN group |-> group[k]]]
-----------------------------------------------------------------------------
(* flute: the Hanan grid of a set of pins                                    *)

\* x in ascending order, y in descending order where x is equal
ByX(pins) == Sorted(pins, LAMBDA p, q : p[1] < q[1] \/ (p[1] = q[1] /\ p[2] > q[2]))

\* Selection sort of the ranks 0 .. d - 1 by y: the first of the least is taken,
\* and what stood in its place goes where it was.
SelectionSort(y, d) ==
  LET list[i \in 0 .. d - 1] ==
        IF i = 0 THEN [k \in 0 .. d - 1 |-> k]
        ELSE LET before == list[i - 1]
                 least == Min({y[before[k]] : k \in i - 1 .. d - 1})
                 first == Min({k \in i - 1 .. d - 1 : y[before[k]] = least})
             IN  [before EXCEPT ![i - 1] = before[first], ![first] = before[i - 1]]
  IN  list[d - 1]

HananGrid(pins) ==
  LET d == Cardinality(pins)
      pt == ByX(pins)
      s == SelectionSort([k \in 0 .. d - 1 |-> pt[k + 1][2]], d)
  IN  [d |-> d, s |-> s, xs |-> [k \in 0 .. d - 1 |-> pt[k + 1][1]],
       ys |-> [r \in 0 .. d - 1 |-> pt[s[r] + 1][2]]]

PinAt(net, r) == [x |-> net.xs[net.s[r]], y |-> net.ys[r]]
Branch(place, n) == [x |-> place.x, y |-> place.y, n |-> n]
Semiperimeter(net) == net.xs[net.d - 1] - net.xs[0] + net.ys[net.d - 1] - net.ys[0]
-----------------------------------------------------------------------------
(* flutes_LD: the table                                                      *)

\* The number of the order s among those of d pins
GroupNumber(net) ==
  LET s == net.s
      One(b) == IF b THEN 1 ELSE 0
      k[i \in 2 .. net.d - 1] ==
        IF i = 2 THEN One(s[0] < s[2]) + One(s[1] < s[2])
        ELSE s[i] - Cardinality({j \in i + 1 .. net.d - 1 : s[j] < s[i]}) + (i + 1) * k[i - 1]
  IN  k[net.d - 1]

hflip(net) == GroupNumber(net) >= numgrp(net.d)
Group(net) == IF hflip(net) THEN 2 * numgrp(net.d) - 1 - GroupNumber(net) ELSE GroupNumber(net)

\* mutant: the ends are exchanged without regard to the flip
EndsAsSorted(net, i) ==
  LET s == net.s  d == net.d IN
  IF i \in {0, 1} /\ s[0] < s[1] THEN 1 - i
  ELSE IF i \in {d - 2, d - 1} /\ s[d - 2] < s[d - 1] THEN 2 * d - 3 - i ELSE i

\* The pin of the table that pin i is: the two lowest and the two highest are
\* stored in one order only.
TablePin(net, i) ==
  LET s == net.s  d == net.d IN
  IF i \in {0, 1} /\ ((s[0] < s[1]) # hflip(net)) THEN 1 - i
  ELSE IF i \in {d - 2, d - 1} /\ ((s[d - 2] < s[d - 1]) # hflip(net)) THEN 2 * d - 3 - i ELSE i

\* l, the length of each solution; l[0] is that of the bounding box
Lengths(net, dd, list) ==
  LET l[j \in 0 .. Len(list)] ==
        IF j = 0 THEN Semiperimeter(net)
        ELSE IF j = 1 THEN l[0] + SumOver(dd, list[1].add)
        ELSE l[list[j].parent] + SumOver(dd, list[j].add) - SumOver(dd, list[j].sub)
  IN  l

\* The tree of the first of the shortest solutions in list
FromTable(net, list) ==
  LET d == net.d
      Gap(i) == IF hflip(net) THEN net.xs[d - 1 - i] - net.xs[d - 2 - i] ELSE net.xs[i + 1] - net.xs[i]
      dd == [i \in 1 .. 2 * d - 4 |->
               IF i <= d - 3 THEN net.ys[i + 1] - net.ys[i] ELSE IF i < d THEN 0 ELSE Gap(i - d + 1)]
      l == Lengths(net, dd, list)
      minl == Min({l[j] : j \in DOMAIN list})
      best == list[Min({j \in DOMAIN list : l[j] = minl})]
      Steiner(j) == [x |-> net.xs[IF hflip(net) THEN d - 1 - best.col[j] ELSE best.col[j]],
                     y |-> net.ys[best.row[j]]]
  IN  [deg |-> d, length |-> minl,
       branch |-> [i \in 0 .. 2 * d - 3 |->
                     IF i < d THEN Branch(PinAt(net, i), best.neighbor[TablePin(net, i)])
                     ELSE Branch(Steiner(i - d), best.neighbor[i])]]

\* Two pins are joined; three meet at their median.
Joined(net) ==
  [deg |-> net.d, length |-> Semiperimeter(net),
   branch |-> [i \in 0 .. 2 * net.d - 3 |->
                 Branch(IF i = 3 THEN [x |-> net.xs[1], y |-> net.ys[1]] ELSE PinAt(net, i),
                        2 * net.d - 3)]]

flutes_LD(net) == IF net.d <= 3 THEN Joined(net) ELSE FromTable(net, LUT[net.d][Group(net)])
-----------------------------------------------------------------------------
(* How a net is broken                                                       *)

\* A net that falls apart at a corner point: <<1 or 2, rank>>, or <<0, 0>>
DirectBreak(net) ==
  LET s == net.s  d == net.d
      closed == {m \in 1 .. d - 1 : \A r \in 0 .. m : s[r] <= m}
      open == {m \in 0 .. d - 2 : \A r \in 0 .. d - 1 - m : s[r] >= m}
  IN  IF s[0] < s[d - 1]
      THEN IF Min(closed) <= d - 3 THEN <<1, Min(closed)>> ELSE <<0, 0>>
      ELSE IF Max(open) >= 2 THEN <<2, Max(open)>> ELSE <<0, 0>>

\* The part of a function that begins at from, with d places
Window(f, from, d) == [i \in 0 .. d - 1 |-> f[from + i]]

\* Both pieces get the corner point (xs[ms], ys[ms]).
RisingPieces(net, ms) ==
  LET d == net.d
      corner(f, last) == [i \in 0 .. ms + 1 |-> IF i <= ms THEN f[i] ELSE last]
  IN  <<[d |-> ms + 2, xs |-> corner(net.xs, net.xs[ms]), ys |-> corner(net.ys, net.ys[ms]),
         s |-> corner(net.s, ms + 1)],
        [d |-> d - ms, xs |-> Window(net.xs, ms, d - ms), ys |-> Window(net.ys, ms, d - ms),
         s |-> [i \in 0 .. d - 1 - ms |-> IF i = 0 THEN 0 ELSE net.s[i + ms] - ms]]>>

\* Both pieces get the corner point (xs[ms], ys[d - 1 - ms]).
FallingPieces(net, ms) ==
  LET d == net.d  top == d - ms IN
  <<[d |-> top + 1,
     xs |-> [i \in 0 .. top |-> IF i = 0 THEN net.xs[ms] ELSE net.xs[i + ms - 1]],
     ys |-> [i \in 0 .. top |-> IF i = top THEN net.ys[top - 1] ELSE net.ys[i]],
     s  |-> [i \in 0 .. top |-> IF i = top THEN 0 ELSE net.s[i] - ms + 1]],
    [d |-> ms + 1, xs |-> Window(net.xs, 0, ms + 1), ys |-> Window(net.ys, top - 1, ms + 1),
     s |-> [i \in 0 .. ms |-> IF i = 0 THEN ms ELSE net.s[i + top - 1]]]>>

DirectPieces(net, direct) ==
  IF direct[1] = 1 THEN RisingPieces(net, direct[2]) ELSE FallingPieces(net, direct[2])

si(net) == [q \in 0 .. net.d - 1 |-> CHOOSE r \in 0 .. net.d - 1 : net.s[r] = q]

\* The k-th of the ranks that are in S, for all of them
InOrder(S) == Sorted(S, <)
Ranked(S, k) == InOrder(S)[k + 1]

\* Broken in x at the pin of rank p: it belongs to both pieces.
XPieces(net, p) ==
  LET d == net.d
      Low == {r \in 0 .. d - 1 : net.s[r] <= p}
      High == {r \in 0 .. d - 1 : net.s[r] >= p}
  IN  <<[d |-> p + 1, xs |-> Window(net.xs, 0, p + 1),
         ys |-> [k \in 0 .. p |-> net.ys[Ranked(Low, k)]],
         s |-> [k \in 0 .. p |-> net.s[Ranked(Low, k)]]],
        [d |-> d - p, xs |-> Window(net.xs, p, d - p),
         ys |-> [k \in 0 .. d - 1 - p |-> net.ys[Ranked(High, k)]],
         s |-> [k \in 0 .. d - 1 - p |-> net.s[Ranked(High, k)] - p]]>>

\* Broken in y at the pin of rank p
YPieces(net, p) ==
  LET d == net.d
      Low == {q \in 0 .. d - 1 : si(net)[q] <= p}
      High == {q \in 0 .. d - 1 : si(net)[q] >= p}
      Position(S, q) == Cardinality({r \in S : r < q})
  IN  <<[d |-> p + 1, ys |-> Window(net.ys, 0, p + 1),
         xs |-> [k \in 0 .. p |-> net.xs[Ranked(Low, k)]],
         s |-> [r \in 0 .. p |-> Position(Low, net.s[r])]],
        [d |-> d - p, ys |-> Window(net.ys, p, d - p),
         xs |-> [k \in 0 .. d - 1 - p |-> net.xs[Ranked(High, k)]],
         s |-> [r \in 0 .. d - 1 - p |-> Position(High, net.s[r + p])]]>>
-----------------------------------------------------------------------------
(* The score of a break; candidate 2k is at rank lb + k in x, 2k + 1 in y    *)

Lb(net, acc) == Max({(net.d - acc) \div 5, 2})
Candidates(net, acc) == 0 .. 2 * (net.d - 2 * Lb(net, acc)) - 1
BreakPt(net, acc, bp) == bp \div 2 + Lb(net, acc)
BreakInX(bp) == bp % 2 = 0

\* How far a rank is from the rim
Depth(net, q) == net.d \div 2 - Max({Min({q, net.d - 1 - q}), 1})

Penalty(net, q) ==
  LET ccc == Max({410 - 5 * net.d, 100}) IN
  ccc * (net.d - 1) * (Depth(net, q) * (net.xs[net.d - 2] - net.xs[1])
                       + Depth(net, si(net)[q]) * (net.ys[net.d - 2] - net.ys[1]))

\* The gap about rank q in the other direction; at the rim, that next to it.
Side(f, d, q) ==
  IF q <= 1 THEN 600 * (f[2] - f[1])
  ELSE IF q >= d - 2 THEN 600 * (f[d - 2] - f[d - 3])
  ELSE 300 * (f[q + 1] - f[q - 1])

\* The extent of the pieces across the break: order is s or si
Extent(order, f, d, p) ==
  Spread(f, {order[r] : r \in 0 .. p}) + Spread(f, {order[r] : r \in p .. d - 1})

Score(net, acc, bp) ==
  LET d == net.d
      p == BreakPt(net, acc, bp)
      whole == 1000 * (d - 3) * (d - 1)
      side == (d - 3) * (d - 1)
      dist == 4800 * (d - 3)
      xydiff == (net.xs[d - 1] - net.xs[0]) - (net.ys[d - 1] - net.ys[0])
  IN  IF BreakInX(bp)
      THEN whole * (net.xs[p + 1] - net.xs[p - 1]) - Penalty(net, p)
           - side * Side(net.ys, d, si(net)[p])
           - dist * (Extent(si(net), net.ys, d, p) + xydiff)
      ELSE whole * (net.ys[p + 1] - net.ys[p - 1]) - Penalty(net, net.s[p])
           - side * Side(net.xs, d, net.s[p])
           - dist * Extent(net.s, net.xs, d, p)

Tries(net, acc) ==
  LET total == Cardinality(Candidates(net, acc))
  IN  IF acc > 3 /\ acc >= total THEN total - 1 ELSE acc

\* The loop takes the first of the best scores and strikes it out.
BestBreaks(net, acc) ==
  LET Best(score, left) ==
        LET most == Max({score[bp] : bp \in left}) IN Min({bp \in left : score[bp] = most})
      Taken(score, tries) ==
        FoldLeft(LAMBDA taken, k : Append(taken, Best(score, DOMAIN score \ ToSet(taken))),
                 <<>>, [k \in 1 .. tries |-> k])
  IN  Taken([bp \in Candidates(net, acc) |-> Score(net, acc, bp)], Tries(net, acc))

newacc(acc) == IF acc <= 3 THEN 1 ELSE acc \div 2
Pieces(net, acc, bp) ==
  LET p == BreakPt(net, acc, bp) IN IF BreakInX(bp) THEN XPieces(net, p) ELSE YPieces(net, p)
-----------------------------------------------------------------------------
(* Merging: pins first, then the Steiner points of the left tree, of the     *)
(* right tree, and where both have a tree pin at the break, one more         *)

Moved(branch, offset) == [branch EXCEPT !.n = @ + offset]

\* The path from curr to the root is turned round and led to prev.
RECURSIVE Redirected(_, _, _)
Redirected(branch, curr, prev) ==
  LET turned == [branch EXCEPT ![curr].n = prev] IN
  IF branch[curr].n = curr THEN turned ELSE Redirected(turned, branch[curr].n, curr)

\* Where the branch to the common pin leaves the segment between the two: pin is
\* its coordinate along the break, a and b those of its neighbours.
Meeting(pin, a, b) ==
  IF pin > Max({a, b}) THEN Max({a, b})
  ELSE IF pin < Min({a, b}) THEN Min({a, b}) ELSE pin

dmergetree(t1, t2) ==
  LET d == t1.deg + t2.deg - 2
      offset1 == t2.deg - 2
      offset2 == 2 * t1.deg - 4
      joined == [i \in 0 .. 2 * d - 3 |->
                   IF i <= t1.deg - 2 THEN Moved(t1.branch[i], offset1)
                   ELSE IF i <= d - 1 THEN Moved(t2.branch[i - t1.deg + 2], offset2)
                   ELSE IF i <= d + t1.deg - 3 THEN Moved(t1.branch[i - offset1], offset1)
                   ELSE Moved(t2.branch[i - offset2], offset2)]
  IN  [deg |-> d, length |-> t1.length + t2.length,
       branch |-> Redirected(joined, t1.branch[t1.deg - 1].n + offset1, t2.branch[0].n + offset2)]

\* A tree over pins, which says for each pin which branch of which tree it is.
\* pin is the common one, nn1 and nn2 its numbers in the two trees, at its extra
\* Steiner point.
MergedAt(t1, t2, pins, pin, nn1, nn2, at) ==
  LET d == t1.deg + t2.deg - 1
      offset1 == t2.deg - 1
      offset2 == 2 * t1.deg - 3
      extra == 2 * d - 3
      joined == [i \in 0 .. 2 * d - 4 |->
                   IF i < d THEN IF pins[i][1] = 1 THEN Moved(t1.branch[pins[i][2]], offset1)
                                 ELSE Moved(t2.branch[pins[i][2]], offset2)
                   ELSE IF i <= d + t1.deg - 3 THEN Moved(t1.branch[i - offset1], offset1)
                   ELSE Moved(t2.branch[i - offset2], offset2)]
      linked == [i \in 0 .. extra |->
                   IF i = extra THEN Branch(at, joined[pin].n)
                   ELSE IF i = pin THEN [joined[i] EXCEPT !.n = extra] ELSE joined[i]]
      common == t2.branch[nn2]
  IN  [deg |-> d,
       length |-> t1.length + t2.length - Absolute(common.x - at.x) - Absolute(common.y - at.y),
       branch |-> Redirected(linked, t1.branch[nn1].n + offset1, extra)]

Neighbour(t, i) == t.branch[t.branch[i].n]

hmergetree(t1, t2, s) ==
  LET d == t1.deg + t2.deg - 1
      p == t1.deg - 1
      n1(i) == Cardinality({j \in 0 .. i - 1 : s[j] <= p})
      n2(i) == Cardinality({j \in 0 .. i - 1 : s[j] >= p})
      ii == CHOOSE i \in 0 .. d - 1 : s[i] = p
      common == t2.branch[n2(ii)]
  IN  MergedAt(t1, t2, [i \in 0 .. d - 1 |-> IF s[i] < p THEN <<1, n1(i)>> ELSE <<2, n2(i)>>],
               ii, n1(ii), n2(ii),
               [x |-> common.x,
                y |-> Meeting(common.y, Neighbour(t1, n1(ii)).y, Neighbour(t2, n2(ii)).y)])

vmergetree(t1, t2) ==
  LET d == t1.deg + t2.deg - 1
      p == t1.deg - 1
      common == t2.branch[0]
  IN  MergedAt(t1, t2, [i \in 0 .. d - 1 |-> IF i < p THEN <<1, i>> ELSE <<2, i - p>>], p, p, 0,
               [x |-> Meeting(common.x, Neighbour(t1, p).x, Neighbour(t2, 0).x), y |-> common.y])
-----------------------------------------------------------------------------
\* How the trees of two pieces are merged: 1, 2, 3 for merge_d, merge_h, merge_v
WayKind(bp) == IF BreakInX(bp) THEN 2 ELSE 3
MergedWay(kind, t, s) ==
  CASE kind = 1 -> dmergetree(t[1], t[2])
    [] kind = 2 -> hmergetree(t[1], t[2], s)
    [] kind = 3 -> vmergetree(t[1], t[2])

\* The first of the shortest trees
FirstShortest(trees) ==
  LET minl == Min({trees[k].length : k \in DOMAIN trees})
  IN  trees[Min({k \in DOMAIN trees : trees[k].length = minl})]

RECURSIVE flutes(_, _)

flutes_MD(net, acc) ==
  LET Solve(pieces, a) == <<flutes(pieces[1], a), flutes(pieces[2], a)>>
      Direct(pieces) == MergedWay(1, Solve(pieces, acc), net.s)
      Try(bp) == MergedWay(WayKind(bp), Solve(Pieces(net, acc, bp), newacc(acc)), net.s)
      Way(direct) ==
        IF direct[1] # 0 THEN Direct(DirectPieces(net, direct))
        ELSE FirstShortest([k \in 1 .. Tries(net, acc) |-> Try(BestBreaks(net, acc)[k])])
  IN  Way(DirectBreak(net))

flutes(net, acc) == IF net.d <= DEGREE THEN flutes_LD(net) ELSE flutes_MD(net, acc)

\* Two pins are joined as they come, which is in the order of a hash set: some order.
Couple(list) ==
  [deg |-> 2, length |-> Distance(list[1], list[2]),
   branch |-> [i \in {0, 1} |-> [x |-> list[i + 1][1], y |-> list[i + 1][2], n |-> 1]]]

\* my_flute passes accuracy 3.
flute(pins) ==
  IF Cardinality(pins) = 2 THEN Couple(SetToSeq(pins)) ELSE flutes(HananGrid(pins), 3)

\* wirelength, from the branches
wirelength(branch) ==
  MapThenSumSet(LAMBDA i : Distance(Place(branch, i), Place(branch, branch[i].n)), DOMAIN branch)
=============================================================================
