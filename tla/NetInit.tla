------------------------------- MODULE NetInit --------------------------------
(***************************************************************************)
(* db::net::init: one access point is selected for each pin of the file.   *)
(* Nets of up to four pins try all choices; larger ones take the point     *)
(* that is nearest to the center.  Points selected at one place become one *)
(* pin, the highest, and an extra route joins the others to it.            *)
(*                                                                         *)
(* A point is [x, y, l], l its metal; the points of a pin are a sequence.  *)
(* Each pin has one at least: read_net begins a pin with its first point.  *)
(***************************************************************************)
EXTENDS Summation, Sequences, FiniteSets, FiniteSetsExt, SequencesExt

AllPoints(access_points) == UNION {ToSet(access_points[i]) : i \in DOMAIN access_points}

\* Twice the center of the bounding box
center_2x(access_points) == LET xs == {a.x : a \in AllPoints(access_points)} IN Min(xs) + Max(xs)
center_2y(access_points) == LET ys == {a.y : a \in AllPoints(access_points)} IN Min(ys) + Max(ys)

\* Twice the distance to the center
OffCenter(a, cx, cy) ==
  LET Abs(n) == IF n < 0 THEN -n ELSE n IN Abs(2 * a.x - cx) + Abs(2 * a.y - cy)

\* Coordinates in which two of the first num points differ, over all pairs
diff(points, num) ==
  LET Differ(i, j) == (IF points[i].x # points[j].x THEN 1 ELSE 0)
                      + (IF points[i].y # points[j].y THEN 1 ELSE 0)
  IN  Summed([i \in 1 .. num |-> Summed([j \in 1 .. num |-> Differ(i, j)], 1, i - 1)], 1, num)

\* The loops of enumerate: the first pin changes last.
TriedBefore(f, g) ==
  \E i \in DOMAIN f : f[i] < g[i] /\ \A j \in 1 .. i - 1 : f[j] = g[j]

\* enumerate: a point for each pin, and how good the choice is
rated(access_points, cx, cy) ==
  LET num == Len(access_points)
      pins == 1 .. num
      choices == {f \in [pins -> UNION {DOMAIN access_points[i] : i \in pins}] :
                    \A i \in pins : f[i] \in DOMAIN access_points[i]}
  IN  {[idx |-> f,
        diff |-> diff([i \in pins |-> access_points[i][f[i]]], num),
        metric |-> Summed([i \in pins |-> OffCenter(access_points[i][f[i]], cx, cy)], 1, num)]
         : f \in choices}

\* The choice with the fewest differences, then nearest to the center, then first
best_idx(access_points, cx, cy) ==
  LET all == rated(access_points, cx, cy)
      fewest == {r \in all : \A s \in all : r.diff <= s.diff}
      nearest == {r \in fewest : \A s \in fewest : r.metric <= s.metric}
  IN  (CHOOSE r \in nearest : \A s \in nearest \ {r} : TriedBefore(r.idx, s.idx)).idx

\* The first of the points nearest to the center
selected_pin(points, cx, cy) ==
  points[Min({j \in DOMAIN points :
                \A k \in DOMAIN points : OffCenter(points[j], cx, cy) <= OffCenter(points[k], cx, cy)})]

Selected(access_points, cx, cy) ==
  IF Len(access_points) <= 4
  THEN LET idx == best_idx(access_points, cx, cy)
       IN  {access_points[i][idx[i]] : i \in DOMAIN access_points}
  ELSE {selected_pin(access_points[i], cx, cy) : i \in DOMAIN access_points}

init(access_points) ==
  LET p == Selected(access_points, center_2x(access_points), center_2y(access_points))
      Highest(a) == \A b \in p : (b.x = a.x /\ b.y = a.y) => b.l <= a.l
      Lowest(a) == \A b \in p : (b.x = a.x /\ b.y = a.y) => a.l <= b.l
  IN  [pins |-> {a \in p : Highest(a)},
       extra_routes |-> {e \in p \X p : e[1].x = e[2].x /\ e[1].y = e[2].y /\ e[1] # e[2]
                                         /\ Lowest(e[1]) /\ Highest(e[2])}]
=============================================================================
