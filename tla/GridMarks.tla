------------------------------ MODULE GridMarks ------------------------------
(***************************************************************************)
(* The grid footprint of a net in batch generation.                        *)
(*                                                                         *)
(* A cell of the X by Y routing grid is the number x * Y + y.  A tree edge *)
(* of a net's Steiner tree becomes horizontal and vertical segments and    *)
(* the two corners of its bounding box (net::finalize_rsmt); a batch map   *)
(* marks every cell of those segments and a small cross around every point.*)
(* The cross is written three times in the source: mark_3x3 on the CPU,    *)
(* visit_marks on the GPU, and the replay of batches_are_conflict_free.    *)
(***************************************************************************)
EXTENDS Integers

CONSTANTS X, Y          \* grid size (cudb::X, cudb::Y)

ASSUME GridAssumption == X \in Nat \ {0} /\ Y \in Nat \ {0}

GridCell == 0 .. X * Y - 1

Col(pos) == pos \div Y
Row(pos) == pos % Y

MinOf(a, b) == IF a < b THEN a ELSE b
MaxOf(a, b) == IF a < b THEN b ELSE a

-----------------------------------------------------------------------------
(* net::finalize_rsmt: the segments and the points of one tree edge <<i, j>> *)

HSegments(i, j) ==
  LET minx == MinOf(Col(i), Col(j))    maxx == MaxOf(Col(i), Col(j))
      miny == MinOf(Row(i), Row(j))    maxy == MaxOf(Row(i), Row(j))
  IN  IF Col(i) = Col(j) THEN {}
      ELSE {<<minx * Y + y, maxx * Y + y>> : y \in {miny, maxy}}

VSegments(i, j) ==
  LET minx == MinOf(Col(i), Col(j))    maxx == MaxOf(Col(i), Col(j))
      miny == MinOf(Row(i), Row(j))    maxy == MaxOf(Row(i), Row(j))
  IN  IF Row(i) = Row(j) THEN {}
      ELSE {<<x * Y + miny, x * Y + maxy>> : x \in {minx, maxx}}

EdgePoints(i, j) ==
  {i, j} \cup IF Col(i) # Col(j) /\ Row(i) # Row(j)
              THEN {Col(i) * Y + Row(j), Col(j) * Y + Row(i)}
              ELSE {}

-----------------------------------------------------------------------------
(* gpu_batch::visit_marks: what one net stamps into a batch map            *)

HWalk(seg) == {pos \in seg[1] .. seg[2] : (pos - seg[1]) % Y = 0}
VWalk(seg) == seg[1] .. seg[2]

\* mutant: no bound on the right
CrossOffGrid(pos) ==
  {pos, pos + Y} \cup (IF Row(pos) > 0 THEN {pos - 1} ELSE {})
                \cup (IF Col(pos) > 0 THEN {pos - Y} ELSE {})

Cross(pos) ==
  {pos} \cup (IF Row(pos) > 0     THEN {pos - 1} ELSE {})
        \cup (IF Col(pos) > 0     THEN {pos - Y} ELSE {})
        \cup (IF Col(pos) + 1 < X THEN {pos + Y} ELSE {})

VisitMarks(h, v, p) ==
  (UNION {HWalk(seg) : seg \in h}) \cup (UNION {VWalk(seg) : seg \in v})
    \cup (UNION {Cross(pos) : pos \in p})

(* mark_3x3 of the CPU path: the y loop ends at y = _y, so no upper cell.   *)
Mark3x3(pos) ==
  {xy[1] * Y + xy[2] : xy \in
     {xy \in (Col(pos) - 1 .. Col(pos) + 1) \X (Row(pos) - 1 .. Row(pos)) :
        /\ xy[1] \in 0 .. X - 1 /\ xy[2] \in 0 .. Y - 1
        /\ xy[1] = Col(pos) \/ xy[2] = Row(pos)}}

(* A net whose tree is the set of edges: what batch generation sees of it.  *)
Footprint(edges) ==
  LET h == UNION {HSegments(e[1], e[2]) : e \in edges}
      v == UNION {VSegments(e[1], e[2]) : e \in edges}
      p == UNION {EdgePoints(e[1], e[2]) : e \in edges}
  IN  [points |-> p, marks |-> VisitMarks(h, v, p)]
=============================================================================
