--------------------------- MODULE MCGenerateBatches ---------------------------
(* GenerateBatches on a grid of 3 by 4 cells, with what every tree edge of that *)
(* grid marks.                                                                *)
EXTENDS GenerateBatches, GridMarks

\* a net under the end of another one, so that only one order of them is
\* conflict-free, a net apart from both, and one that joins the first and the third
MCFootprints == {Footprint({e}) : e \in {<<5, 6>>, <<2, 10>>, <<4, 8>>, <<3, 7>>}}

Border(i, j) ==
  {pos \in GridCell :
     /\ Col(pos) \in MinOf(Col(i), Col(j)) .. MaxOf(Col(i), Col(j))
     /\ Row(pos) \in MinOf(Row(i), Row(j)) .. MaxOf(Row(i), Row(j))
     /\ Col(pos) \in {Col(i), Col(j)} \/ Row(pos) \in {Row(i), Row(j)}}

\* What the GPU stamps for a tree edge is what the CPU marks: the border of the
\* edge's box, with no walk wrapping into the next column, and the crosses of
\* mark_3x3 about its points, also where the grid ends.  Both paths and the replay
\* test one footprint.
PathsAgreeOnMarks ==
  stage = "collect" => \A i, j \in GridCell : i # j =>
    Footprint({<<i, j>>}).marks =
      Border(i, j) \cup (UNION {Mark3x3(p) : p \in EdgePoints(i, j)})
=============================================================================
