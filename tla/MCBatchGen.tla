------------------------------ MODULE MCBatchGen ------------------------------
(* BatchGen on a 4 by 4 grid with two-pin nets.                               *)
EXTENDS BatchGen

Grid == INSTANCE GridMarks WITH X <- 4, Y <- 4

MCCell == Grid!GridCell

Nets(edges) == {Grid!Footprint({e}) : e \in edges}

\* two nets in far corners, and a horizontal and a vertical net that cross
MCFootprints == Nets({<<0, 1>>, <<14, 15>>, <<4, 6>>, <<1, 9>>})
=============================================================================
