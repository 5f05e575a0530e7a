---------------------------- MODULE MCGpuCenter -----------------------------
(* One tree in the launch: two to five pins on a line, as FLUTE joins them. *)
EXTENDS GpuCenter

\* pins 0 .. d-1, then d-2 Steiner branches at the places of the inner pins
Line(d) ==
  [i \in 0 .. 2 * d - 3 |->
     IF i < d THEN [x |-> i, y |-> 0, n |-> IF d = 2 THEN 1 ELSE d - 1 + Max({1, Min({i, d - 2})})]
     ELSE [x |-> i - d + 1, y |-> 0, n |-> Min({i + 1, 2 * d - 3})]]

MCLaunches == {<<Line(d)>> : d \in 2 .. 5}
=============================================================================
