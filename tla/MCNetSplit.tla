------------------------------ MODULE MCNetSplit ------------------------------
(* Model checking of the breaking of large nets *)
EXTENDS NetSplit

Injective(n, places) ==
  {f \in [1 .. n -> places] : \A a, b \in 1 .. n : a # b => f[a] # f[b]}

\* four pins in every order on a square and on a line; five and six pins on
\* lines and in two rows with gaps that leave fewer ties; eight in four pairs
MCPlacements ==
  Injective(4, (0 .. 1) \X (0 .. 1)) \cup Injective(4, (0 .. 3) \X {0})
  \cup { <<<<0,0>>, <<1,0>>, <<3,0>>, <<4,0>>, <<8,0>>>>,
         <<<<8,0>>, <<4,0>>, <<0,0>>, <<1,0>>, <<3,0>>>>,
         <<<<0,0>>, <<7,0>>, <<0,1>>, <<7,1>>, <<3,0>>>>,
         <<<<0,0>>, <<1,0>>, <<5,0>>, <<6,0>>, <<12,3>>, <<13,3>>>>,
         <<<<13,3>>, <<0,0>>, <<6,0>>, <<1,0>>, <<12,3>>, <<5,0>>>>,
         <<<<0,0>>, <<1,0>>, <<10,0>>, <<12,0>>, <<50,0>>, <<53,0>>, <<110,0>>, <<114,0>>>> }
=============================================================================
