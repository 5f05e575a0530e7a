----------------------------- MODULE MCRsmtTrees ------------------------------
EXTENDS RsmtTrees, TLC
CONSTANTS c1, c2, g1, g2
MCCpuThreads == {c1, c2}
MCGpuThreads == {g1, g2}
Symmetry == Permutations(MCCpuThreads) \cup Permutations(MCGpuThreads)

L(parent, add, sub) == [parent |-> parent, add |-> add, sub |-> sub]
G(lines) == [same |-> 0, lines |-> lines]
Same(k) == [same |-> k, lines |-> <<>>]
MCPOWV ==
  4 :> <<G(<<L(0, <<>>, <<>>)>>), Same(0), G(<<L(0, <<4>>, <<>>), L(0, <<1>>, <<>>)>>), Same(2),
        Same(2), Same(2)>>
  @@ 5 :> <<G(<<L(0, <<>>, <<>>)>>), Same(0), G(<<L(0, <<5>>, <<>>), L(0, <<2>>, <<>>)>>),
        G(<<L(0, <<5, 6>>, <<>>), L(0, <<2, 6>>, <<>>), L(0, <<1, 2>>, <<>>)>>), Same(3),
        Same(2), Same(2), Same(2), Same(3), Same(3), Same(3), Same(3),
        G(<<L(0, <<5, 6>>, <<>>), L(0, <<1, 6>>, <<>>), L(0, <<1, 2>>, <<>>)>>), Same(12),
        Same(12), Same(3), Same(3), Same(12), G(<<L(0, <<5>>, <<>>), L(0, <<1>>, <<>>)>>),
        Same(18), G(<<L(0, <<6>>, <<>>), L(0, <<1>>, <<>>)>>), Same(20),
        G(<<L(0, <<5, 6>>, <<>>), L(0, <<1, 5>>, <<>>), L(0, <<1, 2>>, <<>>)>>),
        G(<<L(0, <<5, 6>>, <<>>), L(0, <<1, 2>>, <<>>)>>), Same(23), Same(22), Same(22),
        Same(22), Same(23), Same(23)>>

MCPOST ==
  4 :> <<<<<<22, 25, 4, 53, 69>>>>, <<>>,
        <<<<21, 9, 4, 69, 37, 53>>, <<21, 6, 5, 37, 52, 69>>>>, <<>>, <<>>, <<>>>>
  @@ 5 :> <<<<<<33, 37, 41, 5, 71, 118, 86>>>>, <<>>,
        <<<<33, 36, 16, 5, 55, 71, 86, 103>>, <<33, 36, 12, 5, 55, 70, 87, 103>>>>,
        <<<<32, 12, 17, 5, 55, 38, 71, 86, 103>>, <<32, 36, 12, 70, 55, 5, 103, 87>>, <<36, 12, 13, 69, 55, 22, 7, 86, 103>>>>,
        <<>>, <<>>, <<>>, <<>>, <<>>, <<>>, <<>>, <<>>,
        <<<<7, 12, 17, 5, 55, 21, 38, 71, 86, 103>>, <<31, 7, 17, 37, 71, 6, 55, 86, 103>>, <<11, 12, 13, 37, 55, 21, 7, 70, 118, 86>>>>,
        <<>>, <<>>, <<>>, <<>>, <<>>,
        <<<<31, 11, 18, 38, 55, 5, 71, 86, 103>>, <<31, 7, 18, 37, 55, 6, 71, 86, 103>>>>,
        <<>>, <<<<32, 12, 41, 5, 86, 38, 71, 103>>, <<32, 8, 41, 6, 38, 71, 117, 86>>>>, <<>>,
        <<<<7, 12, 42, 5, 38, 21, 71, 86, 103>>, <<7, 8, 42, 6, 38, 21, 71, 101, 87>>, <<11, 12, 38, 69, 54, 21, 7, 86, 103>>>>,
        <<<<7, 37, 17, 5, 55, 21, 71, 86, 103>>, <<11, 37, 13, 69, 55, 21, 7, 86, 103>>>>,
        <<>>, <<>>, <<>>, <<>>, <<>>, <<>>>>

\* Nets of one pin per row and column, in every order; with them the larger ones,
\* with pins in line, that are broken at one level and at two, and those above
\* kThrustSortDegree.
Orders(xs, ys) ==
  {{<<xs[i], ys[order[i]]>> : i \in DOMAIN xs} : order \in Permutations(DOMAIN xs)}

Broad == {
  {<<1, 1>>, <<3, 3>>, <<3, 4>>, <<4, 1>>, <<4, 3>>, <<4, 4>>},
  {<<1, 19>>, <<2, 17>>, <<3, 14>>, <<9, 4>>, <<12, 14>>, <<19, 5>>},
  {<<0, 3>>, <<0, 8>>, <<1, 0>>, <<3, 0>>, <<7, 3>>, <<7, 5>>},
  {<<2, 3>>, <<3, 0>>, <<3, 5>>, <<4, 0>>, <<4, 1>>, <<5, 0>>, <<5, 2>>},
  {<<1, 9>>, <<3, 8>>, <<4, 0>>, <<5, 12>>, <<6, 1>>, <<11, 4>>, <<12, 1>>},
  {<<0, 3>>, <<0, 6>>, <<1, 1>>, <<3, 0>>, <<3, 5>>, <<5, 0>>, <<6, 2>>},
  {<<1, 0>>, <<1, 3>>, <<1, 4>>, <<2, 3>>, <<4, 5>>, <<5, 0>>, <<6, 1>>, <<6, 6>>},
  {<<1, 14>>, <<4, 13>>, <<6, 14>>, <<15, 5>>, <<16, 6>>, <<20, 12>>, <<21, 17>>, <<23, 24>>},
  {<<0, 0>>, <<0, 1>>, <<0, 2>>, <<0, 3>>, <<1, 3>>, <<3, 1>>, <<4, 2>>, <<4, 4>>},
  {<<0, 9>>, <<1, 1>>, <<2, 3>>, <<3, 9>>, <<5, 4>>, <<5, 5>>, <<6, 1>>, <<7, 4>>, <<10, 3>>},
  {<<1, 1>>, <<2, 4>>, <<3, 2>>, <<3, 3>>, <<3, 6>>, <<6, 0>>, <<6, 2>>, <<7, 1>>, <<7, 2>>},
  {<<1, 16>>, <<8, 7>>, <<12, 8>>, <<13, 26>>, <<15, 9>>, <<16, 5>>, <<23, 22>>, <<28, 19>>, <<29, 23>>},
  {<<0, 1>>, <<1, 2>>, <<3, 7>>, <<3, 11>>, <<4, 3>>, <<4, 6>>, <<8, 10>>, <<9, 1>>, <<13, 9>>, <<14, 14>>},
  {<<0, 0>>, <<1, 5>>, <<2, 4>>, <<2, 7>>, <<2, 9>>, <<5, 8>>, <<5, 10>>, <<7, 3>>, <<8, 9>>, <<9, 2>>, <<11, 11>>}}

Two == {<<0, 4>>, <<3, 1>>}
Three == {<<0, 0>>, <<2, 5>>, <<6, 5>>}
Six == {<<0, 2>>, <<1, 5>>, <<3, 0>>, <<4, 3>>, <<5, 1>>, <<7, 4>>}

\* Lists of more than a chunk, whose last chunk is a short one
Lists == {<<Six, Two, Three, Two, Three>>, <<Three, Six, Six, Two>>}

\* The gaps in the middle decide which solution of a group is the shortest.
Small ==
  Orders(<<0, 2, 3, 7>>, <<1, 2, 6, 8>>) \cup Orders(<<0, 2, 6, 7>>, <<1, 2, 3, 8>>)
    \cup Orders(<<0, 3, 5, 6, 10>>, <<0, 1, 4, 6, 11>>)
    \cup Orders(<<0, 1, 5, 8, 9>>, <<0, 2, 3, 5, 8>>)
    \cup Orders(<<0, 2, 3, 8, 9>>, <<0, 1, 5, 6, 7>>)

MCDesigns == {<<net>> : net \in Small \cup Broad} \cup Lists
=============================================================================
