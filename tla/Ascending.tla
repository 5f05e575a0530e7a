------------------------------- MODULE Ascending -------------------------------
(***************************************************************************)
(* The members of a finite set of integers in increasing order: what a     *)
(* loop over a range collects when it appends each index that passes.      *)
(***************************************************************************)
EXTENDS Integers, FiniteSets

Below(S, i) == {j \in S : j < i}

Ascending(S) ==
  [k \in 1 .. Cardinality(S) |-> CHOOSE i \in S : Cardinality(Below(S, i)) = k - 1]
=============================================================================
