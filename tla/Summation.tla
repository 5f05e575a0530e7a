------------------------------ MODULE Summation -------------------------------
(* What a loop adds up, as a recursive function: proofs can unfold it.     *)
EXTENDS Integers

\* A loop over n indices from first on that adds up f
Summed(f, first, n) ==
  LET total[i \in 0 .. n] == IF i = 0 THEN 0 ELSE total[i - 1] + f[first + i - 1]
  IN  total[n]
===============================================================================
