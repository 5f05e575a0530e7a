------------------------------- MODULE GridSize -------------------------------
(* The cells of the routing grid: X columns and Y rows on each layer *)
EXTENDS Integers

CONSTANTS X, Y                 \* bounds: the grid is X by Y

ASSUME GridAssumption == X \in Nat \ {0} /\ Y \in Nat \ {0}
===============================================================================
