------------------------- MODULE MCSignalDistributor -------------------------
(* Finite instances of SignalDistributor. *)
EXTENDS SignalDistributor

CONSTANTS c1, c2, f1, f2

\* 0.01 x 0.35 is below MinLot, 2.50 x 0.35 a tie, 0.01 x 50.70 is rounded up
\* and 2.50 x 50.70 above MaxLot.
MCLots == {1, 250, NaN}
MCMultiplier == [f \in Followers |-> IF f = f1 THEN 35 ELSE 5070]
=============================================================================
