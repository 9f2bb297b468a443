--------------------------- MODULE MCSignalIntake ---------------------------
(* Finite instances of SignalIntake. *)
EXTENDS SignalIntake

CONSTANTS s1, s2

MCMode == [s \in Senders |-> IF s = s1 THEN "batch" ELSE "loop"]
MCMaxLines == [s \in Senders |-> IF s = s1 THEN 2 ELSE 1]
=============================================================================
