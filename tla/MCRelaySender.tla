---------------------------- MODULE MCRelaySender ----------------------------
(* Finite instances of RelaySender. *)
EXTENDS RelaySender

CONSTANTS p1, p2, c1, c2, c3
=============================================================================
