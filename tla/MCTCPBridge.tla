----------------------------- MODULE MCTCPBridge -----------------------------
(* Finite instances of TCPBridge. *)
EXTENDS TCPBridge

CONSTANTS c1, c2

MCMaxLines == [c \in Clients |-> IF c = c1 THEN 2 ELSE 1]
=============================================================================
