---------------------------- MODULE MCCopyTrading ----------------------------
(* Finite instances of CopyTrading. *)
EXTENDS CopyTrading, TLC

CONSTANTS m1, m2, a1, a2, p1, p2, x1, x2, root, apiSeg, followersSeg

MCSegments == {root, apiSeg, followersSeg}

\* "/api/" in front of the id: the segment the handlers read.
DirectMount == <<root, apiSeg>>

Symmetry == Permutations({p1, p2})
\* The specification gives no master a part of its own.
MasterSymmetry == Permutations({m1, m2})
=============================================================================
