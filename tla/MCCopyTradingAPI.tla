-------------------------- MODULE MCCopyTradingAPI --------------------------
(* Finite instances of CopyTradingAPI. *)
EXTENDS CopyTradingAPI, TLC

CONSTANTS m1, a1, a2, p1, p2, root, apiSeg, followersSeg

MCSegments == {root, apiSeg, followersSeg}

\* "/api/" in front of the id: the segment the handlers read.
DirectMount == <<root, apiSeg>>

\* "/api/followers/" in front of the id: what SetupRoutes mounts.
DeployedMount == <<root, apiSeg, followersSeg>>

Symmetry == Permutations({p1, p2})
=============================================================================
