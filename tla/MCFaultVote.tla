----------------------------- MODULE MCFaultVote ----------------------------
(***************************************************************************)
(* FaultVote with up to four peers.  The peers that are not suspected are  *)
(* interchangeable: runs without liveness use the symmetry.                *)
(***************************************************************************)
EXTENDS FaultVote, TLC

CONSTANTS a, b, c, d

Symmetry == Permutations(Peers \ Suspects)
=============================================================================
