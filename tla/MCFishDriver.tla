---------------------------- MODULE MCFishDriver ----------------------------
(***************************************************************************)
(* FishDriver on a small instance.                                         *)
(***************************************************************************)
EXTENDS FishDriver, TLC

CONSTANTS k1, k2, s1, s2

MCSockets == {k1, k2}
MCSessionIds == {s1, s2}
Symmetry == Permutations(MCSockets) \union Permutations(MCSessionIds)
=============================================================================
