---------------------------- MODULE MCTabManager ----------------------------
(***************************************************************************)
(* TabManager on a small instance.                                         *)
(***************************************************************************)
EXTENDS TabManager, TLC

(* Not everything goes with everything: each line is what goes together    *)
(* before the kill, and after it.                                          *)
MCKinds ==
    << {{"name", "overlap"}, {"drag", "rename"}, {"title", "replay"}},
       {{"name", "early", "title"}, {"overlap"}} >>

Symmetry == Permutations(SessionIds)
=============================================================================
