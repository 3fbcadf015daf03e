----------------------------- MODULE MCSnapSync -----------------------------
(* Two looks of the game; an input that acknowledges the second tick of the map before
   may still be on its way. *)
EXTENDS SnapSync, TLC

CONSTANTS w1, w2

MCWorlds == {w1, w2}
MCOldAcks == {2}
Symmetry == Permutations(MCWorlds)
=============================================================================
