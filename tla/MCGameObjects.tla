----------------------------- MODULE MCGameObjects -----------------------------
(* A small instance of GameObjects for TLC. *)
EXTENDS GameObjects, TLC

Symmetry == Permutations(Objects)

=============================================================================
