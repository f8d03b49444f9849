----------------------------- MODULE MCAIScheduler -----------------------------
(* Small instances of AIScheduler for TLC. *)
EXTENDS AIScheduler, TLC

Symmetry == Permutations(Objects)

=============================================================================
