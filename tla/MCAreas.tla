-------------------------------- MODULE MCAreas --------------------------------
(* Small instances of Areas for TLC. *)
EXTENDS Areas, TLC

CONSTANTS r1, r2

\* A module with an area of each template, and one with two of the same.
TwoAreas == <<r1, r2>>
SameAreas == <<r1, r1>>

Symmetry == Permutations(Players) \cup Permutations(Placeables)

=============================================================================
