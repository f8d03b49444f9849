---------------------------- MODULE MCLoginProtocol ----------------------------
(* A small instance of LoginProtocol for TLC. *)
EXTENDS LoginProtocol, TLC

CONSTANTS c1, k1, k2

\* One player's two machines, with the same key.
OneKey == [c \in Clients |-> k1]

\* Two machines with different keys.
TwoKeys == [c \in Clients |-> IF c = c1 THEN k1 ELSE k2]

Symmetry == Permutations(Servers) \cup Permutations(Slots)

=============================================================================
