----------------------------- MODULE EventRegistry -----------------------------
(***************************************************************************)
(* What the variable events of varevents.cpp promise of their registration: *)
(* for every event of an object a set of scripts, each with a mark that says *)
(* whether it runs even when another script bypasses the event.              *)
(* A script is in at most once, with the mark of its last registration, and  *)
(* stays in until it is taken out.                                           *)
(***************************************************************************)
CONSTANTS Events, Scripts

VARIABLE registry

vars == <<registry>>

TypeOK == registry \in [Events -> SUBSET (Scripts \X BOOLEAN)]

Init == registry = [e \in Events |-> {}]

Without(e, s) == registry[e] \ ({s} \X BOOLEAN)

Register(e, s, no_bypass) ==
  registry' = [registry EXCEPT ![e] = Without(e, s) \union {<<s, no_bypass>>}]

Unregister(e, s) == registry' = [registry EXCEPT ![e] = Without(e, s)]

Next ==
  \E e \in Events, s \in Scripts :
    \/ Unregister(e, s)
    \/ \E no_bypass \in BOOLEAN : Register(e, s, no_bypass)

Spec == Init /\ [][Next]_vars
=============================================================================
