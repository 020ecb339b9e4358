---------------------------- MODULE MCGrounding ----------------------------
(* TLC instance of Grounding: two sources, markers 0 to 2, three citations. *)
EXTENDS Grounding, TLC

Symmetry == Permutations(Quotes) \cup Permutations(Slots)
=============================================================================
