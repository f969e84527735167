----------------------------- MODULE MCReactive -----------------------------
(* Small instances of SoliteReactive. *)
EXTENDS SoliteReactive, TLC

Symmetry == Permutations(Signals) \cup Permutations(Effects)
=============================================================================
