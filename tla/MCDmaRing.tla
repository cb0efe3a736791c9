------------------------------ MODULE MCDmaRing ------------------------------
(* DmaRing for TLC: the callers are interchangeable. *)
EXTENDS DmaRing, TLC

Symmetry == Permutations(Procs)
=============================================================================
