------------------------------ MODULE MCBatcher ------------------------------
(* Instances of Batcher for TLC. *)
EXTENDS Batcher, TLC

(* Targets are interchangeable. *)
Symmetry == Permutations(URLs)
==============================================================================
