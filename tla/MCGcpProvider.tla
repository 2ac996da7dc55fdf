---------------------------- MODULE MCGcpProvider ----------------------------
(* Instances of GcpProvider for TLC. *)
EXTENDS GcpProvider, TLC

(* URLs that can be sent are interchangeable. *)
Symmetry == Permutations(URLs \ Unsendable)
==============================================================================
