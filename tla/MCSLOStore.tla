----------------------------- MODULE MCSLOStore -----------------------------
(* Instances of SLOStore for TLC.                                           *)
EXTENDS SLOStore, TLC

Symmetry == Permutations(Requests)
=============================================================================
