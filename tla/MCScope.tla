------------------------------ MODULE MCScope ------------------------------
(* Scope for TLC: the names are interchangeable. *)
EXTENDS Scope, TLC

NameSymmetry == Permutations(Names)
=============================================================================
