---------------------------- MODULE MCApiBridge ----------------------------
(* Small instances of ApiBridge for TLC. *)
EXTENDS ApiBridge, TLC

Symmetry == Permutations(Robots) \union Permutations(Sessions)
=============================================================================
