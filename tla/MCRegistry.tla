----------------------------- MODULE MCRegistry -----------------------------
(* Small instances of Registry for TLC. *)
EXTENDS Registry, TLC

Symmetry == Permutations(Node) \cup Permutations(Token)
=============================================================================
