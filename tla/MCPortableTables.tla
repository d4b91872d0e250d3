-------------------------- MODULE MCPortableTables --------------------------
(* PortableTables for TLC: calls, keys and bodies are interchangeable.      *)
EXTENDS PortableTables, TLC

Symmetry == Permutations(Call) \cup Permutations(Key) \cup Permutations(Body)
=============================================================================
