---------------------------- MODULE MCMemoryStore ----------------------------
(* MemoryStore for TLC: tracks, files and callers are interchangeable.       *)
EXTENDS MemoryStore, TLC

Symmetry == Permutations(Tracks) \cup Permutations(Files) \cup Permutations(Callers)
=============================================================================
