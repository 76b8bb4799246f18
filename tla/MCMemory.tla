----------------------------- MODULE MCMemory -----------------------------
(* MemorySystem on a small instance: see README.md for the bounds. *)
EXTENDS MemorySystem, TLC

Symmetry == Permutations(Editors) \cup Permutations(Readers)
            \cup Permutations(Workers) \cup Permutations(Asserters) \cup Permutations(Objects)

\* The index sees two seconds, hence two job ids; the others need three ticks.
IndexBound == Watching("index") => now <= 2
=============================================================================
