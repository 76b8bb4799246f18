---------------------------- MODULE MCSleepCycle ----------------------------
(***************************************************************************)
(* SleepCycle with sessions and workers TLC may swap.                      *)
(***************************************************************************)
EXTENDS SleepCycle, TLC

CONSTANTS s1, s2, w1, w2, m1, m2

Swaps == Permutations({s1, s2}) \cup Permutations({w1, w2}) \cup Permutations({m1, m2})
=============================================================================
