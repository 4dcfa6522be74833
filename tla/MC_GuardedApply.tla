-------------------------- MODULE MC_GuardedApply --------------------------
(* GuardedApply for TLC: the symmetries of the interchangeable identities. *)
EXTENDS GuardedApply, TLC

Symmetry == Permutations(Contents) \cup Permutations(Requests) \cup Permutations(Tasks)
=============================================================================
