--------------------------- MODULE MC_NatEgress ---------------------------
(* NatEgress for TLC: the symmetries of the interchangeable identities. *)
EXTENDS NatEgress, TLC

Symmetry == Permutations(Handlers) \cup Permutations(Publics)
=============================================================================
