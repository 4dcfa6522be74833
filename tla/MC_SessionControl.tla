------------------------- MODULE MC_SessionControl -------------------------
(* SessionControl for TLC: two subscribers, each behind a station of his   *)
(* own; the pattern of the first matches both names, as ^a.b$ matches axb. *)
EXTENDS SessionControl, TLC

CONSTANTS u1, u2

AnyByte == (u1 :> {u1, u2}) @@ (u2 :> {u2})
OwnStation == [u \in Users |-> u]
Symmetry == Permutations(Ifnames) \cup Permutations(Handlers)
=============================================================================
