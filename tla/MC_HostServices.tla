-------------------------- MODULE MC_HostServices --------------------------
(* Two requests of any kind on a bare or a furnished host.                 *)
EXTENDS HostServices

CONSTANTS h1, h2

Either == {Bare, Furnished}
Drains == {Drained}
Files  == {ForwardingKinds, ResolverKinds, TrackingKinds}
Symmetry == Permutations(Handlers)

\* What a request's commands look at or change: kinds of facts, and daemons.
Subject(f) == IF f[1] = "up" THEN f ELSE <<f[1], "">>
Subjects == [q \in HostRequests |->
  UNION {{Subject(f) : f \in c.needs \cup c.clash \cup c.drops \cup c.adds}
           \cup {<<k, "">> : k \in c.clears} \cup {<<load[1], "">> : load \in c.loads}
           : c \in {q.does[i] : i \in DOMAIN q.does}}]

\* Requests that have nothing in common cannot tell of each other: only the
\* other pairs are explored.
Related == Subjects[asks[h1]] \cap Subjects[asks[h2]] # {}
=============================================================================
