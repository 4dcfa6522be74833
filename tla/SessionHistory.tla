---------------------------- MODULE SessionHistory ----------------------------
(***************************************************************************)
(* The history of sessions in SQLite.  A snapshot takes its time, awaits   *)
(* the listing of accel-cmd, and is inserted by a thread in one            *)
(* transaction; a purge deletes the rows whose time stamp, a text, sorts   *)
(* before the text it is given; a client reads the history page by page.   *)
(* The three overlap.                                                      *)
(***************************************************************************)
EXTENDS Naturals, Sequences, FiniteSets, SequencesExt, FiniteSetsExt

CONSTANTS Snapshots,  \* calls of snapshot_sessions
          Users,      \* users that may have a session
          PageSize,   \* limit of the client
          MaxTime     \* bound of the clock

ASSUME UsersAssumption == IsFiniteSet(Users)
ASSUME PageAssumption  == PageSize \in Nat \ {0}
ASSUME TimeAssumption  == MaxTime \in Nat

VARIABLES clock,
          rows,      \* session_history: records [id, snapshot_at, username]
          lastId,    \* AUTOINCREMENT
          snapshot,  \* what each call is at
          page,      \* the client: where it is and what it has seen
          purged,    \* history: the last stamp a purge has deleted up to, of those that had passed
          overtaken  \* history: the snapshots a purge ran by while they were under way

historyVars == <<clock, rows, lastId, snapshot, page, purged, overtaken>>

\* An instant stands for its stamp, the UTC isoformat text that a row keeps:
\* these sort as the instants do.
Times == 0..MaxTime

\* A purge is given any string, which nobody parses.  All that matters of it is
\* where it falls in the order of the stamps: how many of them sort before it.
\* That has nothing to do with the instant it was meant for when it is written
\* with another offset, with a Z, or is no time at all.
Cutoffs == 0..(MaxTime + 1)

HistoryInit ==
  /\ clock = 0 /\ rows = {} /\ lastId = 0
  /\ snapshot = [s \in Snapshots |-> [state |-> "idle", at |-> 0, listed |-> {}]]
  /\ page = [state |-> "idle", offset |-> 0, seen |-> {}, steady |-> {}]
  /\ purged = 0 /\ overtaken = {}

Tick ==
  /\ clock < MaxTime /\ clock' = clock + 1
  /\ UNCHANGED <<rows, lastId, snapshot, page, purged, overtaken>>

\* The time is taken first, then the listing is awaited.
SnapshotBegins(s) ==
  /\ snapshot[s].state = "idle"
  /\ snapshot' = [snapshot EXCEPT ![s] = [state |-> "listing", at |-> clock, listed |-> {}]]
  /\ UNCHANGED <<clock, rows, lastId, page, purged, overtaken>>

SnapshotListed(s) ==
  /\ snapshot[s].state = "listing"
  /\ \E listed \in SUBSET Users :
       snapshot' = [snapshot EXCEPT ![s].state = "inserting", ![s].listed = listed]
  /\ UNCHANGED <<clock, rows, lastId, page, purged, overtaken>>

\* The rows of a snapshot, in the order of the users of the listing.
RowsOf(s, users) ==
  LET rank == CHOOSE n \in [users -> 1..Cardinality(users)] : IsInjective(n)
  IN  {[id |-> lastId + rank[u], snapshot_at |-> snapshot[s].at, username |-> u] : u \in users}

\* Mutant: every row is a transaction of its own.
SnapshotInserted_RowByRow(s) ==
  /\ snapshot[s].state = "inserting"
  /\ \E users \in SUBSET snapshot[s].listed :
       /\ rows' = rows \cup RowsOf(s, users)
       /\ lastId' = lastId + Cardinality(users)
  /\ snapshot' = [snapshot EXCEPT ![s].state = "done"]
  /\ UNCHANGED <<clock, page, purged, overtaken>>

SnapshotInserted(s) ==
  /\ snapshot[s].state = "inserting"
  /\ rows' = rows \cup RowsOf(s, snapshot[s].listed)
  /\ lastId' = lastId + Cardinality(snapshot[s].listed)
  /\ snapshot' = [snapshot EXCEPT ![s].state = "done"]
  /\ UNCHANGED <<clock, page, purged, overtaken>>

\* accel-cmd fails, the database stays locked, or the agent is killed.
SnapshotFails(s) ==
  /\ snapshot[s].state \in {"listing", "inserting"}
  /\ snapshot' = [snapshot EXCEPT ![s].state = "failed"]
  /\ UNCHANGED <<clock, rows, lastId, page, purged, overtaken>>

\* Mutant: the comparison turned round.
Older_Newer(before) == {r \in rows : r.snapshot_at > before}

\* What a purge deletes: snapshot_at < before, as texts.
Older(before) == {r \in rows : r.snapshot_at < before}

\* The cutoff may sort behind the stamps that are still to come.
PurgeHistory(before) ==
  /\ rows' = rows \ Older(before)
  /\ purged' = Max({purged, Min({before, clock})})
  /\ overtaken' = overtaken
       \cup {s \in Snapshots : /\ snapshot[s].state \in {"listing", "inserting"}
                               /\ snapshot[s].at < before}
  /\ page' = [page EXCEPT !.steady = @ \ Older(before)]
  /\ UNCHANGED <<clock, lastId, snapshot>>

-----------------------------------------------------------------------------
(* Pages.                                                                  *)

\* Mutant: the oldest first.
Before_OldestFirst(r, q) ==
  r.snapshot_at < q.snapshot_at \/ (r.snapshot_at = q.snapshot_at /\ r.id < q.id)

\* ORDER BY snapshot_at DESC, id DESC.
Before(r, q) ==
  r.snapshot_at > q.snapshot_at \/ (r.snapshot_at = q.snapshot_at /\ r.id > q.id)

\* LIMIT and OFFSET.
PageAt(offset) ==
  {r \in rows : LET rank == Cardinality({q \in rows : Before(q, r)})
                IN  offset <= rank /\ rank < offset + PageSize}

PagingBegins ==
  /\ page.state = "idle"
  /\ page' = [state |-> "paging", offset |-> 0, seen |-> {}, steady |-> rows]
  /\ UNCHANGED <<clock, rows, lastId, snapshot, purged, overtaken>>

\* The client asks for the next page until one is not full.
NextPage ==
  /\ page.state = "paging"
  /\ page' = [page EXCEPT
       !.offset = @ + PageSize,
       !.seen = @ \cup PageAt(page.offset),
       !.state = IF Cardinality(PageAt(page.offset)) < PageSize THEN "done" ELSE @]
  /\ UNCHANGED <<clock, rows, lastId, snapshot, purged, overtaken>>

HistoryNext ==
  \/ Tick \/ PagingBegins \/ NextPage
  \/ \E s \in Snapshots :
       SnapshotBegins(s) \/ SnapshotListed(s) \/ SnapshotInserted(s) \/ SnapshotFails(s)
  \/ \E before \in Cutoffs : PurgeHistory(before)

HistorySpec == HistoryInit /\ [][HistoryNext]_historyVars

-----------------------------------------------------------------------------
Rows == [id : Nat \ {0}, snapshot_at : Times, username : Users]

HistoryTypeOK ==
  /\ clock \in Times /\ purged \in Times
  /\ rows \subseteq Rows /\ IsFiniteSet(rows)
  /\ lastId \in Nat /\ \A r \in rows : r.id <= lastId
  /\ snapshot \in [Snapshots -> [state : {"idle", "listing", "inserting", "done", "failed"},
                                 at : Times, listed : SUBSET Users]]
  /\ page \in [state : {"idle", "paging", "done"}, offset : Nat,
               seen : SUBSET Rows, steady : SUBSET Rows]
  /\ overtaken \subseteq Snapshots

\* What the history tells of a time is what the snapshots of that time have
\* listed, of each of them all or nothing: no failure, purge or other
\* snapshot leaves a part of one.
WholeSnapshots ==
  \A t \in Times :
    LET at == {s \in Snapshots : snapshot[s].state = "done" /\ snapshot[s].at = t}
        of(done) == [u \in Users |-> Cardinality({s \in done : u \in snapshot[s].listed})]
    IN  \E kept \in SUBSET at :
          \A u \in Users :
            Cardinality({r \in rows : r.snapshot_at = t /\ r.username = u}) = of(kept)[u]

\* In the order of the stamps a purge is final up to the time it ran, but for
\* the snapshots it overtook: their rows sort before the cutoff, come after the
\* purge and stay.  Of the instant the cutoff was meant for nothing is said.
PurgeIsFinal ==
  \A r \in rows :
    r.snapshot_at < purged => \E s \in overtaken : snapshot[s].at = r.snapshot_at

\* A client that reads page after page sees every row that was there all the
\* while, though snapshots and purges shift the pages under it.
PagingMissesNothing == page.state = "done" => page.steady \subseteq page.seen
=============================================================================
