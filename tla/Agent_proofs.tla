--------------------------- MODULE Agent_proofs -----------------------------
(***************************************************************************)
(* Proofs about four parts of the agent that share no state: the way of a  *)
(* request, the hooks of events, the session history and the editors of    *)
(* the sections of the configuration file.  They hold for any number of    *)
(* requests, endpoints, keys and roles, hooks and events, snapshots, users *)
(* and rows, any bound of a buffer, any size of a page, and any file.      *)
(***************************************************************************)
EXTENDS RequestPipeline, EventHooks, SessionHistory, SectionEditors, FoldLemmas,
        FunctionTheorems, FiniteSetTheorems, SequenceTheorems, TLAPS

-----------------------------------------------------------------------------
(* The way of a request.                                                   *)

RoleNames == {"-", "viewer", "operator", "admin"}

\* How far a request has come, and what each layer then knows of it.
Waiting(r) == r \notin Audited /\ r \notin counted /\ r \notin escaped

AsAdmitted(r) ==
  /\ Granted(endpoint[r], key[r])
  /\ role[r] = IF endpoint[r].role = "none" THEN "-" ELSE Resolve(key[r])

Complete(r) == (endpoint[r].exempt \/ r \in counted) /\ (~Mutating(r) \/ r \in Audited)

Progress(r) ==
  /\ phase[r] = "idle" => Waiting(r) /\ r \notin changed
  /\ phase[r] = "handling" => Waiting(r) /\ AsAdmitted(r)
  /\ phase[r] = "responding" => r \notin escaped /\ status[r] # 429
  /\ phase[r] = "answered" =>
       \/ status[r] = 429 /\ Waiting(r) /\ r \notin changed
       \/ /\ r \in escaped /\ r \notin Audited /\ r \notin counted /\ status[r] # 429
          /\ \E x \in Exceptions : StatusesOn(endpoint[r], x) = {}
       \/ r \notin escaped /\ status[r] # 429 /\ Complete(r)
  /\ r \in changed => AsAdmitted(r) /\ endpoint[r].changes
  /\ r \in counted => ~endpoint[r].exempt
  /\ r \in Audited => Mutating(r)

IInv == PipelineTypeOK /\ \A r \in Callers : Progress(r)

-----------------------------------------------------------------------------
\* A key resolves to a role of the file, to admin, or to none.
LEMMA ResolveRole == ASSUME NEW k \in Keys PROVE Resolve(k) \in {"none", "viewer", "operator", "admin"}
  BY KeysAssumption DEF Resolve

\* What is granted to an endpoint with a role has a role.
LEMMA GrantedRole ==
  ASSUME NEW e \in Kinds, NEW k \in Keys, Granted(e, k)
  PROVE  /\ e.role # "none" => Resolve(k) \in {"viewer", "operator", "admin"}
         /\ e.role \in {"operator", "admin"} => Resolve(k) \in {"operator", "admin"}
  BY ResolveRole, KindsAssumption DEF WellFormed, Granted, Weight, Roles

\* What one appends to the trail joins the audited requests.
LEMMA AuditedAppend ==
  ASSUME NEW s \in Seq(Callers), NEW r \in Callers
  PROVE  {Append(s, r)[i] : i \in DOMAIN Append(s, r)} = {s[i] : i \in DOMAIN s} \cup {r}
  <1> DEFINE t == Append(s, r)
  <1>1. DOMAIN t = 1..(Len(s) + 1) /\ DOMAIN s = 1..Len(s) /\ Len(s) \in Nat
    OBVIOUS
  <1>2. t[Len(s) + 1] = r /\ \A i \in 1..Len(s) : t[i] = s[i]
    OBVIOUS
  <1> QED BY <1>1, <1>2

\* An exception that no clause of the handler names and no catch-all takes.
LEMMA EscapeUncaught ==
  ASSUME NEW e, NEW x, StatusesOn(e, x) = {}
  PROVE  <<"Exception", 500>> \notin e.clauses
  BY DEF StatusesOn

-----------------------------------------------------------------------------
LEMMA InitIInv == PipelineInit => IInv
  <1> SUFFICES ASSUME PipelineInit PROVE IInv OBVIOUS
  <1>1. trail = << >> /\ audit_buffer = << >> /\ Audited = {}
    BY DEF PipelineInit, Audited
  <1>2. PipelineTypeOK
    BY DEF PipelineInit, PipelineTypeOK
  <1>3. ASSUME NEW r \in Callers PROVE Progress(r)
    BY <1>1, <1>3 DEF PipelineInit, Progress, Waiting
  <1> QED BY <1>2, <1>3 DEF IInv

\* The types, action by action.
LEMMA TypeStep == IInv /\ [PipelineNext]_pipelineVars => PipelineTypeOK'
  <1> SUFFICES ASSUME IInv, [PipelineNext]_pipelineVars PROVE PipelineTypeOK' OBVIOUS
  <1> USE DEF IInv, PipelineTypeOK, requestVars, traceVars
  <1>1. CASE UNCHANGED pipelineVars
    BY <1>1 DEF pipelineVars
  <1>2. ASSUME NEW r \in Callers, RateLimited(r) PROVE PipelineTypeOK'
    BY <1>2 DEF RateLimited, Respond
  <1>3. ASSUME NEW r \in Callers, Malformed(r) PROVE PipelineTypeOK'
    BY <1>3 DEF Malformed, Respond
  <1>4. ASSUME NEW r \in Callers, Denied(r) PROVE PipelineTypeOK'
    BY <1>4 DEF Denied, Respond
  <1>5. ASSUME NEW r \in Callers, Admitted(r) PROVE PipelineTypeOK'
    <2>1. endpoint[r] \in Kinds /\ key[r] \in Keys
      OBVIOUS
    <2>2. (IF endpoint[r].role = "none" THEN "-" ELSE Resolve(key[r])) \in RoleNames
      BY <1>5, <2>1, GrantedRole DEF Admitted, RoleNames
    <2> QED BY <1>5, <2>2 DEF Admitted, RoleNames
  <1>6. ASSUME NEW r \in Callers, Invalid(r) PROVE PipelineTypeOK'
    BY <1>6 DEF Invalid, Respond
  <1>7. ASSUME NEW r \in Callers, Changes(r) PROVE PipelineTypeOK'
    BY <1>7 DEF Changes
  <1>8. ASSUME NEW r \in Callers, Returns(r) PROVE PipelineTypeOK'
    <2>1. PICK s \in {200} \cup endpoint[r].refuses
                  \cup UNION {StatusesOn(endpoint[r], x) : x \in Exceptions} :
            Respond(r, s, "responding")
      BY <1>8 DEF Returns
    <2>2. endpoint[r] \in Kinds
      OBVIOUS
    <2>3. s \in Nat
      BY <2>2, KindsAssumption DEF WellFormed
    <2> QED BY <1>8, <2>1, <2>3 DEF Returns, Respond
  <1>9. ASSUME NEW r \in Callers, Escapes(r) PROVE PipelineTypeOK'
    BY <1>9 DEF Escapes, Respond
  <1>10. ASSUME NEW r \in Callers, Counts(r) PROVE PipelineTypeOK'
    BY <1>10 DEF Counts
  <1>11. ASSUME NEW r \in Callers, Audits(r) PROVE PipelineTypeOK'
    <2> DEFINE Entries0 == [request : Callers, role : {"-", "viewer", "operator", "admin"},
                            status : Nat]
               kept == IF Len(audit_buffer) < BufferSize THEN audit_buffer ELSE Tail(audit_buffer)
    <2>1. Entry(r) \in Entries0
      BY DEF Entry
    <2>2. kept \in Seq(Entries0)
      <3>1. CASE Len(audit_buffer) < BufferSize
        BY <3>1
      <3>2. CASE ~(Len(audit_buffer) < BufferSize)
        <4>1. audit_buffer # << >>
          BY <3>2, BufferAssumption
        <4> QED BY <3>2, <4>1
      <3> QED BY <3>1, <3>2
    <2>3. Append(kept, Entry(r)) \in Seq(Entries0) /\ Append(trail, r) \in Seq(Callers)
      BY <2>1, <2>2
    <2> QED BY <1>11, <2>3 DEF Audits
  <1>12. ASSUME NEW r \in Callers, Answered(r) PROVE PipelineTypeOK'
    BY <1>12 DEF Answered
  <1> QED BY <1>1, <1>2, <1>3, <1>4, <1>5, <1>6, <1>7, <1>8, <1>9, <1>10, <1>11, <1>12
          DEF PipelineNext

\* What is not touched by a step keeps its progress.
LEMMA Bystander ==
  ASSUME NEW q \in Callers, Progress(q),
         phase'[q] = phase[q], status'[q] = status[q], role'[q] = role[q],
         endpoint' = endpoint, key' = key,
         q \in changed' <=> q \in changed, q \in escaped' <=> q \in escaped,
         q \in counted' <=> q \in counted, q \in Audited' <=> q \in Audited
  PROVE  Progress(q)'
  BY DEF Progress, Waiting, AsAdmitted, Complete, Mutating, Granted, Resolve

LEMMA ProgressStep ==
  ASSUME IInv, PipelineNext, NEW q \in Callers
  PROVE  Progress(q)'
  <1> USE DEF IInv, requestVars, traceVars
  <1> PICK r \in Callers :
        \/ RateLimited(r) \/ Malformed(r) \/ Denied(r) \/ Admitted(r)
        \/ Invalid(r) \/ Changes(r) \/ Returns(r) \/ Escapes(r)
        \/ Counts(r) \/ Audits(r) \/ Answered(r)
    BY DEF PipelineNext
  <1>t. /\ phase \in [Callers -> {"idle", "handling", "responding", "answered"}]
        /\ role \in [Callers -> RoleNames] /\ status \in [Callers -> Nat]
        /\ endpoint[r] \in Kinds /\ key[r] \in Keys /\ trail \in Seq(Callers)
        /\ Progress(q) /\ Progress(r)
    BY DEF PipelineTypeOK, RoleNames
  <1>e. endpoint' = endpoint /\ key' = key
    BY DEF RateLimited, Malformed, Denied, Admitted, Invalid, Changes, Returns,
           Escapes, Counts, Audits, Answered
  <1>a. Audited' = IF Audits(r) THEN Audited \cup {r} ELSE Audited
    <2>1. CASE Audits(r)
      <3>1. trail' = Append(trail, r)
        BY <2>1 DEF Audits
      <3>2. Audited' = {trail'[i] : i \in DOMAIN trail'}
        BY DEF Audited
      <3>3. {Append(trail, r)[i] : i \in DOMAIN Append(trail, r)}
              = {trail[i] : i \in DOMAIN trail} \cup {r}
        <4>1. trail \in Seq(Callers)
          BY <1>t
        <4> QED BY <4>1, AuditedAppend, Zenon
      <3>4. Audited' = {Append(trail, r)[i] : i \in DOMAIN Append(trail, r)}
        BY <3>1, <3>2, Zenon
      <3>5. Audited = {trail[i] : i \in DOMAIN trail}
        BY DEF Audited
      <3> QED BY <2>1, <3>3, <3>4, <3>5, Zenon
    <2>2. CASE ~Audits(r)
      <3>1. trail' = trail
        BY <2>2 DEF RateLimited, Malformed, Denied, Admitted, Invalid, Changes, Returns,
                    Escapes, Counts, Answered
      <3> QED BY <2>2, <3>1 DEF Audited
    <2> QED BY <2>1, <2>2
  <1>1. CASE q # r
    <2>1. phase'[q] = phase[q] /\ status'[q] = status[q] /\ role'[q] = role[q]
      BY <1>1, <1>t DEF RateLimited, Malformed, Denied, Admitted, Invalid, Changes, Returns,
                        Escapes, Counts, Audits, Answered, Respond
    <2>2. /\ q \in changed' <=> q \in changed
          /\ q \in escaped' <=> q \in escaped
          /\ q \in counted' <=> q \in counted
      BY <1>1 DEF RateLimited, Malformed, Denied, Admitted, Invalid, Changes, Returns,
                  Escapes, Counts, Audits, Answered
    <2> QED BY <1>1, <1>t, <1>a, <1>e, <2>1, <2>2, Bystander
  <1>2. CASE q = r /\ RateLimited(r)
    <2>1. ~Audits(r)
      BY <1>2 DEF RateLimited, Audits
    <2> QED BY <1>2, <1>t, <1>a, <1>e, <2>1
            DEF RateLimited, Respond, Progress, Waiting, Mutating
  <1>3. CASE q = r /\ (Malformed(r) \/ Denied(r))
    <2>1. ~Audits(r)
      BY <1>3 DEF Malformed, Denied, Audits
    <2> QED BY <1>3, <1>t, <1>a, <1>e, <2>1
            DEF Malformed, Denied, Respond, Progress, Waiting, Mutating
  <1>4. CASE q = r /\ Admitted(r)
    <2>1. ~Audits(r)
      BY <1>4 DEF Admitted, Audits
    <2> QED BY <1>4, <1>t, <1>a, <1>e, <2>1
            DEF Admitted, Progress, Waiting, Mutating, AsAdmitted, Granted, Resolve
  <1>5. CASE q = r /\ Invalid(r)
    <2>1. ~Audits(r)
      BY <1>5 DEF Invalid, Audits
    <2> QED BY <1>5, <1>t, <1>a, <1>e, <2>1
            DEF Invalid, Respond, Progress, Waiting, Mutating
  <1>6. CASE q = r /\ Changes(r)
    <2>1. ~Audits(r)
      BY <1>6 DEF Changes, Audits
    <2> QED BY <1>6, <1>t, <1>a, <1>e, <2>1
            DEF Changes, Progress, Waiting, Mutating, AsAdmitted, Granted, Resolve
  <1>7. CASE q = r /\ Returns(r)
    <2>1. ~Audits(r)
      BY <1>7 DEF Returns, Audits
    <2>2. PICK s \in {200} \cup endpoint[r].refuses
                  \cup UNION {StatusesOn(endpoint[r], x) : x \in Exceptions} :
            Respond(r, s, "responding")
      BY <1>7 DEF Returns
    <2>3. s # 429
      BY <1>t, KindsAssumption DEF WellFormed
    <2> QED BY <1>7, <1>t, <1>a, <1>e, <2>1, <2>2, <2>3
            DEF Returns, Respond, Progress, Waiting, Mutating, AsAdmitted, Granted, Resolve
  <1>8. CASE q = r /\ Escapes(r)
    <2>1. ~Audits(r)
      BY <1>8 DEF Escapes, Audits
    <2> QED BY <1>8, <1>t, <1>a, <1>e, <2>1
            DEF Escapes, Respond, Progress, Waiting, Mutating, AsAdmitted, Granted, Resolve
  <1>9. CASE q = r /\ Counts(r)
    <2>1. ~Audits(r) \/ counted' = counted
      BY <1>9 DEF Counts, Audits
    <2> QED BY <1>9, <1>t, <1>a, <1>e, <2>1
            DEF Counts, Audits, Progress, Mutating, AsAdmitted, Granted, Resolve
  <1>10. CASE q = r /\ Audits(r)
    BY <1>10, <1>t, <1>a, <1>e
       DEF Audits, Progress, Mutating, AsAdmitted, Granted, Resolve
  <1>11. CASE q = r /\ Answered(r)
    <2>1. ~Audits(r)
      BY <1>11, <1>t DEF Answered, Audits
    <2> QED BY <1>11, <1>t, <1>a, <1>e, <2>1
            DEF Answered, Progress, Mutating, Complete, AsAdmitted, Granted, Resolve
  <1> QED BY <1>1, <1>2, <1>3, <1>4, <1>5, <1>6, <1>7, <1>8, <1>9, <1>10, <1>11

LEMMA Inductive == IInv /\ [PipelineNext]_pipelineVars => IInv'
  <1> SUFFICES ASSUME IInv, [PipelineNext]_pipelineVars PROVE IInv' OBVIOUS
  <1>1. PipelineTypeOK'
    BY TypeStep
  <1>2. CASE PipelineNext
    BY <1>1, <1>2, ProgressStep DEF IInv
  <1>3. CASE UNCHANGED pipelineVars
    <2>1. Audited' = Audited
      BY <1>3 DEF pipelineVars, traceVars, Audited
    <2>2. ASSUME NEW q \in Callers PROVE Progress(q)'
      BY <1>3, <2>1, Bystander DEF IInv, pipelineVars, requestVars, traceVars
    <2> QED BY <1>1, <2>2 DEF IInv
  <1> QED BY <1>2, <1>3

LEMMA Invariance == PipelineSpec => []IInv
  BY InitIInv, Inductive, PTL DEF PipelineSpec

-----------------------------------------------------------------------------
\* The types of the pipeline: roles, statuses and audit entries are what the
\* layers hand on.
THEOREM PipelineTypeCorrect == PipelineSpec => []PipelineTypeOK
  <1>1. IInv => PipelineTypeOK
    BY DEF IInv
  <1> QED BY <1>1, Invariance, PTL

\* Whatever the endpoints and the keys: what has changed something came with
\* the key of an operator or an admin, and not by a GET.
THEOREM ChangesAreGranted == PipelineSpec => []ChangesByOperators
  <1>1. IInv => ChangesByOperators
    <2> SUFFICES ASSUME IInv, NEW r \in changed
                 PROVE  Resolve(key[r]) \in {"operator", "admin"} /\ Mutating(r)
      BY DEF ChangesByOperators
    <2>1. r \in Callers /\ endpoint[r] \in Kinds /\ key[r] \in Keys
      BY DEF IInv, PipelineTypeOK
    <2>2. Granted(endpoint[r], key[r]) /\ endpoint[r].changes
      BY <2>1 DEF IInv, Progress, AsAdmitted
    <2> QED BY <2>1, <2>2, GrantedRole, KindsAssumption DEF Mutating, WellFormed
  <1> QED BY <1>1, Invariance, PTL

\* A change that has been answered is in the audit trail under the role that
\* made it, unless its handler let an exception through.
THEOREM ChangesLeaveTraces == PipelineSpec => []ChangesAudited
  <1>1. IInv => ChangesAudited
    <2> SUFFICES ASSUME IInv, NEW r \in changed, phase[r] = "answered"
                 PROVE  \/ r \in Audited /\ role[r] = Resolve(key[r])
                        \/ r \in escaped /\ <<"Exception", 500>> \notin endpoint[r].clauses
      BY DEF ChangesAudited
    <2>1. r \in Callers /\ endpoint[r] \in Kinds /\ key[r] \in Keys /\ Progress(r)
      BY DEF IInv, PipelineTypeOK
    <2>2. endpoint[r].changes /\ role[r] = Resolve(key[r]) /\ Mutating(r)
      BY <2>1, KindsAssumption DEF WellFormed, Progress, AsAdmitted, Mutating
    <2>3. CASE r \in escaped
      <3>1. \E x \in Exceptions : StatusesOn(endpoint[r], x) = {}
        BY <2>1, <2>3 DEF Progress, Waiting
      <3> QED BY <2>3, <3>1, EscapeUncaught
    <2>4. CASE r \notin escaped
      BY <2>1, <2>2, <2>4 DEF Progress, Complete
    <2> QED BY <2>3, <2>4
  <1> QED BY <1>1, Invariance, PTL

\* What was answered by the handler or by a layer within the rate limiter is
\* counted and, if it may modify something, audited.
THEOREM ServedLeaveRecords == PipelineSpec => []ServedAreRecorded
  <1>1. IInv => ServedAreRecorded
    <2> SUFFICES ASSUME IInv, NEW r \in Callers,
                        phase[r] = "answered", status[r] # 429, r \notin escaped
                 PROVE  /\ r \in counted <=> ~endpoint[r].exempt
                        /\ r \in Audited <=> Mutating(r)
      BY DEF ServedAreRecorded
    <2>1. Progress(r)
      BY DEF IInv
    <2> QED BY <2>1 DEF Progress, Waiting, Complete
  <1> QED BY <1>1, Invariance, PTL

-----------------------------------------------------------------------------
(* The ring buffer.                                                        *)

\* Of a ring b that holds the last m of the l entries of t, and of b2 that
\* holds m2 of the l2 of t2: what b2 holds is e, which stands for r, or else
\* something b held, at the same distance from the end.
Moved(b, t, m, l, b2, t2, m2, l2, e, r) ==
  \A i \in 1..m2 :
    \/ b2[i] = e /\ t2[l2 - m2 + i] = r
    \/ \E j \in 1..m : b2[i] = b[j] /\ t2[l2 - m2 + i] = t[l - m + j]

\* Where the entries of a ring are once one more is put in, while there is
\* room and once it is full.
LEMMA RoomIndices ==
  ASSUME NEW m \in Nat, NEW l \in Nat, NEW m2 \in Nat, NEW l2 \in Nat,
         m = l, m2 = l + 1, l2 = l + 1,
         NEW b, NEW t, NEW b2, NEW t2, NEW e, NEW r,
         \A j \in 1..m : b2[j] = b[j], b2[m2] = e,
         \A j \in 1..l : t2[j] = t[j], t2[l2] = r
  PROVE  Moved(b, t, m, l, b2, t2, m2, l2, e, r)
  <1> SUFFICES ASSUME NEW i \in 1..m2
               PROVE  \/ b2[i] = e /\ t2[l2 - m2 + i] = r
                      \/ \E j \in 1..m : b2[i] = b[j] /\ t2[l2 - m2 + i] = t[l - m + j]
    BY DEF Moved
  <1>1. l2 - m2 + i = i /\ \A j \in 1..m : l - m + j = j
    OBVIOUS
  <1>2. i = m2 \/ i \in 1..m
    OBVIOUS
  <1> QED BY <1>1, <1>2

LEMMA FullIndices ==
  ASSUME NEW m \in Nat \ {0}, NEW l \in Nat, NEW m2 \in Nat, NEW l2 \in Nat,
         m <= l, m2 = m, l2 = l + 1,
         NEW b, NEW t, NEW b2, NEW t2, NEW e, NEW r,
         \A j \in 1..(m - 1) : b2[j] = b[j + 1], b2[m2] = e,
         \A j \in 1..l : t2[j] = t[j], t2[l2] = r
  PROVE  Moved(b, t, m, l, b2, t2, m2, l2, e, r)
  <1> SUFFICES ASSUME NEW i \in 1..m2
               PROVE  \/ b2[i] = e /\ t2[l2 - m2 + i] = r
                      \/ \E j \in 1..m : b2[i] = b[j] /\ t2[l2 - m2 + i] = t[l - m + j]
    BY DEF Moved
  <1>1. CASE i = m2
    <2>1. l2 - m2 + i = l2
      BY <1>1
    <2> QED BY <1>1, <2>1
  <1>2. CASE i \in 1..(m - 1)
    <2>1. /\ l2 - m2 + i = l - m + (i + 1) /\ l - m + (i + 1) \in 1..l
          /\ i + 1 \in 1..m
      BY <1>2
    <2>2. b2[i] = b[i + 1]
      BY <1>2
    <2>3. t2[l2 - m2 + i] = t[l - m + (i + 1)]
      BY <2>1
    <2> QED BY <2>1, <2>2, <2>3
  <1>3. i = m2 \/ i \in 1..(m - 1)
    OBVIOUS
  <1> QED BY <1>1, <1>2, <1>3

\* deque(maxlen): what is put in drives out the oldest.
Put(b, e, n) == Append(IF Len(b) < n THEN b ELSE Tail(b), e)

\* The ring b of the trail t has become the ring b2 of t2.
RingAfter(b, t, b2, t2, e, r, n) ==
  /\ Len(b2) = IF Len(t2) < n THEN Len(t2) ELSE n
  /\ DOMAIN b2 = 1..Len(b2)
  /\ Moved(b, t, Len(b), Len(t), b2, t2, Len(b2), Len(t2), e, r)

\* What one puts into a ring is its last entry, and each of the others is one
\* of those it held, at the same distance from the end of the whole trail.
LEMMA RingAppend ==
  ASSUME NEW S, NEW T, NEW b \in Seq(T), NEW t \in Seq(S), NEW e \in T, NEW r \in S,
         NEW n \in Nat \ {0},
         Len(b) = (IF Len(t) < n THEN Len(t) ELSE n),
         NEW b2, NEW t2, b2 = Put(b, e, n), t2 = Append(t, r)
  PROVE  RingAfter(b, t, b2, t2, e, r, n)
  <1>0. b2 = Append(IF Len(b) < n THEN b ELSE Tail(b), e)
    BY DEF Put
  <1>1. /\ Len(b) \in Nat /\ Len(t) \in Nat /\ Len(t2) \in Nat
        /\ Len(t2) = Len(t) + 1 /\ t2[Len(t2)] = r
        /\ \A i \in 1..Len(t) : t2[i] = t[i]
    OBVIOUS
  <1>2. CASE Len(t) < n
    <2>1. Len(b) = Len(t) /\ Len(b) < n
      BY <1>1, <1>2
    <2>2. b2 = Append(b, e)
      BY <1>0, <2>1
    <2>3. /\ Len(b2) \in Nat /\ DOMAIN b2 = 1..Len(b2)
           /\ Len(b2) = Len(t) + 1 /\ b2[Len(b2)] = e
          /\ \A i \in 1..Len(b) : b2[i] = b[i]
      BY <2>1, <2>2
    <2>4. Len(b2) = IF Len(t2) < n THEN Len(t2) ELSE n
      BY <1>1, <1>2, <2>3
    <2> QED BY <1>1, <2>1, <2>3, <2>4, RoomIndices DEF RingAfter
  <1>3. CASE ~(Len(t) < n)
    <2>1. Len(b) = n /\ n <= Len(t) /\ b # << >> /\ ~(Len(b) < n)
      BY <1>1, <1>3
    <2>2. /\ Tail(b) \in Seq(T) /\ Len(Tail(b)) = n - 1
          /\ \A i \in 1..(n - 1) : Tail(b)[i] = b[i + 1]
      BY <2>1
    <2>3. b2 = Append(Tail(b), e)
      BY <1>0, <2>1
    <2>4. /\ Len(b2) \in Nat /\ DOMAIN b2 = 1..Len(b2)
           /\ Len(b2) = n /\ b2[n] = e
          /\ \A i \in 1..(n - 1) : b2[i] = b[i + 1]
      BY <2>2, <2>3
    <2>5. /\ Len(b2) = Len(b) /\ b2[Len(b2)] = e /\ Len(b) \in Nat \ {0} /\ Len(b) <= Len(t)
          /\ \A i \in 1..(Len(b) - 1) : b2[i] = b[i + 1]
      BY <2>1, <2>4
    <2>6. Len(b2) = IF Len(t2) < n THEN Len(t2) ELSE n
      BY <1>1, <2>1, <2>4
    <2> QED BY <1>1, <2>4, <2>5, <2>6, FullIndices DEF RingAfter
  <1> QED BY <1>2, <1>3

\* Who is in the trail has been answered as far as the audit log can tell:
\* its entry does not change any more.
LEMMA EntryIsFinal ==
  ASSUME IInv, [PipelineNext]_pipelineVars, NEW q \in Audited
  PROVE  Entry(q)' = Entry(q)
  <1>1. q \in Callers
    BY DEF IInv, PipelineTypeOK, Audited
  <1>2. phase[q] \in {"responding", "answered"}
    BY <1>1 DEF IInv, PipelineTypeOK, Progress, Waiting
  <1>3. role \in [Callers -> RoleNames] /\ status \in [Callers -> Nat]
    BY DEF IInv, PipelineTypeOK, RoleNames
  <1>4. CASE UNCHANGED pipelineVars
    BY <1>4 DEF pipelineVars, requestVars, Entry
  <1>5. ASSUME NEW r \in Callers,
               \/ RateLimited(r) \/ Malformed(r) \/ Denied(r) \/ Admitted(r)
               \/ Invalid(r) \/ Changes(r) \/ Returns(r) \/ Escapes(r)
               \/ Counts(r) \/ Audits(r) \/ Answered(r)
        PROVE  role'[q] = role[q] /\ status'[q] = status[q]
    BY <1>1, <1>2, <1>3, <1>5
       DEF RateLimited, Malformed, Denied, Admitted, Invalid, Changes, Returns,
           Escapes, Counts, Audits, Answered, Respond, requestVars
  <1> QED BY <1>4, <1>5 DEF PipelineNext, Entry

LEMMA BufferStep ==
  ASSUME IInv, BufferIsLatest, [PipelineNext]_pipelineVars
  PROVE  BufferIsLatest'
  <1> DEFINE Later(q) == [request |-> q, role |-> role'[q], status |-> status'[q]]
  <1>t. /\ trail \in Seq(Callers)
        /\ audit_buffer \in Seq([request : Callers, role : RoleNames, status : Nat])
        /\ role \in [Callers -> RoleNames] /\ status \in [Callers -> Nat]
    BY DEF IInv, PipelineTypeOK, RoleNames
  <1>l. Len(audit_buffer) = IF Len(trail) < BufferSize THEN Len(trail) ELSE BufferSize
    BY DEF BufferIsLatest
  <1>b. ASSUME NEW i \in DOMAIN audit_buffer
        PROVE  /\ trail[Len(trail) - Len(audit_buffer) + i] \in Audited
               /\ audit_buffer[i] = Entry(trail[Len(trail) - Len(audit_buffer) + i])
    <2>1. Len(trail) - Len(audit_buffer) + i \in DOMAIN trail
      BY <1>b, <1>t, <1>l, BufferAssumption
    <2> QED BY <1>b, <2>1 DEF BufferIsLatest, Audited
  <1>e. \A q \in Audited : Later(q) = Entry(q)
    BY EntryIsFinal DEF Entry
  <1>1. ASSUME NEW r \in Callers, Audits(r)
        PROVE  BufferIsLatest'
    <2>1. Entry(r) \in [request : Callers, role : RoleNames, status : Nat]
      BY <1>t DEF Entry
    <2>2. /\ Later(r) = Entry(r)
          /\ trail' = Append(trail, r)
          /\ audit_buffer' = Append(IF Len(audit_buffer) < BufferSize
                                    THEN audit_buffer ELSE Tail(audit_buffer), Entry(r))
      BY <1>1 DEF Audits, Entry, requestVars
    <2>3. /\ Len(audit_buffer') = IF Len(trail') < BufferSize THEN Len(trail') ELSE BufferSize
          /\ \A i \in DOMAIN audit_buffer' :
               LET k == trail'[Len(trail') - Len(audit_buffer') + i]
               IN  \/ audit_buffer'[i] = Entry(r) /\ k = r
                   \/ \E j \in DOMAIN audit_buffer :
                        /\ audit_buffer'[i] = audit_buffer[j]
                        /\ k = trail[Len(trail) - Len(audit_buffer) + j]
      <3> HIDE DEF Later
      <3>1. /\ Len(audit_buffer') = IF Len(trail') < BufferSize THEN Len(trail') ELSE BufferSize
            /\ \A i \in DOMAIN audit_buffer' :
                 \/ /\ audit_buffer'[i] = Entry(r)
                    /\ trail'[Len(trail') - Len(audit_buffer') + i] = r
                 \/ \E j \in DOMAIN audit_buffer :
                      /\ audit_buffer'[i] = audit_buffer[j]
                      /\ trail'[Len(trail') - Len(audit_buffer') + i]
                           = trail[Len(trail) - Len(audit_buffer) + j]
        <4> DEFINE T == [request : Callers, role : RoleNames, status : Nat]
                   b2 == audit_buffer'
                   t2 == trail'
        <4>1. audit_buffer \in Seq(T) /\ Entry(r) \in T /\ trail \in Seq(Callers)
          BY <1>t, <2>1
        <4>2. b2 = Put(audit_buffer, Entry(r), BufferSize) /\ t2 = Append(trail, r)
          BY <2>2 DEF Put
        <4> HIDE DEF T, b2, t2
        <4>3. RingAfter(audit_buffer, trail, b2, t2, Entry(r), r, BufferSize)
          BY <1>1, <1>l, <4>1, <4>2, BufferAssumption, RingAppend
        <4>4. DOMAIN audit_buffer = 1..Len(audit_buffer)
          BY <1>t
        <4> QED BY <4>3, <4>4, Zenon DEF b2, t2, Moved, RingAfter
      <3> QED BY <3>1, Zenon
    <2>4. ASSUME NEW i \in DOMAIN audit_buffer'
          PROVE  audit_buffer'[i] = Later(trail'[Len(trail') - Len(audit_buffer') + i])
      <3> DEFINE k == trail'[Len(trail') - Len(audit_buffer') + i]
      <3>1. CASE audit_buffer'[i] = Entry(r) /\ k = r
        BY <2>2, <3>1
      <3>2. ASSUME NEW j \in DOMAIN audit_buffer,
                   audit_buffer'[i] = audit_buffer[j],
                   k = trail[Len(trail) - Len(audit_buffer) + j]
            PROVE  audit_buffer'[i] = Later(k)
        <4>1. trail[Len(trail) - Len(audit_buffer) + j] \in Audited
          BY <1>b
        <4>2. k \in Audited /\ audit_buffer'[i] = Entry(k)
          BY <1>b, <3>2
        <4> HIDE DEF k, Later
        <4> QED BY <1>e, <4>2
      <3> HIDE DEF Later
      <3> QED BY <2>3, <2>4, <3>1, <3>2
    <2> QED BY <2>3, <2>4 DEF BufferIsLatest, Entry
  <1>2. CASE trail' = trail /\ audit_buffer' = audit_buffer
    <2>1. ASSUME NEW i \in DOMAIN audit_buffer
          PROVE  audit_buffer[i] = Later(trail[Len(trail) - Len(audit_buffer) + i])
      <3> HIDE DEF Later
      <3> QED BY <1>b, <1>e, <2>1
    <2> QED BY <1>2, <1>l, <2>1 DEF BufferIsLatest, Entry
  <1>3. CASE PipelineNext /\ ~ \E r \in Callers : Audits(r)
    BY <1>2, <1>3 DEF PipelineNext, RateLimited, Malformed, Denied, Admitted, Invalid,
       Changes, Returns, Escapes, Counts, Answered, requestVars, traceVars
  <1> QED BY <1>1, <1>2, <1>3 DEF pipelineVars, traceVars

\* The ring buffer holds the latest entries of the trail, each as the response
\* was, whatever its size and however requests overlap.
THEOREM BufferHoldsLatest == PipelineSpec => []BufferIsLatest
  <1>1. PipelineInit => BufferIsLatest
    BY BufferAssumption DEF PipelineInit, BufferIsLatest
  <1>2. IInv /\ BufferIsLatest /\ [PipelineNext]_pipelineVars => BufferIsLatest'
    BY BufferStep
  <1> QED BY <1>1, <1>2, Invariance, PTL DEF PipelineSpec

-----------------------------------------------------------------------------
(* Hooks.                                                                  *)

Elements(s) == {s[i] : i \in DOMAIN s}

\* The hooks an event has run, and the events that have run a hook.
Runs(f)   == Elements(ran[f])
Runners(h) == {f \in Fires : h \in Runs(f)}

\* What an event has run comes, in order, before what it has still to run,
\* and the two are the hooks it found.
InOrder(f) ==
  /\ \A i, j \in DOMAIN ran[f] : i < j => ran[f][i] < ran[f][j]
  /\ \A k \in Runs(f), h \in todo[f] : k < h
  /\ Runs(f) \cup todo[f] = present[f]
  /\ fired[f] = "idle" => ran[f] = << >>
  /\ fired[f] = "firing" <=> todo[f] # {}

Counted(h) == IsFiniteSet(Runners(h)) /\ fire_count[h] = Cardinality(Runners(h))

HooksIInv ==
  /\ HooksTypeOK
  /\ \A f \in Fires : InOrder(f)
  /\ \A h \in 1..Len(made) : Counted(h)

LEMMA HooksInitIInv == HooksInit => HooksIInv
  <1> SUFFICES ASSUME HooksInit PROVE HooksIInv
    OBVIOUS
  <1>1. HooksTypeOK
    BY MaxHooksAssumption, LogAssumption DEF HooksInit, HooksTypeOK
  <1>2. ASSUME NEW f \in Fires PROVE InOrder(f)
    BY <1>2 DEF HooksInit, InOrder, Runs, Elements
  <1>3. 1..Len(made) = {}
    BY DEF HooksInit
  <1> QED BY <1>1, <1>2, <1>3 DEF HooksIInv

\* What one appends to a sequence joins its elements, and the sequence stays
\* increasing when it is greater than each of them.
LEMMA AppendElements ==
  ASSUME NEW S, NEW s \in Seq(S), NEW e \in S
  PROVE  Elements(Append(s, e)) = Elements(s) \cup {e}
  <1> DEFINE t == Append(s, e)
  <1>1. DOMAIN t = 1..(Len(s) + 1) /\ DOMAIN s = 1..Len(s) /\ Len(s) \in Nat
    OBVIOUS
  <1>2. t[Len(s) + 1] = e /\ \A i \in 1..Len(s) : t[i] = s[i]
    OBVIOUS
  <1> QED BY <1>1, <1>2 DEF Elements

LEMMA AppendIncreasing ==
  ASSUME NEW s \in Seq(Nat), NEW e \in Nat,
         \A i, j \in DOMAIN s : i < j => s[i] < s[j],
         \A k \in Elements(s) : k < e
  PROVE  \A i, j \in DOMAIN Append(s, e) : i < j => Append(s, e)[i] < Append(s, e)[j]
  <1> DEFINE t == Append(s, e)
  <1>1. DOMAIN t = 1..(Len(s) + 1) /\ DOMAIN s = 1..Len(s) /\ Len(s) \in Nat
    OBVIOUS
  <1>2. t[Len(s) + 1] = e /\ \A i \in 1..Len(s) : t[i] = s[i]
    OBVIOUS
  <1>3. ASSUME NEW i \in DOMAIN t, NEW j \in DOMAIN t, i < j PROVE t[i] < t[j]
    <2>1. i \in DOMAIN s /\ t[i] = s[i]
      BY <1>1, <1>2, <1>3
    <2>2. CASE j = Len(s) + 1
      BY <1>2, <2>1, <2>2 DEF Elements
    <2>3. CASE j \in DOMAIN s
      BY <1>1, <1>2, <1>3, <2>1, <2>3
    <2> QED BY <1>1, <1>3, <2>2, <2>3
  <1> QED BY <1>3

\* The types, operation by operation.
LEMMA HooksTypeStep == HooksIInv /\ [HooksNext]_hookVars => HooksTypeOK'
  <1> SUFFICES ASSUME HooksIInv, [HooksNext]_hookVars PROVE HooksTypeOK'
    OBVIOUS
  <1>t. HooksTypeOK
    BY DEF HooksIInv
  <1>0. Len(made) \in Nat /\ Len(fire_count) \in Nat
    BY <1>t DEF HooksTypeOK
  <1>l. ASSUME NEW f \in Fires, Logged(f)
        PROVE  event_log' \in Seq(Fires) /\ Len(event_log') <= LogSize
    <2> DEFINE kept == IF Len(event_log) < LogSize THEN event_log ELSE Tail(event_log)
    <2>1. event_log \in Seq(Fires) /\ Len(event_log) \in Nat /\ Len(event_log) <= LogSize
      BY <1>t DEF HooksTypeOK
    <2>2. kept \in Seq(Fires) /\ Len(kept) + 1 <= LogSize
      <3>1. CASE Len(event_log) < LogSize
        BY <2>1, <3>1, LogAssumption
      <3>2. CASE ~(Len(event_log) < LogSize)
        <4>1. event_log # << >>
          BY <2>1, <3>2, LogAssumption
        <4>2. Tail(event_log) \in Seq(Fires) /\ Len(Tail(event_log)) = Len(event_log) - 1
          BY <2>1, <4>1
        <4> QED BY <2>1, <3>2, <4>2, LogAssumption
      <3> QED BY <3>1, <3>2
    <2>3. event_log' = Append(kept, f)
      BY <1>l DEF Logged
    <2> HIDE DEF kept
    <2> QED BY <2>2, <2>3
  <1>1. CASE UNCHANGED hookVars
    BY <1>t, <1>1 DEF hookVars, HooksTypeOK
  <1>2. ASSUME NEW n \in HookNames, NEW event \in Events, NEW enabled \in BOOLEAN,
               AddHook(n, event, enabled)
        PROVE  HooksTypeOK'
    <2>1. /\ made' \in Seq([event : Events, enabled : BOOLEAN])
          /\ Len(made') = Len(made) + 1 /\ Len(made') <= MaxHooks
      BY <1>t, <1>0, <1>2, MaxHooksAssumption DEF AddHook, HooksTypeOK
    <2>2. fire_count' \in Seq(Nat) /\ Len(fire_count') = Len(made')
      BY <1>t, <1>0, <1>2, <2>1 DEF AddHook, HooksTypeOK
    <2>3. 1..Len(made) \subseteq 1..Len(made') /\ 0..Len(made) \subseteq 0..Len(made')
      BY <1>0, <2>1
    <2>4. hooks' \in [HookNames -> 0..Len(made')]
      <3>1. Len(made) + 1 \in 0..Len(made')
        BY <1>0, <2>1
      <3> QED BY <1>t, <1>2, <2>3, <3>1 DEF AddHook, HooksTypeOK
    <2>5. ran' \in [Fires -> Seq(1..Len(made'))]
      <3>1. ASSUME NEW f \in Fires PROVE ran[f] \in Seq(1..Len(made'))
        <4>1. ran[f] \in Seq(1..Len(made))
          BY <1>t DEF HooksTypeOK
        <4> QED BY <2>3, <4>1, SeqMonotonic
      <3> QED BY <1>t, <1>2, <3>1 DEF AddHook, HooksTypeOK
    <2>6. todo' \in [Fires -> SUBSET (1..Len(made'))] /\ present' \in [Fires -> SUBSET (1..Len(made'))]
      BY <1>t, <1>2, <2>3 DEF AddHook, HooksTypeOK
    <2> QED BY <1>t, <1>2, <2>1, <2>2, <2>4, <2>5, <2>6 DEF AddHook, HooksTypeOK
  <1>3. ASSUME NEW n \in HookNames, RemoveHook(n) PROVE HooksTypeOK'
    BY <1>t, <1>0, <1>3 DEF RemoveHook, HooksTypeOK
  <1>4. ASSUME NEW f \in Fires, NEW event \in Events, FireBegins(f, event) PROVE HooksTypeOK'
    <2>1. Matching(event) \in SUBSET (1..Len(made))
      BY DEF Matching
    <2>2. event_log' \in Seq(Fires) /\ Len(event_log') <= LogSize
      BY <1>t, <1>l, <1>4 DEF FireBegins, HooksTypeOK
    <2>3. /\ todo' \in [Fires -> SUBSET (1..Len(made))]
          /\ present' \in [Fires -> SUBSET (1..Len(made))]
          /\ fired' \in [Fires -> {"idle", "firing", "done"}]
      BY <1>t, <1>4, <2>1 DEF FireBegins, HooksTypeOK
    <2> QED BY <1>t, <1>4, <2>2, <2>3 DEF FireBegins, HooksTypeOK
  <1>5. ASSUME NEW f \in Fires, HookEnds(f) PROVE HooksTypeOK'
    <2>1. PICK h \in Upcoming(f) :
            /\ fire_count' = [fire_count EXCEPT ![h] = @ + 1]
            /\ ran' = [ran EXCEPT ![f] = Append(@, h)]
            /\ todo' = [todo EXCEPT ![f] = @ \ {h}]
            /\ fired' = [fired EXCEPT ![f] = IF todo[f] = {h} THEN "done" ELSE @]
            /\ IF todo[f] = {h} THEN Logged(f) ELSE UNCHANGED event_log
            /\ UNCHANGED <<hooks, made, present>>
      BY <1>5 DEF HookEnds
    <2>2. h \in 1..Len(made)
      BY <1>t DEF Upcoming, HooksTypeOK
    <2>3. event_log' \in Seq(Fires) /\ Len(event_log') <= LogSize
      BY <1>t, <1>l, <2>1 DEF HooksTypeOK
    <2>4. fire_count' \in Seq(Nat) /\ Len(fire_count') = Len(fire_count)
      <3>1. fire_count \in Seq(Nat) /\ h \in 1..Len(fire_count) /\ fire_count[h] + 1 \in Nat
        BY <1>t, <2>2 DEF HooksTypeOK
      <3> QED BY <2>1, <3>1, ExceptSeq
    <2>5. ran' \in [Fires -> Seq(1..Len(made))]
      <3>1. Append(ran[f], h) \in Seq(1..Len(made))
        BY <1>t, <2>2 DEF HooksTypeOK
      <3> QED BY <1>t, <2>1, <3>1 DEF HooksTypeOK
    <2>6. /\ todo' \in [Fires -> SUBSET (1..Len(made))]
          /\ fired' \in [Fires -> {"idle", "firing", "done"}]
      BY <1>t, <2>1 DEF HooksTypeOK
    <2> QED BY <1>t, <2>1, <2>3, <2>4, <2>5, <2>6 DEF HooksTypeOK
  <1>6. CASE ClearHistory
    BY <1>t, <1>6, LogAssumption DEF ClearHistory, HooksTypeOK
  <1> QED BY <1>1, <1>2, <1>3, <1>4, <1>5, <1>6 DEF HooksNext

\* What is not touched of an event leaves its order as it is.
LEMMA OrderKept ==
  ASSUME NEW f \in Fires, InOrder(f),
         ran'[f] = ran[f], todo'[f] = todo[f], present'[f] = present[f], fired'[f] = fired[f]
  PROVE  InOrder(f)'
  BY DEF InOrder, Runs

LEMMA OrderStep ==
  ASSUME HooksIInv, [HooksNext]_hookVars, NEW g \in Fires
  PROVE  InOrder(g)'
  <1>t. HooksTypeOK /\ InOrder(g)
    BY DEF HooksIInv
  <1>1. CASE /\ UNCHANGED <<todo, fired, ran, present>>
    BY <1>t, <1>1, OrderKept
  <1>2. ASSUME NEW f \in Fires, NEW event \in Events, FireBegins(f, event) PROVE InOrder(g)'
    <2>1. CASE g # f
      BY <1>t, <1>2, <2>1, OrderKept DEF FireBegins, HooksTypeOK
    <2>2. CASE g = f
      <3>1. /\ ran'[g] = << >>
            /\ todo'[g] = Matching(event) /\ present'[g] = Matching(event)
            /\ fired'[g] = IF Matching(event) = {} THEN "done" ELSE "firing"
        BY <1>t, <1>2, <2>2 DEF FireBegins, HooksTypeOK, InOrder
      <3>2. Runs(g)' = {}
        BY <3>1 DEF Runs, Elements
      <3> QED BY <3>1, <3>2 DEF InOrder
    <2> QED BY <2>1, <2>2
  <1>3. ASSUME NEW f \in Fires, HookEnds(f) PROVE InOrder(g)'
    <2>1. PICK h \in Upcoming(f) :
            /\ fired[f] = "firing"
            /\ ran' = [ran EXCEPT ![f] = Append(@, h)]
            /\ todo' = [todo EXCEPT ![f] = @ \ {h}]
            /\ fired' = [fired EXCEPT ![f] = IF todo[f] = {h} THEN "done" ELSE @]
            /\ UNCHANGED present
      BY <1>3 DEF HookEnds
    <2>2. CASE g # f
      BY <1>t, <2>1, <2>2, OrderKept DEF HooksTypeOK
    <2>3. CASE g = f
      <3> DEFINE S == 1..Len(made)
      <3>1. h \in todo[g] /\ \A k \in todo[g] : h <= k
        BY <2>1, <2>3 DEF Upcoming
      <3>2. /\ ran[g] \in Seq(S) /\ todo[g] \subseteq S /\ h \in S /\ S \subseteq Nat
            /\ ran[g] \in Seq(Nat)
        BY <1>t, <3>1 DEF HooksTypeOK
      <3>3. /\ ran'[g] = Append(ran[g], h) /\ todo'[g] = todo[g] \ {h}
            /\ present'[g] = present[g]
            /\ fired'[g] = IF todo[g] = {h} THEN "done" ELSE "firing"
        BY <1>t, <2>1, <2>3 DEF HooksTypeOK
      <3>4. Runs(g)' = Runs(g) \cup {h}
        <4>1. Runs(g)' = Elements(Append(ran[g], h))
          BY <3>3 DEF Runs
        <4> HIDE DEF S
        <4> QED BY <3>2, <4>1, AppendElements DEF Runs
      <3> HIDE DEF S
      <3>5. \A k \in Runs(g) : k < h
        BY <1>t, <3>1 DEF InOrder
      <3>6. \A i, j \in DOMAIN ran'[g] : i < j => ran'[g][i] < ran'[g][j]
        <4>1. \A i, j \in DOMAIN ran[g] : i < j => ran[g][i] < ran[g][j]
          BY <1>t DEF InOrder
        <4>2. \A k \in Elements(ran[g]) : k < h
          BY <3>5 DEF Runs
        <4> QED BY <3>2, <3>3, <4>1, <4>2, AppendIncreasing
      <3>7. \A k \in Runs(g)', m \in todo'[g] : k < m
        <4> SUFFICES ASSUME NEW k \in Runs(g) \cup {h}, NEW m \in todo[g] \ {h} PROVE k < m
          BY <3>3, <3>4
        <4>1. m \in todo[g] /\ h <= m /\ h # m /\ h \in Nat /\ m \in Nat
          BY <3>1, <3>2
        <4>2. CASE k \in Runs(g)
          BY <1>t, <4>1, <4>2 DEF InOrder
        <4>3. CASE k = h
          BY <4>1, <4>3
        <4> QED BY <4>2, <4>3
      <3>8. Runs(g)' \cup todo'[g] = present'[g]
        BY <1>t, <3>1, <3>3, <3>4 DEF InOrder
      <3>9. fired'[g] = "firing" <=> todo'[g] # {}
        BY <3>1, <3>3
      <3> QED BY <3>3, <3>6, <3>7, <3>8, <3>9 DEF InOrder
    <2> QED BY <2>2, <2>3
  <1> QED BY <1>1, <1>2, <1>3 DEF HooksNext, hookVars, AddHook, RemoveHook, ClearHistory

\* Hooks have run as often as they have counted: an event adds one to the
\* count of a hook it has not run before.
LEMMA CountStep ==
  ASSUME HooksIInv, [HooksNext]_hookVars, NEW h \in 1..Len(made')
  PROVE  Counted(h)'
  <1>t. HooksTypeOK /\ \A f \in Fires : InOrder(f)
    BY DEF HooksIInv
  <1>0. Len(made) \in Nat
    BY <1>t DEF HooksTypeOK
  <1>1. CASE UNCHANGED <<made, fire_count, ran>>
    BY <1>1 DEF HooksIInv, Counted, Runners, Runs
  <1>2. ASSUME NEW n \in HookNames, NEW event \in Events, NEW enabled \in BOOLEAN,
               AddHook(n, event, enabled)
        PROVE  Counted(h)'
    <2>1. /\ ran' = ran /\ Len(made') = Len(made) + 1
          /\ fire_count \in Seq(Nat) /\ Len(fire_count) = Len(made)
          /\ fire_count' = Append(fire_count, 0)
      BY <1>t, <1>2 DEF AddHook, HooksTypeOK
    <2>2. Runners(h)' = Runners(h)
      BY <2>1 DEF Runners, Runs
    <2>3. CASE h \in 1..Len(made)
      <3>1. fire_count'[h] = fire_count[h]
        BY <2>1, <2>3
      <3> QED BY <2>2, <2>3, <3>1 DEF HooksIInv, Counted
    <2>4. CASE h = Len(made) + 1
      <3>1. fire_count'[h] = 0
        BY <1>0, <2>1, <2>4
      <3>2. Runners(h) = {}
        <4> SUFFICES ASSUME NEW f \in Fires, NEW i \in DOMAIN ran[f], ran[f][i] = h PROVE FALSE
          BY DEF Runners, Runs, Elements
        <4>1. ran[f] \in Seq(1..Len(made))
          BY <1>t DEF HooksTypeOK
        <4>2. ran[f][i] \in 1..Len(made)
          BY <4>1
        <4> QED BY <1>0, <2>4, <4>2
      <3> QED BY <2>2, <3>1, <3>2, FS_EmptySet DEF Counted
    <2> QED BY <1>0, <2>1, <2>3, <2>4
  <1>3. ASSUME NEW f \in Fires, NEW event \in Events, FireBegins(f, event) PROVE Counted(h)'
    BY <1>1, <1>3 DEF FireBegins
  <1>4. ASSUME NEW f \in Fires, HookEnds(f) PROVE Counted(h)'
    <2>1. PICK k \in Upcoming(f) :
            /\ fire_count' = [fire_count EXCEPT ![k] = @ + 1]
            /\ ran' = [ran EXCEPT ![f] = Append(@, k)]
            /\ UNCHANGED made
      BY <1>4 DEF HookEnds
    <2>2. /\ h \in 1..Len(made) /\ k \in 1..Len(made) /\ k \in todo[f]
          /\ ran[f] \in Seq(1..Len(made)) /\ ran \in [Fires -> Seq(1..Len(made))]
          /\ DOMAIN fire_count = 1..Len(made) /\ fire_count[h] \in Nat
      BY <1>t, <2>1 DEF HooksTypeOK, Upcoming
    <2>3. k \notin Runs(f)
      BY <1>t, <2>2 DEF InOrder
    <2>4. Runs(f)' = Runs(f) \cup {k}
      <3> DEFINE S == 1..Len(made)
      <3>1. ran[f] \in Seq(S) /\ k \in S /\ Runs(f)' = Elements(Append(ran[f], k))
        BY <2>1, <2>2 DEF Runs
      <3> HIDE DEF S
      <3> QED BY <3>1, AppendElements DEF Runs
    <2>5. \A g \in Fires \ {f} : Runs(g)' = Runs(g)
      BY <2>1, <2>2 DEF Runs
    <2>6. Counted(h)
      BY <2>2 DEF HooksIInv
    <2>7. CASE h # k
      <3>1. Runners(h)' = Runners(h)
        BY <2>4, <2>5, <2>7 DEF Runners
      <3>2. fire_count'[h] = fire_count[h]
        BY <2>1, <2>2, <2>7
      <3> QED BY <2>6, <3>1, <3>2 DEF Counted
    <2>8. CASE h = k
      <3>1. Runners(h)' = Runners(h) \cup {f} /\ f \notin Runners(h)
        BY <2>3, <2>4, <2>5, <2>8 DEF Runners
      <3>2. fire_count'[h] = fire_count[h] + 1
        BY <2>1, <2>2, <2>8
      <3>3. IsFiniteSet(Runners(h)) /\ fire_count[h] = Cardinality(Runners(h))
        BY <2>6 DEF Counted
      <3>4. /\ IsFiniteSet(Runners(h) \cup {f})
            /\ Cardinality(Runners(h) \cup {f}) = Cardinality(Runners(h)) + 1
        BY <3>1, <3>3, FS_AddElement
      <3> QED BY <3>1, <3>2, <3>3, <3>4 DEF Counted
    <2> QED BY <2>7, <2>8
  <1> QED BY <1>1, <1>2, <1>3, <1>4 DEF HooksNext, hookVars, RemoveHook, ClearHistory

LEMMA HooksInductive == HooksIInv /\ [HooksNext]_hookVars => HooksIInv'
  BY HooksTypeStep, OrderStep, CountStep DEF HooksIInv

LEMMA HooksInvariance == HooksSpec => []HooksIInv
  BY HooksInitIInv, HooksInductive, PTL DEF HooksSpec

\* The types of the hooks: an event has to do with hooks that were added.
THEOREM HooksTypeCorrect == HooksSpec => []HooksTypeOK
  <1>1. HooksIInv => HooksTypeOK
    BY DEF HooksIInv
  <1> QED BY <1>1, HooksInvariance, PTL

\* However events, additions and removals overlap: an event that is done has
\* run the hooks that listened as it began, each once and in the order they
\* were added, and every hook counts the events that have run it.
THEOREM EventsReachHooks == HooksSpec => []EventReachesHooks
  <1>1. HooksIInv => EventReachesHooks
    <2> SUFFICES ASSUME HooksIInv PROVE EventReachesHooks
      OBVIOUS
    <2>1. ASSUME NEW f \in Fires, fired[f] = "done"
          PROVE  /\ {ran[f][i] : i \in DOMAIN ran[f]} = present[f]
                 /\ \A i, j \in DOMAIN ran[f] : i < j => ran[f][i] < ran[f][j]
      BY <2>1 DEF HooksIInv, InOrder, Runs, Elements
    <2>2. ASSUME NEW h \in DOMAIN fire_count
          PROVE  fire_count[h] = Cardinality({f \in Fires : \E i \in DOMAIN ran[f] : ran[f][i] = h})
      <3>1. h \in 1..Len(made)
        BY DEF HooksIInv, HooksTypeOK
      <3>2. Runners(h) = {f \in Fires : \E i \in DOMAIN ran[f] : ran[f][i] = h}
        BY DEF Runners, Runs, Elements
      <3>3. fire_count[h] = Cardinality(Runners(h))
        BY <3>1 DEF HooksIInv, Counted
      <3> QED BY <3>2, <3>3
    <2> QED BY <2>1, <2>2 DEF EventReachesHooks
  <1> QED BY <1>1, HooksInvariance, PTL

-----------------------------------------------------------------------------
(* The session history.                                                    *)

Begun == {s \in Snapshots : snapshot[s].state # "idle"}

\* No two rows have the same number.
NumbersDiffer == \A r, q \in rows : r.id = q.id => r = q

\* No time lies ahead of the clock.
InThePast ==
  /\ \A s \in Snapshots : snapshot[s].at <= clock
  /\ purged <= clock

\* A snapshot under way that is older than a purge was overtaken by it.
Overtakes ==
  \A s \in Snapshots :
    /\ snapshot[s].state \in {"listing", "inserting"} /\ snapshot[s].at < purged
         => s \in overtaken
    /\ s \in overtaken => s \in Begun

\* How many rows come before a row, hence on which page it is.
Rank(r) == Cardinality({q \in rows : Before(q, r)})

\* What was there all the while has been seen, or is still to come.
StillToCome ==
  /\ page.state = "paging" =>
       \A r \in page.steady : r \in rows /\ (r \in page.seen \/ Rank(r) >= page.offset)
  /\ page.state = "done" => page.steady \subseteq page.seen

HistoryIInv ==
  /\ HistoryTypeOK
  /\ IsFiniteSet(Begun)
  /\ NumbersDiffer
  /\ InThePast
  /\ Overtakes
  /\ PurgeIsFinal
  /\ WholeSnapshots
  /\ StillToCome

-----------------------------------------------------------------------------
(* The order of the rows.                                                  *)

\* Rows with numbers of their own are in one strict order.
LEMMA BeforeIsStrict ==
  ASSUME NEW r \in Rows, NEW q \in Rows, NEW x \in Rows
  PROVE  /\ ~Before(r, r)
         /\ Before(x, q) /\ Before(q, r) => Before(x, r)
         /\ r.id # q.id => Before(r, q) \/ Before(q, r)
  BY TimeAssumption DEF Rows, Times, Before

LEMMA RankBounds ==
  ASSUME HistoryTypeOK, NEW r \in rows
  PROVE  /\ IsFiniteSet({q \in rows : Before(q, r)})
         /\ Rank(r) \in 0..(Cardinality(rows) - 1)
  <1> DEFINE P == {q \in rows : Before(q, r)}
  <1>1. IsFiniteSet(rows) /\ r \in Rows
    BY DEF HistoryTypeOK
  <1>2. IsFiniteSet(rows \ {r}) /\ Cardinality(rows \ {r}) = Cardinality(rows) - 1
    BY <1>1, FS_RemoveElement
  <1>3. P \in SUBSET (rows \ {r})
    BY <1>1, BeforeIsStrict
  <1>4. IsFiniteSet(P) /\ Cardinality(P) <= Cardinality(rows \ {r})
    BY <1>2, <1>3, FS_Subset
  <1>5. Cardinality(P) \in Nat /\ Cardinality(rows) \in Nat
    BY <1>1, <1>4, FS_CardinalityType
  <1>6. Rank(r) = Cardinality(P)
    BY DEF Rank
  <1> HIDE DEF P
  <1>7. Rank(r) \in 0..(Cardinality(rows) - 1)
    BY <1>2, <1>4, <1>5, <1>6
  <1> QED BY <1>4, <1>7 DEF P

LEMMA RankTypes ==
  ASSUME HistoryTypeOK
  PROVE  /\ Cardinality(rows) \in Nat
         /\ \A r \in rows : Rank(r) \in Nat /\ Rank(r) < Cardinality(rows)
  <1>1. Cardinality(rows) \in Nat
    BY FS_CardinalityType DEF HistoryTypeOK
  <1>2. ASSUME NEW r \in rows PROVE Rank(r) \in Nat /\ Rank(r) < Cardinality(rows)
    <2>1. Rank(r) \in 0..(Cardinality(rows) - 1)
      BY RankBounds, Zenon
    <2> QED BY <1>1, <2>1
  <1> QED BY <1>1, <1>2

LEMMA RankGrows ==
  ASSUME HistoryTypeOK, NEW q \in rows, NEW r \in rows, Before(q, r)
  PROVE  Rank(q) < Rank(r)
  <1> DEFINE P == {x \in rows : Before(x, q)}
             R == {x \in rows : Before(x, r)}
  <1>1. rows \subseteq Rows
    BY DEF HistoryTypeOK
  <1>2. IsFiniteSet(P) /\ IsFiniteSet(R)
    BY RankBounds
  <1>3. q \notin P /\ P \cup {q} \in SUBSET R
    BY <1>1, BeforeIsStrict
  <1>4. Rank(q) = Cardinality(P) /\ Rank(r) = Cardinality(R)
    BY DEF Rank
  <1> HIDE DEF P, R
  <1>5. Cardinality(P \cup {q}) = Cardinality(P) + 1
    BY <1>2, <1>3, FS_AddElement
  <1>6. Cardinality(P \cup {q}) <= Cardinality(R)
    BY <1>2, <1>3, FS_Subset
  <1>7. Cardinality(P) \in Nat /\ Cardinality(R) \in Nat
    BY <1>2, FS_CardinalityType
  <1> QED BY <1>4, <1>5, <1>6, <1>7

\* Ranks number the rows without a gap.
LEMMA RanksComplete ==
  ASSUME HistoryTypeOK, NumbersDiffer, NEW k \in 0..(Cardinality(rows) - 1)
  PROVE  \E r \in rows : Rank(r) = k
  <1> DEFINE T == 0..(Cardinality(rows) - 1)
             f == [r \in rows |-> Rank(r)]
  <1>1. IsFiniteSet(rows) /\ Cardinality(rows) \in Nat /\ rows \subseteq Rows
    BY FS_CardinalityType DEF HistoryTypeOK
  <1>2. f \in [rows -> T]
    BY RankTypes
  <1>3. ASSUME NEW q \in rows, NEW r \in rows, Rank(q) = Rank(r) PROVE q = r
    <2>1. CASE q.id = r.id
      BY <2>1 DEF NumbersDiffer
    <2>2. CASE q.id # r.id
      <3>1. Before(q, r) \/ Before(r, q)
        BY <1>1, <2>2, BeforeIsStrict
      <3>2. Rank(q) < Rank(r) \/ Rank(r) < Rank(q)
        BY <3>1, RankGrows
      <3>3. Rank(q) \in Int /\ Rank(r) \in Int
        BY RankTypes
      <3> QED BY <1>3, <3>2, <3>3
    <2> QED BY <2>1, <2>2
  <1>4. IsInjective(f)
    BY <1>3 DEF IsInjective
  <1>5. f \in Injection(rows, T)
    BY <1>2, <1>4 DEF Injection
  <1>6. IsFiniteSet(T) /\ Cardinality(T) = Cardinality(rows)
    <2> DEFINE z == Cardinality(rows) - 1
    <2>1. z \in Int /\ T = 0..z
      BY <1>1
    <2> HIDE DEF z, T
    <2>2. IsFiniteSet(T) /\ Cardinality(T) = IF 0 > z THEN 0 ELSE z - 0 + 1
      BY <2>1, FS_Interval
    <2> QED BY <1>1, <2>1, <2>2 DEF z
  <1>7. f \in Surjection(rows, T)
    <2> HIDE DEF T, f
    <2> QED BY <1>5, <1>6, FS_Injection
  <1>8. PICK r \in rows : f[r] = k
    BY <1>7 DEF Surjection
  <1> QED BY <1>8

\* While there is a row behind a page, the page is full.
LEMMA PageIsFull ==
  ASSUME HistoryTypeOK, NumbersDiffer, NEW o \in Nat, NEW r \in rows, Rank(r) >= o + PageSize
  PROVE  Cardinality(PageAt(o)) >= PageSize
  <1> DEFINE T == o..(o + PageSize - 1)
             f == [x \in PageAt(o) |-> Rank(x)]
  <1>1. IsFiniteSet(rows) /\ Cardinality(rows) \in Nat
    BY FS_CardinalityType DEF HistoryTypeOK
  <1>2. PageAt(o) = {x \in rows : o <= Rank(x) /\ Rank(x) < o + PageSize}
    BY DEF PageAt, Rank
  <1>3. IsFiniteSet(PageAt(o)) /\ Cardinality(PageAt(o)) \in Nat
    <2>1. PageAt(o) \in SUBSET rows
      BY <1>2
    <2> QED BY <1>1, <2>1, FS_Subset, FS_CardinalityType
  <1>4. f \in [PageAt(o) -> T]
    <2>1. ASSUME NEW x \in PageAt(o) PROVE Rank(x) \in T
      <3>1. Rank(x) \in Int /\ o <= Rank(x) /\ Rank(x) < o + PageSize
        BY <1>2, RankTypes
      <3> QED BY <3>1, PageAssumption
    <2> QED BY <2>1
  <1>5. ASSUME NEW k \in T PROVE \E x \in PageAt(o) : f[x] = k
    <2>1. k \in 0..(Cardinality(rows) - 1)
      BY PageAssumption, RankTypes
    <2>2. PICK x \in rows : Rank(x) = k
      BY <2>1, RanksComplete
    <2>3. x \in PageAt(o)
      BY <1>2, <2>2, PageAssumption
    <2> QED BY <2>2, <2>3
  <1>6. f \in Surjection(PageAt(o), T)
    BY <1>4, <1>5 DEF Surjection
  <1>7. Cardinality(T) = PageSize
    <2>1. Cardinality(T) = IF o > o + PageSize - 1 THEN 0 ELSE (o + PageSize - 1) - o + 1
      BY PageAssumption, FS_Interval
    <2> HIDE DEF T
    <2> QED BY <2>1, PageAssumption
  <1>8. Cardinality(T) <= Cardinality(PageAt(o))
    <2> HIDE DEF T, f
    <2> QED BY <1>3, <1>6, FS_Surjection
  <1> HIDE DEF T
  <1> QED BY <1>3, <1>7, <1>8, PageAssumption

-----------------------------------------------------------------------------
(* The rows of a snapshot.                                                 *)

\* Whatever is finite can be numbered.
LEMMA Numbering ==
  ASSUME NEW users, IsFiniteSet(users)
  PROVE  LET rank == CHOOSE n \in [users -> 1..Cardinality(users)] : IsInjective(n)
         IN  rank \in [users -> 1..Cardinality(users)] /\ IsInjective(rank)
  <1> DEFINE T == 1..Cardinality(users)
  <1>1. ExistsBijection(T, users)
    BY FS_CardinalityType
  <1> HIDE DEF T
  <1>2. ExistsBijection(users, T)
    BY <1>1, Fun_ExistsBijSymmetric
  <1>3. \E n \in [users -> T] : IsInjective(n)
    BY <1>2 DEF ExistsBijection, Bijection, Injection
  <1> QED BY <1>3 DEF T

\* A snapshot of some users has one row for each, at the time the snapshot
\* began, with numbers that no row has had before.
RowPerUser(new, s, users) ==
  /\ IsFiniteSet(new) /\ Cardinality(users) \in Nat
  /\ \A r \in new : /\ r \in Rows /\ r.snapshot_at = snapshot[s].at /\ r.username \in users
                    /\ lastId < r.id /\ r.id <= lastId + Cardinality(users)
  /\ \A r, q \in new : r.id = q.id \/ r.username = q.username => r = q
  /\ \A u \in users : \E r \in new : r.username = u

LEMMA RowsOfSnapshot ==
  ASSUME HistoryTypeOK, NEW s \in Snapshots, NEW users \in SUBSET Users
  PROVE  RowPerUser(RowsOf(s, users), s, users)
  <1> DEFINE n == Cardinality(users)
             rank == CHOOSE f \in [users -> 1..n] : IsInjective(f)
             row(u) == [id |-> lastId + rank[u], snapshot_at |-> snapshot[s].at, username |-> u]
             new == RowsOf(s, users)
  <1>1. IsFiniteSet(users) /\ n \in Nat
    BY UsersAssumption, FS_Subset, FS_CardinalityType
  <1>2. rank \in [users -> 1..n] /\ IsInjective(rank)
    BY <1>1, Numbering
  <1>3. new = {row(u) : u \in users}
    BY DEF RowsOf
  <1>4. lastId \in Nat /\ snapshot[s].at \in Times
    BY DEF HistoryTypeOK
  <1> HIDE DEF n, rank
  <1>5. ASSUME NEW u \in users
        PROVE  /\ row(u) \in Rows /\ lastId < row(u).id /\ row(u).id <= lastId + n
               /\ row(u).snapshot_at = snapshot[s].at /\ row(u).username = u
    <2>1. rank[u] \in 1..n /\ u \in Users
      BY <1>2
    <2> QED BY <1>1, <1>4, <2>1 DEF Rows
  <1>6. ASSUME NEW u \in users, NEW v \in users, row(u).id = row(v).id PROVE u = v
    <2>1. rank[u] \in 1..n /\ rank[v] \in 1..n
      BY <1>2
    <2>2. rank[u] = rank[v]
      BY <1>1, <1>4, <1>6, <2>1
    <2> QED BY <1>2, <2>2 DEF IsInjective
  <1>7. IsFiniteSet(new)
    <2> DEFINE f == [u \in users |-> row(u)]
    <2>1. f \in [users -> new]
      BY <1>3
    <2>2. \A r \in new : \E u \in users : f[u] = r
      BY <1>3
    <2>3. f \in Surjection(users, new)
      <3> HIDE DEF f, new
      <3> QED BY <2>1, <2>2 DEF Surjection
    <2> HIDE DEF f, new
    <2> QED BY <1>1, <2>3, FS_Surjection
  <1> HIDE DEF row, new
  <1>8. \A r \in new : /\ r \in Rows /\ r.snapshot_at = snapshot[s].at /\ r.username \in users
                       /\ lastId < r.id /\ r.id <= lastId + n
    BY <1>3, <1>5
  <1>9. \A r, q \in new : r.id = q.id \/ r.username = q.username => r = q
    BY <1>3, <1>5, <1>6
  <1>10. \A u \in users : \E r \in new : r.username = u
    BY <1>3, <1>5
  <1> QED BY <1>1, <1>7, <1>8, <1>9, <1>10 DEF RowPerUser, n, new

-----------------------------------------------------------------------------
\* What the history holds of a time and a user, and which snapshots may have
\* put it there.
RowsAt(t, u)     == {r \in rows : r.snapshot_at = t /\ r.username = u}
DoneAt(t)        == {s \in Snapshots : snapshot[s].state = "done" /\ snapshot[s].at = t}
Holding(kept, u) == {s \in kept : u \in snapshot[s].listed}

Whole(t) ==
  \E kept \in SUBSET DoneAt(t) :
    \A u \in Users : Cardinality(RowsAt(t, u)) = Cardinality(Holding(kept, u))

LEMMA WholeMeans == WholeSnapshots <=> \A t \in Times : Whole(t)
  BY DEF WholeSnapshots, Whole, RowsAt, DoneAt, Holding

LEMMA HistoryInitIInv == HistoryInit => HistoryIInv
  <1> SUFFICES ASSUME HistoryInit PROVE HistoryIInv
    OBVIOUS
  <1>1. HistoryTypeOK
    BY TimeAssumption, FS_EmptySet DEF HistoryInit, HistoryTypeOK, Times
  <1>2. Begun = {} /\ IsFiniteSet(Begun)
    BY FS_EmptySet DEF HistoryInit, Begun
  <1>3. NumbersDiffer /\ InThePast /\ Overtakes /\ PurgeIsFinal /\ StillToCome
    BY DEF HistoryInit, NumbersDiffer, InThePast, Overtakes, PurgeIsFinal, StillToCome
  <1>4. ASSUME NEW t \in Times PROVE Whole(t)
    <2>1. {} \in SUBSET DoneAt(t) /\ \A u \in Users : RowsAt(t, u) = Holding({}, u)
      BY DEF HistoryInit, RowsAt, Holding
    <2> QED BY <2>1 DEF Whole
  <1> QED BY <1>1, <1>2, <1>3, <1>4, WholeMeans DEF HistoryIInv

LEMMA MaxOfTwo ==
  ASSUME NEW a \in Int, NEW b \in Int
  PROVE  Max({a, b}) = IF a >= b THEN a ELSE b
  <1>1. \E x \in {a, b} : \A y \in {a, b} : x >= y
    OBVIOUS
  <1>2. Max({a, b}) \in {a, b} /\ \A y \in {a, b} : Max({a, b}) >= y
    BY <1>1 DEF Max
  <1> QED BY <1>2

LEMMA MinOfTwo ==
  ASSUME NEW a \in Int, NEW b \in Int
  PROVE  Min({a, b}) = IF a <= b THEN a ELSE b
  <1>1. \E x \in {a, b} : \A y \in {a, b} : x =< y
    OBVIOUS
  <1>2. Min({a, b}) \in {a, b} /\ \A y \in {a, b} : Min({a, b}) =< y
    BY <1>1 DEF Min
  <1> QED BY <1>2

\* The stamps a purge is final for: those it deleted, as far as passed.
LEMMA PurgedTime ==
  ASSUME HistoryTypeOK, InThePast, NEW before \in Cutoffs, PurgeHistory(before)
  PROVE  /\ purged' \in Times /\ purged' <= clock
         /\ purged' = purged \/ purged' <= before
         /\ purged' >= purged
  <1>1. purged \in Nat /\ clock \in Nat /\ before \in Nat /\ purged <= clock /\ clock <= MaxTime
    BY TimeAssumption DEF HistoryTypeOK, InThePast, Times, Cutoffs
  <1> DEFINE m == Min({before, clock})
  <1>2. m = IF before <= clock THEN before ELSE clock
    BY <1>1, MinOfTwo
  <1> HIDE DEF m
  <1>3. m \in Nat /\ m <= before /\ m <= clock
    BY <1>1, <1>2
  <1>4. purged' = Max({purged, m})
    BY DEF PurgeHistory, m
  <1>5. Max({purged, m}) = IF purged >= m THEN purged ELSE m
    BY <1>1, <1>3, MaxOfTwo
  <1>6. purged' \in Nat /\ purged' <= clock /\ (purged' = purged \/ purged' <= before) /\ purged' >= purged
    BY <1>1, <1>3, <1>4, <1>5
  <1> QED BY <1>1, <1>6, TimeAssumption DEF Times

\* The types, operation by operation.
LEMMA HistoryTypeStep == HistoryIInv /\ [HistoryNext]_historyVars => HistoryTypeOK'
  <1> SUFFICES ASSUME HistoryIInv, [HistoryNext]_historyVars PROVE HistoryTypeOK'
    OBVIOUS
  <1>t. HistoryTypeOK /\ InThePast
    BY DEF HistoryIInv
  <1> DEFINE States == {"idle", "listing", "inserting", "done", "failed"}
             Calls  == [state : States, at : Times, listed : SUBSET Users]
  <1>s. snapshot \in [Snapshots -> Calls]
    BY <1>t DEF HistoryTypeOK
  <1>1. CASE UNCHANGED historyVars
    BY <1>t, <1>1 DEF historyVars, HistoryTypeOK
  <1>2. CASE Tick
    BY <1>t, <1>2, TimeAssumption DEF Tick, HistoryTypeOK, Times
  <1>3. ASSUME NEW s \in Snapshots,
               \/ SnapshotBegins(s) \/ SnapshotListed(s) \/ SnapshotFails(s)
        PROVE  HistoryTypeOK'
    <2>1. snapshot' \in [Snapshots -> Calls]
      <3>1. CASE SnapshotBegins(s)
        <4>1. [state |-> "listing", at |-> clock, listed |-> {}] \in Calls
          BY <1>t DEF HistoryTypeOK
        <4> QED BY <1>s, <3>1, <4>1 DEF SnapshotBegins
      <3>2. CASE SnapshotListed(s)
        <4>1. PICK listed \in SUBSET Users :
                snapshot' = [snapshot EXCEPT ![s].state = "inserting", ![s].listed = listed]
          BY <3>2 DEF SnapshotListed
        <4> QED BY <1>s, <4>1
      <3>3. CASE SnapshotFails(s)
        BY <1>s, <3>3 DEF SnapshotFails
      <3> QED BY <1>3, <3>1, <3>2, <3>3
    <2>2. UNCHANGED <<clock, rows, lastId, page, purged, overtaken>>
      BY <1>3 DEF SnapshotBegins, SnapshotListed, SnapshotFails
    <2> QED BY <1>t, <2>1, <2>2 DEF HistoryTypeOK
  <1>4. ASSUME NEW s \in Snapshots, SnapshotInserted(s) PROVE HistoryTypeOK'
    <2> DEFINE listed == snapshot[s].listed
               new    == RowsOf(s, listed)
    <2>1. listed \in SUBSET Users
      BY <1>s
    <2>2. RowPerUser(new, s, listed)
      BY <1>t, <2>1, RowsOfSnapshot
    <2>3. rows' = rows \cup new /\ lastId' = lastId + Cardinality(listed)
      BY <1>4 DEF SnapshotInserted
    <2>4. snapshot' \in [Snapshots -> Calls]
      BY <1>s, <1>4 DEF SnapshotInserted
    <2> HIDE DEF new, listed
    <2>5. /\ rows' \subseteq Rows /\ IsFiniteSet(rows')
          /\ lastId' \in Nat /\ \A r \in rows' : r.id <= lastId'
      <3>1. IsFiniteSet(rows')
        BY <1>t, <2>2, <2>3, FS_Union DEF HistoryTypeOK, RowPerUser
      <3>2. rows' \subseteq Rows /\ lastId' \in Nat
        BY <1>t, <2>2, <2>3 DEF HistoryTypeOK, RowPerUser
      <3>3. ASSUME NEW r \in rows' PROVE r.id <= lastId'
        <4>1. /\ r \in rows => r.id <= lastId
              /\ r \in new => r.id <= lastId'
              /\ r \in rows \/ r \in new
          BY <1>t, <2>2, <2>3 DEF HistoryTypeOK, RowPerUser
        <4>2. lastId \in Nat /\ lastId <= lastId' /\ lastId' \in Nat /\ r.id \in Nat
          BY <1>t, <2>2, <2>3, <3>2 DEF HistoryTypeOK, RowPerUser, Rows
        <4> QED BY <4>1, <4>2
      <3> QED BY <3>1, <3>2, <3>3
    <2>6. UNCHANGED <<clock, page, purged, overtaken>>
      BY <1>4 DEF SnapshotInserted
    <2> QED BY <1>t, <2>4, <2>5, <2>6 DEF HistoryTypeOK
  <1>5. ASSUME NEW before \in Cutoffs, PurgeHistory(before) PROVE HistoryTypeOK'
    <2>1. rows' \in SUBSET rows /\ UNCHANGED <<clock, lastId, snapshot>>
      BY <1>5 DEF PurgeHistory
    <2>2. IsFiniteSet(rows')
      BY <1>t, <2>1, FS_Subset DEF HistoryTypeOK
    <2>3. purged' \in Times
      BY <1>t, <1>5, PurgedTime
    <2>4. overtaken' \subseteq Snapshots
      BY <1>t, <1>5 DEF PurgeHistory, HistoryTypeOK
    <2>5. page' \in [state : {"idle", "paging", "done"}, offset : Nat,
                     seen : SUBSET Rows, steady : SUBSET Rows]
      BY <1>t, <1>5 DEF PurgeHistory, HistoryTypeOK
    <2> QED BY <1>t, <2>1, <2>2, <2>3, <2>4, <2>5 DEF HistoryTypeOK
  <1>6. CASE PagingBegins
    BY <1>t, <1>6 DEF PagingBegins, HistoryTypeOK
  <1>7. CASE NextPage
    <2>1. PageAt(page.offset) \subseteq Rows
      BY <1>t DEF PageAt, HistoryTypeOK
    <2>2. page' \in [state : {"idle", "paging", "done"}, offset : Nat,
                     seen : SUBSET Rows, steady : SUBSET Rows]
      <3> DEFINE full == PageAt(page.offset)
                 stop == IF Cardinality(full) < PageSize THEN "done" ELSE page.state
      <3>1. page' = [page EXCEPT !.offset = @ + PageSize, !.seen = @ \cup full, !.state = stop]
        BY <1>7 DEF NextPage
      <3>2. page \in [state : {"idle", "paging", "done"}, offset : Nat,
                     seen : SUBSET Rows, steady : SUBSET Rows]
        BY <1>t DEF HistoryTypeOK
      <3>3. /\ stop \in {"idle", "paging", "done"}
            /\ page.offset + PageSize \in Nat
            /\ page.seen \cup full \in SUBSET Rows
            /\ page.steady \in SUBSET Rows
        BY <2>1, <3>2, PageAssumption
      <3>4. page' = [state |-> stop, offset |-> page.offset + PageSize,
                     seen |-> page.seen \cup full, steady |-> page.steady]
        <4> HIDE DEF stop, full
        <4> QED BY <3>1, <3>2
      <3> HIDE DEF stop, full
      <3> QED BY <3>3, <3>4
    <2> QED BY <1>t, <1>7, <2>2 DEF NextPage, HistoryTypeOK
  <1> QED BY <1>1, <1>2, <1>3, <1>4, <1>5, <1>6, <1>7 DEF HistoryNext

LEMMA BegunStep == HistoryIInv /\ [HistoryNext]_historyVars => IsFiniteSet(Begun')
  <1> SUFFICES ASSUME HistoryIInv, [HistoryNext]_historyVars PROVE IsFiniteSet(Begun')
    OBVIOUS
  <1>0. IsFiniteSet(Begun) /\ HistoryTypeOK
    BY DEF HistoryIInv
  <1>1. ASSUME NEW s \in Snapshots,
               \/ SnapshotBegins(s) \/ SnapshotListed(s) \/ SnapshotInserted(s) \/ SnapshotFails(s)
        PROVE  Begun' \in SUBSET (Begun \cup {s})
    BY <1>0, <1>1 DEF Begun, SnapshotBegins, SnapshotListed, SnapshotInserted, SnapshotFails,
                      HistoryTypeOK
  <1>2. \A s \in Snapshots : IsFiniteSet(Begun \cup {s})
    BY <1>0, FS_AddElement
  <1>3. CASE UNCHANGED snapshot
    BY <1>0, <1>3 DEF Begun
  <1> QED BY <1>1, <1>2, <1>3, FS_Subset
          DEF HistoryNext, historyVars, Tick, PagingBegins, NextPage, PurgeHistory

\* A row that comes has a number greater than all.
LEMMA NumbersStep == HistoryIInv /\ [HistoryNext]_historyVars => NumbersDiffer'
  <1> SUFFICES ASSUME HistoryIInv, [HistoryNext]_historyVars PROVE NumbersDiffer'
    OBVIOUS
  <1>0. HistoryTypeOK /\ NumbersDiffer
    BY DEF HistoryIInv
  <1>1. ASSUME NEW s \in Snapshots, SnapshotInserted(s) PROVE NumbersDiffer'
    <2> DEFINE listed == snapshot[s].listed
               new    == RowsOf(s, listed)
    <2>1. listed \in SUBSET Users
      BY <1>0 DEF HistoryTypeOK
    <2>2. RowPerUser(new, s, listed)
      BY <1>0, <2>1, RowsOfSnapshot
    <2>3. rows' = rows \cup new
      BY <1>1 DEF SnapshotInserted
    <2> HIDE DEF new, listed
    <2>4. ASSUME NEW r \in rows, NEW q \in new PROVE r.id < q.id
      <3>1. r.id \in Nat /\ q.id \in Nat /\ lastId \in Nat /\ r.id <= lastId /\ lastId < q.id
        BY <1>0, <2>2 DEF HistoryTypeOK, RowPerUser, Rows
      <3> QED BY <3>1
    <2>5. \A r \in rows \cup new : r.id \in Nat
      BY <1>0, <2>2 DEF HistoryTypeOK, RowPerUser, Rows
    <2> SUFFICES ASSUME NEW r \in rows', NEW q \in rows', r.id = q.id PROVE r = q
      BY DEF NumbersDiffer
    <2>6. CASE r \in rows /\ q \in rows
      BY <1>0, <2>6 DEF NumbersDiffer
    <2>7. CASE r \in new /\ q \in new
      BY <2>2, <2>7 DEF RowPerUser
    <2>8. CASE (r \in rows /\ q \in new) \/ (r \in new /\ q \in rows)
      BY <2>4, <2>5, <2>8
    <2> QED BY <2>3, <2>6, <2>7, <2>8
  <1>2. CASE rows' \subseteq rows
    BY <1>0, <1>2 DEF NumbersDiffer
  <1> QED BY <1>1, <1>2 DEF HistoryNext, historyVars, Tick, PagingBegins, NextPage, PurgeHistory,
             SnapshotBegins, SnapshotListed, SnapshotFails

LEMMA PastStep == HistoryIInv /\ [HistoryNext]_historyVars => InThePast'
  <1> SUFFICES ASSUME HistoryIInv, [HistoryNext]_historyVars PROVE InThePast'
    OBVIOUS
  <1>0. HistoryTypeOK /\ InThePast
    BY DEF HistoryIInv
  <1>c. /\ clock \in Nat /\ purged \in Nat /\ \A s \in Snapshots : snapshot[s].at \in Nat
    BY <1>0 DEF HistoryTypeOK, Times
  <1>1. CASE Tick
    BY <1>0, <1>c, <1>1 DEF Tick, InThePast
  <1>2. ASSUME NEW s \in Snapshots,
               \/ SnapshotBegins(s) \/ SnapshotListed(s) \/ SnapshotInserted(s) \/ SnapshotFails(s)
        PROVE  InThePast'
    <2>1. \A o \in Snapshots : snapshot'[o].at \in {snapshot[o].at, clock}
      BY <1>0, <1>2 DEF SnapshotBegins, SnapshotListed, SnapshotInserted, SnapshotFails, HistoryTypeOK
    <2>2. UNCHANGED <<clock, purged>>
      BY <1>2 DEF SnapshotBegins, SnapshotListed, SnapshotInserted, SnapshotFails
    <2> QED BY <1>0, <1>c, <2>1, <2>2 DEF InThePast
  <1>3. ASSUME NEW before \in Cutoffs, PurgeHistory(before) PROVE InThePast'
    <2>1. purged' <= clock
      BY <1>0, <1>3, PurgedTime
    <2> QED BY <1>0, <1>3, <2>1 DEF PurgeHistory, InThePast
  <1>4. CASE UNCHANGED <<clock, snapshot, purged>>
    BY <1>0, <1>4 DEF InThePast
  <1> QED BY <1>1, <1>2, <1>3, <1>4 DEF HistoryNext, historyVars, PagingBegins, NextPage

LEMMA OvertakesStep == HistoryIInv /\ [HistoryNext]_historyVars => Overtakes'
  <1> SUFFICES ASSUME HistoryIInv, [HistoryNext]_historyVars PROVE Overtakes'
    OBVIOUS
  <1>0. HistoryTypeOK /\ InThePast /\ Overtakes
    BY DEF HistoryIInv
  <1>c. /\ clock \in Nat /\ purged \in Nat /\ purged <= clock
        /\ \A s \in Snapshots : snapshot[s].at \in Nat
    BY <1>0 DEF HistoryTypeOK, Times, InThePast
  <1>1. ASSUME NEW s \in Snapshots,
               \/ SnapshotBegins(s) \/ SnapshotListed(s) \/ SnapshotInserted(s) \/ SnapshotFails(s)
        PROVE  Overtakes'
    <2>1. /\ UNCHANGED <<purged, overtaken>>
          /\ \A o \in Snapshots \ {s} : snapshot'[o] = snapshot[o]
          /\ snapshot'[s].state # "idle"
      BY <1>0, <1>1 DEF SnapshotBegins, SnapshotListed, SnapshotInserted, SnapshotFails, HistoryTypeOK
    <2>2. \/ snapshot'[s].at = clock
          \/ /\ snapshot'[s].at = snapshot[s].at
             /\ snapshot[s].state \in {"listing", "inserting"}
      BY <1>0, <1>1 DEF SnapshotBegins, SnapshotListed, SnapshotInserted, SnapshotFails, HistoryTypeOK
    <2>3. ~(clock < purged)
      BY <1>c
    <2>4. ASSUME NEW o \in Snapshots,
                 snapshot'[o].state \in {"listing", "inserting"}, snapshot'[o].at < purged
          PROVE  o \in overtaken
      BY <1>0, <2>1, <2>2, <2>3, <2>4 DEF Overtakes
    <2>5. ASSUME NEW o \in overtaken PROVE o \in Begun'
      BY <1>0, <2>1 DEF Overtakes, Begun, HistoryTypeOK
    <2> QED BY <2>1, <2>4, <2>5 DEF Overtakes
  <1>2. ASSUME NEW before \in Cutoffs, PurgeHistory(before) PROVE Overtakes'
    <2>1. /\ snapshot' = snapshot
          /\ overtaken' = overtaken
               \cup {s \in Snapshots : /\ snapshot[s].state \in {"listing", "inserting"}
                                       /\ snapshot[s].at < before}
      BY <1>2 DEF PurgeHistory
    <2>2. before \in Nat /\ purged' \in Nat /\ (purged' = purged \/ purged' <= before)
      BY <1>0, <1>2, PurgedTime, TimeAssumption DEF Times, Cutoffs
    <2>3. ASSUME NEW s \in Snapshots,
                 snapshot[s].state \in {"listing", "inserting"}, snapshot[s].at < purged'
          PROVE  s \in overtaken'
      <3>1. snapshot[s].at < purged \/ snapshot[s].at < before
        BY <1>c, <2>2, <2>3
      <3> QED BY <1>0, <2>1, <2>3, <3>1 DEF Overtakes
    <2>4. ASSUME NEW s \in overtaken' PROVE s \in Begun
      BY <1>0, <2>1 DEF Overtakes, Begun, HistoryTypeOK
    <2> QED BY <2>1, <2>3, <2>4 DEF Overtakes, Begun
  <1>3. CASE UNCHANGED <<snapshot, purged, overtaken>>
    BY <1>0, <1>3 DEF Overtakes, Begun
  <1> QED BY <1>1, <1>2, <1>3 DEF HistoryNext, historyVars, Tick, PagingBegins, NextPage

\* A row that comes after a purge and is older is that of a snapshot the purge
\* overtook; a purge leaves none that is older than itself.
LEMMA FinalStep == HistoryIInv /\ [HistoryNext]_historyVars => PurgeIsFinal'
  <1> SUFFICES ASSUME HistoryIInv, [HistoryNext]_historyVars PROVE PurgeIsFinal'
    OBVIOUS
  <1>0. HistoryTypeOK /\ InThePast /\ Overtakes /\ PurgeIsFinal
    BY DEF HistoryIInv
  <1>o. ASSUME NEW s \in overtaken, NEW o \in Snapshots,
               \/ SnapshotBegins(o) \/ SnapshotListed(o) \/ SnapshotInserted(o) \/ SnapshotFails(o)
        PROVE  snapshot'[s].at = snapshot[s].at
    <2>1. s \in Snapshots /\ snapshot[s].state # "idle"
      BY <1>0 DEF HistoryTypeOK, Overtakes, Begun
    <2> QED BY <1>0, <1>o, <2>1
            DEF SnapshotBegins, SnapshotListed, SnapshotInserted, SnapshotFails, HistoryTypeOK
  <1>1. ASSUME NEW s \in Snapshots, SnapshotInserted(s) PROVE PurgeIsFinal'
    <2> DEFINE listed == snapshot[s].listed
               new    == RowsOf(s, listed)
    <2>1. listed \in SUBSET Users
      BY <1>0 DEF HistoryTypeOK
    <2>2. RowPerUser(new, s, listed)
      BY <1>0, <2>1, RowsOfSnapshot
    <2>3. rows' = rows \cup new /\ UNCHANGED <<purged, overtaken>> /\ snapshot[s].state = "inserting"
      BY <1>1 DEF SnapshotInserted
    <2> HIDE DEF new, listed
    <2>4. \A o \in overtaken : snapshot'[o].at = snapshot[o].at
      BY <1>1, <1>o
    <2>5. ASSUME NEW r \in new, r.snapshot_at < purged
          PROVE  s \in overtaken /\ snapshot[s].at = r.snapshot_at
      BY <1>0, <2>2, <2>3, <2>5 DEF RowPerUser, Overtakes
    <2> SUFFICES ASSUME NEW r \in rows \cup new, r.snapshot_at < purged
                 PROVE  \E o \in overtaken : snapshot'[o].at = r.snapshot_at
      BY <2>3 DEF PurgeIsFinal
    <2>6. \E o \in overtaken : snapshot[o].at = r.snapshot_at
      BY <1>0, <2>5 DEF PurgeIsFinal
    <2> QED BY <2>4, <2>6
  <1>2. ASSUME NEW s \in Snapshots, SnapshotBegins(s) \/ SnapshotListed(s) \/ SnapshotFails(s)
        PROVE  PurgeIsFinal'
    <2>1. UNCHANGED <<rows, purged, overtaken>>
      BY <1>2 DEF SnapshotBegins, SnapshotListed, SnapshotFails
    <2>2. \A o \in overtaken : snapshot'[o].at = snapshot[o].at
      BY <1>2, <1>o
    <2> QED BY <1>0, <2>1, <2>2 DEF PurgeIsFinal
  <1>3. ASSUME NEW before \in Cutoffs, PurgeHistory(before) PROVE PurgeIsFinal'
    <2>1. /\ snapshot' = snapshot /\ overtaken \subseteq overtaken'
          /\ rows' = {r \in rows : ~(r.snapshot_at < before)}
      BY <1>3 DEF PurgeHistory, Older
    <2>2. before \in Nat /\ purged' \in Nat /\ (purged' = purged \/ purged' <= before)
      BY <1>0, <1>3, PurgedTime, TimeAssumption DEF Times, Cutoffs
    <2> SUFFICES ASSUME NEW r \in rows', r.snapshot_at < purged'
                 PROVE  \E o \in overtaken' : snapshot[o].at = r.snapshot_at
      BY <2>1 DEF PurgeIsFinal
    <2>3. r \in rows /\ r.snapshot_at \in Nat /\ ~(r.snapshot_at < before)
      BY <1>0, <2>1 DEF HistoryTypeOK, Rows, Times
    <2>4. r.snapshot_at < purged
      BY <2>2, <2>3
    <2> QED BY <1>0, <2>1, <2>3, <2>4 DEF PurgeIsFinal
  <1>4. CASE UNCHANGED <<rows, snapshot, purged, overtaken>>
    BY <1>0, <1>4 DEF PurgeIsFinal
  <1> QED BY <1>1, <1>2, <1>3, <1>4 DEF HistoryNext, historyVars, Tick, PagingBegins, NextPage

\* A snapshot is inserted whole, and a purge deletes a time whole.
LEMMA WholeStep == HistoryIInv /\ [HistoryNext]_historyVars => WholeSnapshots'
  <1> SUFFICES ASSUME HistoryIInv, [HistoryNext]_historyVars, NEW t \in Times PROVE Whole(t)'
    <2>1. WholeSnapshots' <=> \A t \in Times : Whole(t)'
      BY DEF WholeSnapshots, Whole, RowsAt, DoneAt, Holding, Times
    <2> QED BY <2>1
  <1>0. HistoryTypeOK /\ IsFiniteSet(Begun) /\ Whole(t)
    BY WholeMeans DEF HistoryIInv
  <1>k. PICK kept \in SUBSET DoneAt(t) :
          \A u \in Users : Cardinality(RowsAt(t, u)) = Cardinality(Holding(kept, u))
    BY <1>0 DEF Whole
  <1>1. ASSUME NEW s \in Snapshots, SnapshotBegins(s) \/ SnapshotListed(s) \/ SnapshotFails(s)
        PROVE  Whole(t)'
    <2>1. rows' = rows /\ \A o \in DoneAt(t) : o \in DoneAt(t)' /\ snapshot'[o] = snapshot[o]
      BY <1>0, <1>1 DEF SnapshotBegins, SnapshotListed, SnapshotFails, HistoryTypeOK, DoneAt
    <2>2. kept \in SUBSET DoneAt(t)'
      BY <1>k, <2>1
    <2>3. \A u \in Users : RowsAt(t, u)' = RowsAt(t, u) /\ Holding(kept, u)' = Holding(kept, u)
      BY <1>k, <2>1 DEF RowsAt, Holding
    <2> QED BY <1>k, <2>2, <2>3 DEF Whole
  <1>2. ASSUME NEW s \in Snapshots, SnapshotInserted(s) PROVE Whole(t)'
    <2> DEFINE listed == snapshot[s].listed
               new    == RowsOf(s, listed)
    <2>1. listed \in SUBSET Users
      BY <1>0 DEF HistoryTypeOK
    <2>2. RowPerUser(new, s, listed)
      BY <1>0, <2>1, RowsOfSnapshot
    <2>3. rows' = rows \cup new
      BY <1>2 DEF SnapshotInserted
    <2>4. /\ snapshot[s].state = "inserting" /\ snapshot'[s].state = "done"
          /\ snapshot'[s].at = snapshot[s].at
          /\ \A o \in Snapshots : snapshot'[o].listed = snapshot[o].listed
          /\ \A o \in Snapshots \ {s} : snapshot'[o] = snapshot[o]
      BY <1>0, <1>2 DEF SnapshotInserted, HistoryTypeOK
    <2>5. s \notin kept /\ kept \subseteq DoneAt(t)' /\ kept \subseteq Snapshots
      BY <1>k, <2>4 DEF DoneAt
    <2>6. CASE snapshot[s].at # t
      <3>1. \A u \in Users : RowsAt(t, u)' = RowsAt(t, u)
        BY <2>2, <2>3, <2>6 DEF RowsAt, RowPerUser
      <3>2. \A u \in Users : Holding(kept, u)' = Holding(kept, u)
        BY <2>4, <2>5 DEF Holding
      <3>3. kept \in SUBSET DoneAt(t)'
        BY <2>5
      <3> QED BY <1>k, <3>1, <3>2, <3>3 DEF Whole
    <2>7. CASE snapshot[s].at = t
      <3> DEFINE more == kept \cup {s}
      <3>1. more \in SUBSET DoneAt(t)'
        BY <2>4, <2>5, <2>7 DEF DoneAt
      <3>2. ASSUME NEW u \in Users
            PROVE  Cardinality(RowsAt(t, u)') = Cardinality(Holding(more, u)')
        <4>1. Holding(more, u)' = IF u \in listed THEN Holding(kept, u) \cup {s} ELSE Holding(kept, u)
          BY <2>4, <2>5 DEF Holding
        <4>2. s \notin Holding(kept, u) /\ IsFiniteSet(Holding(kept, u))
          <5>1. Holding(kept, u) \in SUBSET Begun
            BY <1>k DEF Holding, DoneAt, Begun
          <5>2. IsFiniteSet(Holding(kept, u))
            BY <1>0, <5>1, FS_Subset
          <5> QED BY <2>5, <5>2 DEF Holding
        <4>3. IsFiniteSet(RowsAt(t, u))
          <5>1. RowsAt(t, u) \in SUBSET rows
            BY DEF RowsAt
          <5> QED BY <1>0, <5>1, FS_Subset DEF HistoryTypeOK
        <4>4. CASE u \notin listed
          <5>1. RowsAt(t, u)' = RowsAt(t, u)
            BY <2>2, <2>3, <4>4 DEF RowsAt, RowPerUser
          <5> QED BY <1>k, <4>1, <4>4, <5>1
        <4>5. CASE u \in listed
          <5>1. PICK r \in new : r.username = u
            BY <2>2, <4>5 DEF RowPerUser
          <5>2. /\ r.snapshot_at = t /\ r.id \in Nat /\ lastId \in Nat /\ lastId < r.id
                /\ \A q \in new : q.username = u => q = r
            BY <1>0, <2>2, <2>7, <5>1 DEF RowPerUser, Rows, HistoryTypeOK
          <5>3. RowsAt(t, u)' = RowsAt(t, u) \cup {r}
            <6> HIDE DEF new, listed
            <6> QED BY <2>3, <5>1, <5>2 DEF RowsAt
          <5>4. r \notin RowsAt(t, u)
            BY <1>0, <5>2 DEF RowsAt, HistoryTypeOK
          <5>5. Cardinality(RowsAt(t, u) \cup {r}) = Cardinality(RowsAt(t, u)) + 1
            BY <4>3, <5>4, FS_AddElement
          <5>6. Cardinality(Holding(kept, u) \cup {s}) = Cardinality(Holding(kept, u)) + 1
            BY <4>2, FS_AddElement
          <5> QED BY <1>k, <4>1, <4>5, <5>3, <5>5, <5>6
        <4> QED BY <4>4, <4>5
      <3> HIDE DEF more
      <3> QED BY <3>1, <3>2 DEF Whole
    <2> QED BY <2>6, <2>7
  <1>3. ASSUME NEW before \in Cutoffs, PurgeHistory(before) PROVE Whole(t)'
    <2>1. snapshot' = snapshot /\ rows' = {r \in rows : ~(r.snapshot_at < before)}
      BY <1>3 DEF PurgeHistory, Older
    <2>2. CASE t < before
      <3>1. {} \in SUBSET DoneAt(t)'
        OBVIOUS
      <3>2. \A u \in Users : RowsAt(t, u)' = {} /\ Holding({}, u)' = {}
        BY <2>1, <2>2 DEF RowsAt, Holding
      <3> QED BY <3>1, <3>2 DEF Whole
    <2>3. CASE ~(t < before)
      <3>1. \A u \in Users : RowsAt(t, u)' = RowsAt(t, u)
        BY <2>1, <2>3 DEF RowsAt
      <3>2. \A u \in Users : Holding(kept, u)' = Holding(kept, u)
        BY <2>1 DEF Holding
      <3>3. kept \in SUBSET DoneAt(t)'
        BY <2>1 DEF DoneAt
      <3> QED BY <1>k, <3>1, <3>2, <3>3 DEF Whole
    <2> QED BY <2>2, <2>3
  <1>4. CASE UNCHANGED <<rows, snapshot>>
    <2>1. kept \in SUBSET DoneAt(t)'
      BY <1>k, <1>4 DEF DoneAt
    <2>2. \A u \in Users : RowsAt(t, u)' = RowsAt(t, u) /\ Holding(kept, u)' = Holding(kept, u)
      BY <1>4 DEF RowsAt, Holding
    <2> QED BY <1>k, <2>1, <2>2 DEF Whole
  <1> QED BY <1>1, <1>2, <1>3, <1>4 DEF HistoryNext, historyVars, Tick, PagingBegins, NextPage

\* What is inserted only pushes the rows that are there further back.
LEMMA RanksRise ==
  ASSUME HistoryTypeOK, IsFiniteSet(rows'), rows \subseteq rows', NEW r \in rows, r \in rows'
  PROVE  Rank(r)' \in Nat /\ Rank(r) <= Rank(r)'
  <1> DEFINE P == {q \in rows : Before(q, r)}
             R == {q \in rows' : Before(q, r)}
  <1>1. R \in SUBSET rows' /\ P \in SUBSET R
    OBVIOUS
  <1>2. Rank(r) = Cardinality(P) /\ Rank(r)' = Cardinality(R)
    BY DEF Rank, Before
  <1> HIDE DEF P, R
  <1>3. IsFiniteSet(R)
    BY <1>1, FS_Subset
  <1>4. IsFiniteSet(P) /\ Cardinality(P) <= Cardinality(R) /\ Cardinality(R) \in Nat
    BY <1>1, <1>3, FS_Subset, FS_CardinalityType
  <1> QED BY <1>2, <1>4

LEMMA StillStep == HistoryIInv /\ [HistoryNext]_historyVars => StillToCome'
  <1> SUFFICES ASSUME HistoryIInv, [HistoryNext]_historyVars PROVE StillToCome'
    OBVIOUS
  <1>0. HistoryTypeOK /\ NumbersDiffer /\ StillToCome
    BY DEF HistoryIInv
  <1>t. HistoryTypeOK'
    BY HistoryTypeStep
  <1>1. CASE UNCHANGED <<rows, page>>
    <2>1. \A r \in rows : Rank(r)' = Rank(r)
      BY <1>1 DEF Rank, Before
    <2> QED BY <1>0, <1>1, <2>1 DEF StillToCome
  <1>2. CASE PagingBegins
    <2>1. page' = [state |-> "paging", offset |-> 0, seen |-> {}, steady |-> rows] /\ rows' = rows
      BY <1>2 DEF PagingBegins
    <2>2. \A r \in rows : Rank(r)' = Rank(r)
      BY <2>1 DEF Rank, Before
    <2>3. \A r \in rows : Rank(r)' >= 0
      BY <1>0, <2>2, RankTypes
    <2> QED BY <2>1, <2>3 DEF StillToCome
  <1>3. CASE NextPage
    <2> DEFINE full == PageAt(page.offset)
               stop == IF Cardinality(full) < PageSize THEN "done" ELSE page.state
    <2>1. /\ page.state = "paging" /\ rows' = rows
          /\ page' = [page EXCEPT !.offset = @ + PageSize, !.seen = @ \cup full, !.state = stop]
      BY <1>3 DEF NextPage
    <2>2. page \in [state : {"idle", "paging", "done"}, offset : Nat,
                    seen : SUBSET Rows, steady : SUBSET Rows]
      BY <1>0 DEF HistoryTypeOK
    <2>3. page' = [state |-> stop, offset |-> page.offset + PageSize,
                   seen |-> page.seen \cup full, steady |-> page.steady]
      <3> HIDE DEF stop, full
      <3> QED BY <2>1, <2>2
    <2>4. \A r \in rows : Rank(r)' = Rank(r)
      BY <2>1 DEF Rank, Before
    <2>5. ASSUME NEW r \in page.steady
          PROVE  /\ r \in rows
                 /\ \/ r \in page.seen \/ r \in full
                    \/ Rank(r) >= page.offset + PageSize
      <3>1. r \in rows /\ (r \in page.seen \/ Rank(r) >= page.offset)
        BY <1>0, <2>1, <2>5 DEF StillToCome
      <3>2. Rank(r) \in Nat /\ page.offset \in Nat /\ PageSize \in Nat
        BY <1>0, <2>2, <3>1, RankTypes, PageAssumption
      <3>3. CASE Rank(r) >= page.offset /\ ~(Rank(r) >= page.offset + PageSize)
        <4>1. page.offset <= Rank(r) /\ Rank(r) < page.offset + PageSize
          BY <3>2, <3>3
        <4> QED BY <3>1, <4>1 DEF PageAt, Rank
      <3> QED BY <3>1, <3>3
    <2>6. ASSUME Cardinality(full) < PageSize, NEW r \in page.steady
          PROVE  ~(Rank(r) >= page.offset + PageSize)
      <3>1. r \in rows
        BY <2>5
      <3>2. page.offset \in Nat /\ PageSize \in Nat
        BY <2>2, PageAssumption
      <3>3. IsFiniteSet(full)
        <4>1. full \in SUBSET rows /\ IsFiniteSet(rows)
          BY <1>0 DEF PageAt, HistoryTypeOK
        <4> QED BY <4>1, FS_Subset
      <3>4. Cardinality(full) \in Nat
        BY <3>3, FS_CardinalityType
      <3>5. Rank(r) >= page.offset + PageSize => Cardinality(full) >= PageSize
        BY <1>0, <3>1, <3>2, PageIsFull
      <3> HIDE DEF full
      <3> QED BY <2>6, <3>2, <3>4, <3>5
    <2>7. CASE Cardinality(full) < PageSize
      <3>1. page'.state = "done" /\ page'.steady = page.steady /\ page'.seen = page.seen \cup full
        BY <2>3, <2>7
      <3>2. page.steady \subseteq page.seen \cup full
        BY <2>5, <2>6, <2>7
      <3> QED BY <3>1, <3>2 DEF StillToCome
    <2>8. CASE ~(Cardinality(full) < PageSize)
      <3>1. /\ page'.state = "paging" /\ page'.steady = page.steady
            /\ page'.seen = page.seen \cup full /\ page'.offset = page.offset + PageSize
        BY <2>1, <2>3, <2>8
      <3>2. \A r \in page'.steady : r \in rows' /\ (r \in page'.seen \/ Rank(r)' >= page'.offset)
        <4> HIDE DEF full
        <4> QED BY <2>1, <2>4, <2>5, <3>1
      <3> QED BY <3>1, <3>2 DEF StillToCome
    <2> QED BY <2>7, <2>8
  <1>4. ASSUME NEW s \in Snapshots, SnapshotInserted(s) PROVE StillToCome'
    <2>1. page' = page /\ rows \subseteq rows'
      BY <1>4 DEF SnapshotInserted
    <2>2. CASE page.state = "paging"
      <3> SUFFICES ASSUME NEW r \in page.steady
                   PROVE  r \in rows' /\ (r \in page.seen \/ Rank(r)' >= page.offset)
        BY <2>1, <2>2 DEF StillToCome
      <3>1. r \in rows /\ (r \in page.seen \/ Rank(r) >= page.offset)
        BY <1>0, <2>2 DEF StillToCome
      <3>2. Rank(r)' \in Nat /\ Rank(r) <= Rank(r)' /\ r \in rows'
        BY <1>0, <1>t, <2>1, <3>1, RanksRise DEF HistoryTypeOK
      <3>3. Rank(r) \in Nat /\ page.offset \in Nat
        BY <1>0, <3>1, RankTypes DEF HistoryTypeOK
      <3> QED BY <3>1, <3>2, <3>3
    <2> QED BY <1>0, <2>1, <2>2 DEF StillToCome
  <1>5. ASSUME NEW before \in Cutoffs, PurgeHistory(before) PROVE StillToCome'
    <2>1. rows' = rows \ Older(before) /\ page' = [page EXCEPT !.steady = @ \ Older(before)]
      BY <1>5 DEF PurgeHistory
    <2>2. /\ page'.state = page.state /\ page'.offset = page.offset /\ page'.seen = page.seen
          /\ page'.steady = page.steady \ Older(before)
      BY <1>0, <2>1 DEF HistoryTypeOK
    <2>3. ASSUME NEW r \in rows, r \notin Older(before) PROVE Rank(r)' = Rank(r)
      <3>1. r \in Rows /\ rows \subseteq Rows /\ before \in Nat
        BY <1>0, TimeAssumption DEF HistoryTypeOK, Times, Cutoffs
      <3>2. ASSUME NEW q \in rows, Before(q, r) PROVE q \notin Older(before)
        BY <2>3, <3>1, <3>2 DEF Before, Older, Rows, Times
      <3>3. {q \in rows' : Before(q, r)} = {q \in rows : Before(q, r)}
        BY <2>1, <3>2
      <3> QED BY <3>3 DEF Rank, Before
    <2>4. CASE page.state = "paging"
      <3> SUFFICES ASSUME NEW r \in page.steady \ Older(before)
                   PROVE  r \in rows' /\ (r \in page.seen \/ Rank(r)' >= page.offset)
        BY <2>2, <2>4 DEF StillToCome
      <3>1. r \in rows /\ (r \in page.seen \/ Rank(r) >= page.offset)
        BY <1>0, <2>4 DEF StillToCome
      <3> QED BY <2>1, <2>3, <3>1
    <2> QED BY <1>0, <2>2, <2>4 DEF StillToCome
  <1> QED BY <1>1, <1>2, <1>3, <1>4, <1>5
          DEF HistoryNext, historyVars, Tick, SnapshotBegins, SnapshotListed, SnapshotFails

LEMMA HistoryInvariance == HistorySpec => []HistoryIInv
  <1>1. HistoryInit => HistoryIInv
    BY HistoryInitIInv
  <1>2. HistoryIInv /\ [HistoryNext]_historyVars => HistoryIInv'
    <2> SUFFICES ASSUME HistoryIInv, [HistoryNext]_historyVars PROVE HistoryIInv'
      OBVIOUS
    <2>1. HistoryTypeOK' /\ IsFiniteSet(Begun')
      BY HistoryTypeStep, BegunStep
    <2>2. NumbersDiffer' /\ InThePast' /\ Overtakes'
      BY NumbersStep, PastStep, OvertakesStep
    <2>3. PurgeIsFinal' /\ WholeSnapshots' /\ StillToCome'
      BY FinalStep, WholeStep, StillStep
    <2> QED BY <2>1, <2>2, <2>3 DEF HistoryIInv
  <1> QED BY <1>1, <1>2, PTL DEF HistorySpec

\* The rows are finitely many, their numbers are below AUTOINCREMENT's next,
\* and nothing lies outside of the times of the clock.
THEOREM HistoryTypeCorrect == HistorySpec => []HistoryTypeOK
  <1>1. HistoryIInv => HistoryTypeOK
    BY DEF HistoryIInv
  <1> QED BY <1>1, HistoryInvariance, PTL

\* However listings, inserts, failures and purges interleave, each snapshot is
\* in the history with all of its users or with none.
THEOREM SnapshotsAreWhole == HistorySpec => []WholeSnapshots
  <1>1. HistoryIInv => WholeSnapshots
    BY DEF HistoryIInv
  <1> QED BY <1>1, HistoryInvariance, PTL

\* A stamp that a purge has deleted does not come back, but for the snapshots
\* that had taken their time before the purge and were inserted after it: in
\* the order of the stamps, whatever the cutoff was meant to say.
THEOREM PurgesAreFinal == HistorySpec => []PurgeIsFinal
  <1>1. HistoryIInv => PurgeIsFinal
    BY DEF HistoryIInv
  <1> QED BY <1>1, HistoryInvariance, PTL

\* OFFSET counts from the latest row: inserts only push rows back and purges
\* only cut the tail, so a client that reads on until a page is not full has
\* seen every row that was there from its first page to its last.
THEOREM PagesMissNothing == HistorySpec => []PagingMissesNothing
  <1>1. HistoryIInv => PagingMissesNothing
    BY DEF HistoryIInv, StillToCome, PagingMissesNothing
  <1> QED BY <1>1, HistoryInvariance, PTL

-----------------------------------------------------------------------------
(* The editors of sections.  Each is a pass over the lines of the file that *)
(* carries what it has written; what it has written is compared, a line at *)
(* a time, with the lines it has passed.                                   *)


\* The two readings of a configuration file, as passes over its placed lines.
Values(placed, section, opt) ==
  FoldLeft(LAMBDA found, p : EntriesStep(found, p, section, opt), << >>, placed)
Strangers(placed, e) == FoldLeft(LAMBDA kept, p : OthersStep(kept, p, e), << >>, placed)

\* The provers cannot take a step as a parameter, but they can take its name.
Step(name, a, x, u, v) ==
  CASE name = "placed"      -> PlacedStep(a, x)
    [] name = "values"      -> EntriesStep(a, x, u, v)
    [] name = "others"      -> OthersStep(a, x, u)
    [] name = "without"     -> IF x = u THEN a ELSE Append(a, x)
    [] name = "missing"     -> MissingStep(a, x, u, v)
    [] name = "add_pool"    -> AddPoolStep(a, x, u)
    [] name = "remove_pool" -> RemovePoolStep(a, x, u)
    [] name = "rebuild"     -> RebuildStep(a, x, u)
    [] name = "set_keys"    -> SetKeysStep(a, x, u, v)

\* The pass of a step over the lines g.
Pass(name, u, v, base, g) == FoldLeft(LAMBDA a, x : Step(name, a, x, u, v), base, g)

LEMMA ReadingPasses ==
  /\ \A f : Placed(f) = Pass("placed", 0, 0, << >>, f)
  /\ \A placed, section, opt : Values(placed, section, opt) = Pass("values", section, opt, << >>, placed)
  /\ \A placed, e : Strangers(placed, e) = Pass("others", e, 0, << >>, placed)
  /\ \A names, name : Without(names, name) = Pass("without", name, 0, << >>, names)
<1>1. ASSUME NEW f PROVE Placed(f) = Pass("placed", 0, 0, << >>, f)
  BY DEF Placed, Pass, Step, FoldLeft, MapThenFoldSet
<1>2. ASSUME NEW placed, NEW section, NEW opt
      PROVE  Values(placed, section, opt) = Pass("values", section, opt, << >>, placed)
  BY DEF Values, Pass, Step, FoldLeft, MapThenFoldSet
<1>3. ASSUME NEW placed, NEW e
      PROVE  Strangers(placed, e) = Pass("others", e, 0, << >>, placed)
  BY DEF Strangers, Pass, Step, FoldLeft, MapThenFoldSet
<1>4. ASSUME NEW names, NEW name
      PROVE  Without(names, name) = Pass("without", name, 0, << >>, names)
  BY DEF Without, Pass, Step, FoldLeft, MapThenFoldSet
<1> QED BY <1>1, <1>2, <1>3, <1>4

LEMMA WritingPasses ==
  ASSUME NEW f
  PROVE  /\ \A name : AddPool(f, name) = PoolAdded(Pass("add_pool", name, 0, Start, f), name)
         /\ \A name : RemovePool(f, name) = Pass("remove_pool", name, 0, Start, f).out
         /\ \A names : Rebuild(f, names) = Listed(Pass("rebuild", names, 0, Start, f), names)
         /\ \A wanted, afresh : SetKeys(f, wanted, afresh) =
              Completed(Pass("set_keys", wanted, afresh, Start, f), wanted)
         /\ \A a, wanted : Completed(a, wanted) =
              IF a.in THEN Pass("missing", wanted, a.done, a.out, KeyOrder) ELSE a.out
<1>1. ASSUME NEW name PROVE AddPool(f, name) = PoolAdded(Pass("add_pool", name, 0, Start, f), name)
  BY DEF AddPool, Pass, Step, FoldLeft, MapThenFoldSet
<1>2. ASSUME NEW name PROVE RemovePool(f, name) = Pass("remove_pool", name, 0, Start, f).out
  BY DEF RemovePool, Pass, Step, FoldLeft, MapThenFoldSet
<1>3. ASSUME NEW names PROVE Rebuild(f, names) = Listed(Pass("rebuild", names, 0, Start, f), names)
  BY DEF Rebuild, Pass, Step, FoldLeft, MapThenFoldSet
<1>4. ASSUME NEW wanted, NEW afresh
      PROVE  SetKeys(f, wanted, afresh) = Completed(Pass("set_keys", wanted, afresh, Start, f), wanted)
  BY DEF SetKeys, Pass, Step, FoldLeft, MapThenFoldSet
<1>5. ASSUME NEW a, NEW wanted
      PROVE  Completed(a, wanted) =
               IF a.in THEN Pass("missing", wanted, a.done, a.out, KeyOrder) ELSE a.out
  BY DEF Completed, Pass, Step, FoldLeft, MapThenFoldSet
<1> QED BY <1>1, <1>2, <1>3, <1>4, <1>5

\* The step stays among the accumulators X.
Closed(X, W, name, u, v) == \A x \in X, w \in W : Step(name, x, w, u, v) \in X

\* What a pass comes to, a line at a time.
LineByLine(X, W, name, u, v, base) ==
  /\ Pass(name, u, v, base, << >>) = base
  /\ \A g \in Seq(W) : Pass(name, u, v, base, g) \in X
  /\ \A g \in Seq(W), w \in W :
       Pass(name, u, v, base, Append(g, w)) = Step(name, Pass(name, u, v, base, g), w, u, v)

LEMMA PassByLine ==
  ASSUME NEW W, NEW X, NEW name, NEW u, NEW v, NEW base \in X, Closed(X, W, name, u, v)
  PROVE  LineByLine(X, W, name, u, v, base)
<1>0. \A x \in X, w \in W : Step(name, x, w, u, v) \in X
  BY DEF Closed
<1>1. ASSUME NEW g \in Seq(W)
      PROVE  \E at : /\ at[0] = base /\ Pass(name, u, v, base, g) = at[Len(g)]
                     /\ \A i \in 1..Len(g) : at[i] = Step(name, at[i - 1], g[i], u, v)
  <2> DEFINE n == Len(g)
             F == [p \in X \X (1..n) |-> Step(name, p[1], g[p[2]], u, v)]
             Eq(it) == it = [s \in SUBSET DOMAIN g |->
                               IF s = {} THEN base
                               ELSE Step(name, it[s \ {Max(s)}], g[Max(s)], u, v)]
             it == CHOOSE it : Eq(it)
             at == [i \in 0..n |-> it[1..i]]
  <2>1. n \in Nat /\ DOMAIN g = 1..n /\ \A i \in 1..n : g[i] \in W
    OBVIOUS
  <2>2. F \in [X \X (1..n) -> X] /\ \A x \in X, i \in 1..n : F[<<x, i>>] = Step(name, x, g[i], u, v)
    BY <1>0, <2>1
  <2>3. \E iter : Eq(iter)
    <3>1. PICK iter : IsFold(iter, n, X, base, F)
      <4> HIDE DEF F, n
      <4> QED BY <2>1, <2>2, FoldExists
    <3>2. iter = [s \in SUBSET (1..n) |->
                    IF s = {} THEN base ELSE Step(name, iter[s \ {Max(s)}], g[Max(s)], u, v)]
      <4> HIDE DEF F, n
      <4> QED BY <2>2, <3>1 DEF IsFold
    <3> QED BY <2>1, <3>2
  <2>4. Eq(it)
    <3> HIDE DEF Eq
    <3> QED BY <2>3
  <2>5. Pass(name, u, v, base, g) = it[DOMAIN g]
    BY DEF Pass, FoldLeft, MapThenFoldSet
  <2>6. it = [s \in SUBSET (1..n) |->
                IF s = {} THEN base ELSE Step(name, it[s \ {Max(s)}], g[Max(s)], u, v)]
    BY <2>1, <2>4
  <2> HIDE DEF it, n
  <2>7. at[0] = base /\ at[n] = it[1..n]
    BY <2>1, <2>6, UpTo
  <2>8. ASSUME NEW i \in 1..n PROVE at[i] = Step(name, at[i - 1], g[i], u, v)
    <3>1. /\ 1..i \in SUBSET (1..n) /\ 1..i # {} /\ Max(1..i) = i
          /\ (1..i) \ {i} = 1..(i - 1) /\ i \in 0..n /\ i - 1 \in 0..n
      BY <2>1, UpTo
    <3>2. it[1..i] = Step(name, it[1..(i - 1)], g[i], u, v)
      BY <2>6, <3>1
    <3> QED BY <3>1, <3>2
  <2> HIDE DEF at
  <2> QED BY <2>1, <2>5, <2>7, <2>8, Zenon DEF n
<1>2. Pass(name, u, v, base, << >>) = base
  <2>1. << >> \in Seq(W) /\ Len(<< >>) = 0
    OBVIOUS
  <2> QED BY <1>1, <2>1
<1>3. ASSUME NEW g \in Seq(W), NEW w \in W
      PROVE  Pass(name, u, v, base, Append(g, w)) = Step(name, Pass(name, u, v, base, g), w, u, v)
  <2> DEFINE h == Append(g, w)
  <2>1. /\ h \in Seq(W) /\ Len(h) = Len(g) + 1 /\ Len(g) \in Nat /\ h[Len(g) + 1] = w
        /\ (Len(g) + 1) - 1 = Len(g) /\ Len(g) + 1 \in 1..(Len(g) + 1)
        /\ \A i \in 1..Len(g) : i \in 1..(Len(g) + 1) /\ h[i] = g[i]
    OBVIOUS
  <2> HIDE DEF h
  <2>2. PICK p : /\ p[0] = base /\ Pass(name, u, v, base, g) = p[Len(g)]
                 /\ \A i \in 1..Len(g) : p[i] = Step(name, p[i - 1], g[i], u, v)
    BY <1>1
  <2>3. PICK q : /\ q[0] = base /\ Pass(name, u, v, base, h) = q[Len(h)]
                 /\ \A i \in 1..Len(h) : q[i] = Step(name, q[i - 1], h[i], u, v)
    BY <1>1, <2>1
  <2>4. p[Len(g)] = q[Len(g)]
    <3>1. ASSUME NEW i \in 1..Len(g), p[i - 1] = q[i - 1] PROVE p[i] = q[i]
      BY <2>1, <2>2, <2>3, <3>1
    <3> QED BY <2>1, <2>2, <2>3, <3>1, SameTrace
  <2>5. q[Len(g) + 1] = Step(name, q[Len(g)], w, u, v)
    BY <2>1, <2>3
  <2> QED BY <2>1, <2>2, <2>3, <2>4, <2>5 DEF h
<1>4. Seq(W) \subseteq {g \in Seq(W) : Pass(name, u, v, base, g) \in X}
  <2> DEFINE T == {g \in Seq(W) : Pass(name, u, v, base, g) \in X}
  <2>1. << >> \in T
    BY <1>2
  <2>2. ASSUME NEW g \in Seq(W), NEW w \in W, g \in T PROVE Append(g, w) \in T
    <3>1. Pass(name, u, v, base, g) \in X /\ Append(g, w) \in Seq(W)
      BY <2>2
    <3> QED BY <1>0, <1>3, <3>1
  <2> HIDE DEF T
  <2>3. Seq(W) \subseteq T
    BY <2>1, <2>2, SeqInduction
  <2> QED BY <2>3 DEF T
<1> QED BY <1>2, <1>3, <1>4 DEF LineByLine

-----------------------------------------------------------------------------
(* Reading a file, a line at a time.                                       *)


\* The section a file ends in, and the one a further line is in; where that
\* line then is; and what lines of L may come to.
Sec(f) == Section(Placed(f))
In(f, line) == IF line[1] = "[" THEN line[2] ELSE Sec(f)
At(f, line) == <<In(f, line), line[1], line[2]>>
Contents(L) == {line[2] : line \in L}
Sections(L) == Contents(L) \cup {""}
Placements(L) == Sections(L) \X {line[1] : line \in L} \X Contents(L)

LEMMA PlacedAppend ==
  ASSUME NEW L, NEW f \in Seq(L), NEW line \in L
  PROVE  /\ Placed(<< >>) = << >> /\ Sec(<< >>) = ""
         /\ Placed(f) \in Seq(Placements(L)) /\ At(f, line) \in Placements(L)
         /\ Placed(Append(f, line)) = Append(Placed(f), At(f, line))
         /\ Sec(Append(f, line)) = In(f, line)
<1> DEFINE P == Placements(L)
<1>1. ASSUME NEW placed \in Seq(P) PROVE Section(placed) \in Sections(L)
  <2>1. CASE placed = << >>
    BY <2>1 DEF Section, Sections
  <2>2. CASE placed # << >>
    <3>1. placed[Len(placed)] \in P
      <4> HIDE DEF P
      <4> QED BY <2>2
    <3>2. placed[Len(placed)][1] \in Sections(L)
      BY <3>1 DEF Placements
    <3> QED BY <2>2, <3>2 DEF Section, Last
  <2> QED BY <2>1, <2>2
<1>2. ASSUME NEW k \in L, NEW section \in Sections(L)
      PROVE  <<section, k[1], k[2]>> \in P
  <2>1. k[1] \in {l[1] : l \in L} /\ k[2] \in Contents(L)
    BY DEF Contents
  <2> QED BY <2>1 DEF Placements
<1>3. ASSUME NEW k \in L PROVE k[2] \in Sections(L)
  BY DEF Sections, Contents
<1> HIDE DEF P
<1>4. ASSUME NEW placed \in Seq(P), NEW k \in L
      PROVE  Step("placed", placed, k, 0, 0) \in Seq(P)
  BY <1>1, <1>2, <1>3 DEF Step, PlacedStep
<1>5. << >> \in Seq(P)
  OBVIOUS
<1> DEFINE X == Seq(P)
<1>6. LineByLine(X, L, "placed", 0, 0, << >>)
  <2>1. << >> \in X /\ Closed(X, L, "placed", 0, 0)
    BY <1>4, <1>5 DEF Closed
  <2> HIDE DEF X
  <2> QED BY <2>1, PassByLine
<1>7. /\ Placed(<< >>) = << >> /\ Placed(f) \in Seq(P)
      /\ Placed(Append(f, line)) = PlacedStep(Placed(f), line)
  BY <1>6, ReadingPasses DEF LineByLine, Step
<1>8. At(f, line) \in P
  BY <1>1, <1>2, <1>3, <1>7 DEF At, In, Sec
<1>9. PlacedStep(Placed(f), line) = Append(Placed(f), At(f, line))
  BY DEF PlacedStep, At, In, Sec
<1>10. Section(Append(Placed(f), At(f, line))) = In(f, line)
  <2> DEFINE placed == Append(Placed(f), At(f, line))
  <2>1. placed # << >> /\ placed[Len(placed)] = At(f, line)
    BY <1>7, <1>8
  <2> HIDE DEF placed
  <2>2. Section(placed) = At(f, line)[1]
    BY <2>1 DEF Section, Last
  <2> QED BY <2>2 DEF placed, At
<1>11. Sec(<< >>) = ""
  BY <1>7 DEF Sec, Section
<1> QED BY <1>7, <1>8, <1>9, <1>10, <1>11 DEF P, Sec

LEMMA EntriesAppend ==
  ASSUME NEW L, NEW f \in Seq(L), NEW line \in L, NEW section, NEW opt
  PROVE  /\ Entries(<< >>, section, opt) = << >>
         /\ Entries(f, section, opt) \in Seq(Contents(L))
         /\ line[2] \in Contents(L)
         /\ Entries(Append(f, line), section, opt)
              = IF In(f, line) = section /\ line[1] = opt
                THEN Append(Entries(f, section, opt), line[2]) ELSE Entries(f, section, opt)
<1> DEFINE P == Placements(L)
           V == Contents(L)
           N(g) == Pass("values", section, opt, << >>, g)
           X == Seq(V)
<1>1. \A p \in P : p[3] \in V
  BY DEF Placements
<1> HIDE DEF P, V
<1>2. ASSUME NEW found \in Seq(V), NEW p \in P
      PROVE  Step("values", found, p, section, opt) \in Seq(V)
  BY <1>1 DEF Step, EntriesStep
<1>3. << >> \in Seq(V)
  OBVIOUS
<1>4. /\ N(<< >>) = << >> /\ \A g \in Seq(P) : N(g) \in X
      /\ \A g \in Seq(P), p \in P : N(Append(g, p)) = Step("values", N(g), p, section, opt)
  <2>1. << >> \in X /\ Closed(X, P, "values", section, opt)
    BY <1>2, <1>3 DEF Closed
  <2>2. LineByLine(X, P, "values", section, opt, << >>)
    <3> HIDE DEF X
    <3> QED BY <2>1, PassByLine
  <2> QED BY <2>2 DEF LineByLine
<1>5. \A g : Entries(g, section, opt) = N(Placed(g))
  BY ReadingPasses DEF Entries, Values
<1> HIDE DEF N
<1>6. /\ Placed(<< >>) = << >> /\ Placed(f) \in Seq(P) /\ At(f, line) \in P
      /\ Placed(Append(f, line)) = Append(Placed(f), At(f, line))
  BY PlacedAppend DEF P
<1>7. Entries(Append(f, line), section, opt)
        = EntriesStep(Entries(f, section, opt), At(f, line), section, opt)
  BY <1>4, <1>5, <1>6 DEF Step
<1>8. line[2] \in V
  BY DEF V, Contents
<1> QED BY <1>4, <1>5, <1>6, <1>7, <1>8 DEF EntriesStep, At, V

LEMMA OthersAppend ==
  ASSUME NEW L, NEW f \in Seq(L), NEW line \in L, NEW e
  PROVE  /\ Others(<< >>, e) = << >>
         /\ Others(Append(f, line), e) = IF About(e, At(f, line)) THEN Others(f, e)
                                         ELSE Append(Others(f, e), At(f, line))
<1> DEFINE P == Placements(L)
           N(g) == Pass("others", e, 0, << >>, g)
           X == Seq(P)
<1> HIDE DEF P
<1>2. ASSUME NEW kept \in Seq(P), NEW p \in P
      PROVE  Step("others", kept, p, e, 0) \in Seq(P)
  BY DEF Step, OthersStep
<1>3. << >> \in Seq(P)
  OBVIOUS
<1>4. /\ N(<< >>) = << >>
      /\ \A g \in Seq(P), p \in P : N(Append(g, p)) = Step("others", N(g), p, e, 0)
  <2>1. << >> \in X /\ Closed(X, P, "others", e, 0)
    BY <1>2, <1>3 DEF Closed
  <2>2. LineByLine(X, P, "others", e, 0, << >>)
    <3> HIDE DEF X
    <3> QED BY <2>1, PassByLine
  <2> QED BY <2>2 DEF LineByLine
<1>5. \A g : Others(g, e) = N(Placed(g))
  BY ReadingPasses DEF Others, Strangers
<1> HIDE DEF N
<1>6. /\ Placed(<< >>) = << >> /\ Placed(f) \in Seq(P) /\ At(f, line) \in P
      /\ Placed(Append(f, line)) = Append(Placed(f), At(f, line))
  BY PlacedAppend DEF P
<1>7. Others(Append(f, line), e) = OthersStep(Others(f, e), At(f, line), e)
  BY <1>4, <1>5, <1>6 DEF Step
<1> QED BY <1>4, <1>5, <1>6, <1>7 DEF OthersStep

\* What a key says in a section; files that end alike and whose other lines are
\* the same, for the edit e; and what an editor carries from line to line.
What(f, section, opt) == ToSet(Entries(f, section, opt))
HasSection(f, section) == Contains(f, <<"[", section>>)
Alike(f, g, e) == Sec(f) = Sec(g) /\ Others(f, e) = Others(g, e)
AboutPool(e, name) == \A p : About(e, p) <=> p = <<"ip-pool", "pool", name>>
Accumulators(L, D) == [out : Seq(L), in : BOOLEAN, done : SUBSET D]

LEMMA ToSetAppend ==
  ASSUME NEW V, NEW s \in Seq(V), NEW x \in V
  PROVE  ToSet(Append(s, x)) = ToSet(s) \cup {x}
<1>1. /\ DOMAIN Append(s, x) = 1..(Len(s) + 1) /\ DOMAIN s = 1..Len(s) /\ Len(s) \in Nat
      /\ \A i \in 1..Len(s) : Append(s, x)[i] = s[i]
      /\ Append(s, x)[Len(s) + 1] = x
  OBVIOUS
<1>2. 1..(Len(s) + 1) = (1..Len(s)) \cup {Len(s) + 1}
  BY <1>1
<1> DEFINE t == Append(s, x)
<1> HIDE DEF t
<1>3. /\ DOMAIN t = (1..Len(s)) \cup {Len(s) + 1} /\ \A i \in 1..Len(s) : t[i] = s[i]
      /\ t[Len(s) + 1] = x
  BY <1>1, <1>2 DEF t
<1>4. ToSet(t) = ToSet(s) \cup {x}
  BY <1>1, <1>3 DEF ToSet
<1> QED BY <1>4 DEF t

LEMMA WhatAppend ==
  ASSUME NEW L, NEW f \in Seq(L), NEW line \in L, NEW section, NEW opt
  PROVE  /\ What(<< >>, section, opt) = {}
         /\ What(Append(f, line), section, opt)
              = IF In(f, line) = section /\ line[1] = opt
                THEN What(f, section, opt) \cup {line[2]} ELSE What(f, section, opt)
<1> DEFINE V == Contents(L)
<1> HIDE DEF V
<1>1. \A s \in Seq(V), x \in V : ToSet(Append(s, x)) = ToSet(s) \cup {x}
  BY ToSetAppend
<1>2. ToSet(<< >>) = {}
  BY DEF ToSet
<1>3. /\ Entries(<< >>, section, opt) = << >>
      /\ Entries(f, section, opt) \in Seq(V) /\ line[2] \in V
      /\ Entries(Append(f, line), section, opt)
           = IF In(f, line) = section /\ line[1] = opt
             THEN Append(Entries(f, section, opt), line[2]) ELSE Entries(f, section, opt)
  BY EntriesAppend DEF V
<1> QED BY <1>1, <1>2, <1>3 DEF What

LEMMA SettingAppend ==
  ASSUME NEW L, NEW f \in Seq(L), NEW line \in L, NEW opt
  PROVE  /\ Setting(<< >>, opt) = 0
         /\ Setting(Append(f, line), opt)
              = IF In(f, line) = "pppoe" /\ line[1] = opt THEN line[2] ELSE Setting(f, opt)
<1> DEFINE V == Contents(L)
<1>1. ASSUME NEW s \in Seq(V), NEW x \in V PROVE Append(s, x) # << >> /\ Last(Append(s, x)) = x
  <2> HIDE DEF V
  <2> QED BY DEF Last
<1> HIDE DEF V
<1>2. /\ Entries(<< >>, "pppoe", opt) = << >>
      /\ Entries(f, "pppoe", opt) \in Seq(V) /\ line[2] \in V
      /\ Entries(Append(f, line), "pppoe", opt)
           = IF In(f, line) = "pppoe" /\ line[1] = opt
             THEN Append(Entries(f, "pppoe", opt), line[2]) ELSE Entries(f, "pppoe", opt)
  BY EntriesAppend DEF V
<1> QED BY <1>1, <1>2 DEF Setting

LEMMA HasSectionAppend ==
  ASSUME NEW L, NEW f \in Seq(L), NEW line \in L, NEW section
  PROVE  /\ ~HasSection(<< >>, section)
         /\ HasSection(Append(f, line), section) =>
              \/ HasSection(f, section)
              \/ line[1] = "[" /\ line[2] = section
<1>1. ~HasSection(<< >>, section)
  BY DEF HasSection, Contains
<1> DEFINE x == <<"[", section>>
<1>2. ASSUME NEW i \in 1..Len(Append(f, line)), Append(f, line)[i] = x
      PROVE  Contains(f, x) \/ line = x
  <2> HIDE DEF x
  <2> QED BY <1>2 DEF Contains
<1>3. HasSection(Append(f, line), section) => HasSection(f, section) \/ line = x
  <2> HIDE DEF x
  <2>1. Contains(Append(f, line), x) => Contains(f, x) \/ line = x
    BY <1>2 DEF Contains
  <2> QED BY <2>1 DEF HasSection, x
<1> QED BY <1>1, <1>3

LEMMA AlikeAppend ==
  ASSUME NEW L, NEW f \in Seq(L), NEW g \in Seq(L), NEW line \in L, NEW e, Alike(f, g, e)
  PROVE  /\ Alike(Append(f, line), Append(g, line), e)
         /\ line[1] # "[" /\ About(e, At(g, line)) =>
              /\ Alike(f, Append(g, line), e) /\ Alike(Append(f, line), g, e)
<1>1. Sec(f) = Sec(g) /\ In(f, line) = In(g, line) /\ At(f, line) = At(g, line)
  BY DEF Alike, In, At
<1>2. /\ Others(Append(f, line), e) = IF About(e, At(f, line)) THEN Others(f, e)
                                      ELSE Append(Others(f, e), At(f, line))
      /\ Others(Append(g, line), e) = IF About(e, At(g, line)) THEN Others(g, e)
                                      ELSE Append(Others(g, e), At(g, line))
  BY OthersAppend
<1>3. Sec(Append(f, line)) = In(f, line) /\ Sec(Append(g, line)) = In(g, line)
  BY PlacedAppend
<1>4. line[1] # "[" => In(f, line) = Sec(f)
  BY DEF In
<1> QED BY <1>1, <1>2, <1>3, <1>4 DEF Alike

LEMMA EmptyFile ==
  /\ Sec(<< >>) = "" /\ \A L : << >> \in Seq(L)
  /\ \A e : Alike(<< >>, << >>, e)
  /\ \A section, opt : What(<< >>, section, opt) = {}
  /\ \A opt : Setting(<< >>, opt) = 0
  /\ \A section : ~HasSection(<< >>, section)
<1> DEFINE f == << >>
           line == <<"", 0>>
           L == {line}
<1>1. f \in Seq(L) /\ line \in L
  OBVIOUS
<1> HIDE DEF line, L
<1>2. Sec(<< >>) = ""
  BY <1>1, PlacedAppend
<1>3. \A section, opt : What(<< >>, section, opt) = {}
  BY <1>1, WhatAppend
<1>4. \A opt : Setting(<< >>, opt) = 0
  BY <1>1, SettingAppend
<1>5. \A section : ~HasSection(<< >>, section)
  BY <1>1, HasSectionAppend
<1>6. \A e : Alike(<< >>, << >>, e)
  BY DEF Alike
<1>7. \A M : << >> \in Seq(M)
  OBVIOUS
<1> QED BY <1>2, <1>3, <1>4, <1>5, <1>6, <1>7

LEMMA WithoutWorks ==
  ASSUME NEW N, NEW names \in Seq(N), NEW name
  PROVE  Without(names, name) \in Seq(N) /\ ToSet(Without(names, name)) = ToSet(names) \ {name}
<1> DEFINE X == Seq(N)
           A(g) == Pass("without", name, 0, << >>, g)
           T == {g \in Seq(N) : ToSet(A(g)) = ToSet(g) \ {name}}
<1>1. Closed(X, N, "without", name, 0) /\ << >> \in X
  BY DEF Closed, Step
<1>2. LineByLine(X, N, "without", name, 0, << >>)
  <2> HIDE DEF X
  <2> QED BY <1>1, PassByLine
<1>3. /\ A(<< >>) = << >> /\ \A g \in Seq(N) : A(g) \in X
      /\ \A g \in Seq(N), n \in N : A(Append(g, n)) = IF n = name THEN A(g) ELSE Append(A(g), n)
  BY <1>2 DEF LineByLine, Step
<1>4. A(names) = Without(names, name)
  BY ReadingPasses
<1> HIDE DEF A
<1>5. << >> \in T
  <2>1. ToSet(<< >>) = {} /\ << >> \in Seq(N)
    BY DEF ToSet
  <2> QED BY <1>3, <2>1
<1>6. ASSUME NEW g \in Seq(N), NEW n \in N, g \in T PROVE Append(g, n) \in T
  <2>1. ToSet(A(g)) = ToSet(g) \ {name} /\ A(g) \in Seq(N) /\ Append(g, n) \in Seq(N)
    BY <1>3, <1>6
  <2>2. ToSet(Append(g, n)) = ToSet(g) \cup {n} /\ ToSet(Append(A(g), n)) = ToSet(A(g)) \cup {n}
    BY <2>1, ToSetAppend
  <2>3. ToSet(A(Append(g, n))) = ToSet(Append(g, n)) \ {name}
    BY <1>3, <2>1, <2>2
  <2> QED BY <2>1, <2>3
<1>7. names \in T
  <2> HIDE DEF T
  <2> QED BY <1>5, <1>6, SeqInduction
<1> QED BY <1>3, <1>4, <1>7

-----------------------------------------------------------------------------
(* Pools.                                                                  *)

\* How far a pool is added when the lines g are passed.
PoolAdding(a, g, name, e) ==
  /\ a.in <=> Sec(g) = "ip-pool"
  /\ Alike(a.out, g, e)
  /\ What(a.out, "ip-pool", "pool")
       = What(g, "ip-pool", "pool") \cup (IF a.done = {} THEN {} ELSE {name})
  /\ HasSection(g, "ip-pool") => a.in \/ a.done # {}

LEMMA PoolAddedThere ==
  ASSUME NEW L, NEW g \in Seq(L), NEW name, NEW e, NEW a \in Accumulators(L, {"pool"}),
         <<"pool", name>> \in L, AboutPool(e, name),
         PoolAdding(a, g, name, e)
  PROVE  /\ PoolAdded(a, name) \in Seq(L) /\ Alike(PoolAdded(a, name), g, e)
         /\ What(PoolAdded(a, name), "ip-pool", "pool")
              = What(g, "ip-pool", "pool") \cup (IF a.in \/ a.done # {} THEN {name} ELSE {})
<1> DEFINE line == <<"pool", name>>
<1>1. a.out \in Seq(L) /\ line \in L /\ line[1] = "pool" /\ line[2] = name
  BY DEF Accumulators
<1> HIDE DEF line
<1>2. CASE a.in /\ a.done = {}
  <2>1. Sec(a.out) = "ip-pool" /\ Alike(a.out, g, e)
    BY <1>2 DEF PoolAdding, Alike
  <2>2. In(a.out, line) = "ip-pool" /\ About(e, At(a.out, line))
    BY <1>1, <2>1 DEF In, At, AboutPool
  <2>3. About(e, At(g, line))
    BY <2>1, <2>2 DEF Alike, At, In
  <2>4. Alike(Append(a.out, line), g, e)
    <3>1. Alike(g, a.out, e)
      BY <2>1 DEF Alike
    <3>2. Alike(g, Append(a.out, line), e)
      BY <1>1, <2>2, <3>1, AlikeAppend
    <3> QED BY <3>2 DEF Alike
  <2>5. What(Append(a.out, line), "ip-pool", "pool") = What(a.out, "ip-pool", "pool") \cup {name}
    BY <1>1, <2>2, WhatAppend
  <2>6. PoolAdded(a, name) = Append(a.out, line)
    BY <1>2 DEF PoolAdded, line
  <2>7. Append(a.out, line) \in Seq(L)
    BY <1>1
  <2> QED BY <1>2, <2>4, <2>5, <2>6, <2>7 DEF PoolAdding
<1>3. CASE ~(a.in /\ a.done = {})
  <2>1. PoolAdded(a, name) = a.out
    BY <1>3 DEF PoolAdded
  <2> QED BY <1>1, <1>3, <2>1 DEF PoolAdding
<1> QED BY <1>2, <1>3

LEMMA AddPoolByLine ==
  ASSUME NEW L, NEW g \in Seq(L), NEW line \in L, NEW name, NEW e, NEW a \in Accumulators(L, {"pool"}),
         <<"pool", name>> \in L, AboutPool(e, name),
         PoolAdding(a, g, name, e)
  PROVE  PoolAdding(AddPoolStep(a, line, name), Append(g, line), name, e)
<1> DEFINE b == AddPoolStep(a, line, name)
           q == PoolAdded(a, name)
<1>1. /\ q \in Seq(L) /\ Alike(q, g, e)
      /\ What(q, "ip-pool", "pool")
           = What(g, "ip-pool", "pool") \cup (IF a.in \/ a.done # {} THEN {name} ELSE {})
  BY PoolAddedThere
<1>2. /\ a.out \in Seq(L) /\ a.in \in BOOLEAN /\ a.done \in SUBSET {"pool"}
      /\ a = [out |-> a.out, in |-> a.in, done |-> a.done]
  BY DEF Accumulators
<1>3. Sec(Append(g, line)) = In(g, line)
  BY PlacedAppend
<1>4. HasSection(Append(g, line), "ip-pool") =>
        HasSection(g, "ip-pool") \/ (line[1] = "[" /\ line[2] = "ip-pool")
  BY HasSectionAppend
<1>5. CASE line[1] = "["
  <2>1. b.out = Append(q, line) /\ b.done = IF a.in THEN {"pool"} ELSE a.done
    BY <1>5 DEF AddPoolStep
  <2>2. b.in <=> line[2] = "ip-pool"
    BY <1>5 DEF AddPoolStep
  <2> HIDE DEF b, q
  <2>3. Alike(b.out, Append(g, line), e)
    BY <1>1, <2>1, AlikeAppend
  <2>4. /\ What(b.out, "ip-pool", "pool") = What(q, "ip-pool", "pool")
        /\ What(Append(g, line), "ip-pool", "pool") = What(g, "ip-pool", "pool")
    BY <1>1, <1>5, <2>1, WhatAppend
  <2>5. b.in <=> Sec(Append(g, line)) = "ip-pool"
    BY <1>3, <1>5, <2>2 DEF In
  <2>6. b.done = {} <=> ~(a.in \/ a.done # {})
    BY <1>2, <2>1
  <2>7. HasSection(Append(g, line), "ip-pool") => b.in \/ b.done # {}
    BY <1>4, <2>2, <2>6 DEF PoolAdding
  <2>8. PoolAdding(b, Append(g, line), name, e)
    BY <1>1, <2>3, <2>4, <2>5, <2>6, <2>7 DEF PoolAdding
  <2> QED BY <2>8 DEF b
<1>6. CASE line[1] # "["
  <2>1. b.out = Append(a.out, line) /\ b.done = a.done /\ b.in = a.in
    BY <1>2, <1>6 DEF AddPoolStep
  <2> HIDE DEF b, q
  <2>2. In(g, line) = Sec(g) /\ In(a.out, line) = Sec(g)
    BY <1>6 DEF In, PoolAdding, Alike
  <2>3. Alike(b.out, Append(g, line), e)
    BY <1>2, <2>1, AlikeAppend DEF PoolAdding
  <2>4. /\ What(b.out, "ip-pool", "pool")
             = IF Sec(g) = "ip-pool" /\ line[1] = "pool"
               THEN What(a.out, "ip-pool", "pool") \cup {line[2]} ELSE What(a.out, "ip-pool", "pool")
        /\ What(Append(g, line), "ip-pool", "pool")
             = IF Sec(g) = "ip-pool" /\ line[1] = "pool"
               THEN What(g, "ip-pool", "pool") \cup {line[2]} ELSE What(g, "ip-pool", "pool")
    BY <1>2, <2>1, <2>2, WhatAppend
  <2>5. What(b.out, "ip-pool", "pool")
          = What(Append(g, line), "ip-pool", "pool") \cup (IF b.done = {} THEN {} ELSE {name})
    BY <2>1, <2>4 DEF PoolAdding
  <2>6. PoolAdding(b, Append(g, line), name, e)
    BY <1>3, <1>4, <1>6, <2>1, <2>2, <2>3, <2>5 DEF PoolAdding
  <2> QED BY <2>6 DEF b
<1> QED BY <1>5, <1>6

LEMMA AddPoolWorks ==
  ASSUME NEW L, NEW f \in Seq(L), NEW name, NEW e,
         <<"pool", name>> \in L, AboutPool(e, name)
  PROVE  /\ AddPool(f, name) \in Seq(L) /\ Alike(AddPool(f, name), f, e)
         /\ HasSection(f, "ip-pool") => What(AddPool(f, name), "ip-pool", "pool")
                                          = What(f, "ip-pool", "pool") \cup {name}
<1> DEFINE X == Accumulators(L, {"pool"})
           A(g) == Pass("add_pool", name, 0, Start, g)
           T == {g \in Seq(L) : PoolAdding(A(g), g, name, e)}
<1>1. LineByLine(X, L, "add_pool", name, 0, Start)
  <2>1. Start \in X
    BY DEF Start, Accumulators
  <2>2. ASSUME NEW a \in X, NEW line \in L PROVE Step("add_pool", a, line, name, 0) \in X
    <3>1. /\ a.out \in Seq(L) /\ a.in \in BOOLEAN /\ a.done \in SUBSET {"pool"}
          /\ a = [out |-> a.out, in |-> a.in, done |-> a.done]
      BY DEF Accumulators
    <3>2. PoolAdded(a, name) \in Seq(L)
      BY <3>1 DEF PoolAdded
    <3>3. CASE line[1] = "["
      <4>1. AddPoolStep(a, line, name)
              = [out |-> Append(PoolAdded(a, name), line), in |-> line[2] = "ip-pool",
                 done |-> IF a.in THEN {"pool"} ELSE a.done]
        BY <3>3 DEF AddPoolStep
      <4>2. Append(PoolAdded(a, name), line) \in Seq(L)
        BY <3>2
      <4> QED BY <3>1, <4>1, <4>2 DEF Accumulators, Step
    <3>4. CASE line[1] # "["
      <4>1. AddPoolStep(a, line, name) = [out |-> Append(a.out, line), in |-> a.in, done |-> a.done]
        BY <3>1, <3>4 DEF AddPoolStep
      <4>2. Append(a.out, line) \in Seq(L)
        BY <3>1
      <4> QED BY <3>1, <4>1, <4>2 DEF Accumulators, Step
    <3> QED BY <3>3, <3>4
  <2>3. Closed(X, L, "add_pool", name, 0)
    BY <2>2 DEF Closed
  <2> HIDE DEF X
  <2> QED BY <2>1, <2>3, PassByLine
<1>2. /\ A(<< >>) = Start /\ \A g \in Seq(L) : A(g) \in X
      /\ \A g \in Seq(L), line \in L : A(Append(g, line)) = AddPoolStep(A(g), line, name)
  BY <1>1 DEF LineByLine, Step
<1> HIDE DEF A
<1>3. << >> \in T
  <2>1. Start.out = << >> /\ Start.in = FALSE /\ Start.done = {}
    BY DEF Start
  <2>2. PoolAdding(Start, << >>, name, e)
    BY <2>1, EmptyFile DEF PoolAdding
  <2> QED BY <1>2, <2>2, EmptyFile
<1>4. ASSUME NEW g \in Seq(L), NEW line \in L, g \in T PROVE Append(g, line) \in T
  <2>1. PoolAdding(AddPoolStep(A(g), line, name), Append(g, line), name, e)
    BY <1>2, <1>4, AddPoolByLine
  <2>2. Append(g, line) \in Seq(L)
    OBVIOUS
  <2> QED BY <1>2, <2>1, <2>2
<1>5. f \in T
  <2> HIDE DEF T
  <2> QED BY <1>3, <1>4, SeqInduction
<1>6. AddPool(f, name) = PoolAdded(A(f), name)
  BY WritingPasses DEF A
<1>7. A(f) \in X /\ PoolAdding(A(f), f, name, e)
  BY <1>2, <1>5
<1> HIDE DEF T
<1>8. /\ PoolAdded(A(f), name) \in Seq(L) /\ Alike(PoolAdded(A(f), name), f, e)
      /\ What(PoolAdded(A(f), name), "ip-pool", "pool")
           = What(f, "ip-pool", "pool") \cup (IF A(f).in \/ A(f).done # {} THEN {name} ELSE {})
  BY <1>7, PoolAddedThere
<1> QED BY <1>6, <1>7, <1>8 DEF PoolAdding

\* How far a pool is removed when the lines g are passed.
PoolRemoving(a, g, name, e) ==
  /\ a.in <=> Sec(g) = "ip-pool"
  /\ Alike(a.out, g, e)
  /\ What(a.out, "ip-pool", "pool") = What(g, "ip-pool", "pool") \ {name}

LEMMA RemovePoolByLine ==
  ASSUME NEW L, NEW g \in Seq(L), NEW line \in L, NEW name, NEW e, NEW a \in Accumulators(L, {"pool"}),
         AboutPool(e, name), PoolRemoving(a, g, name, e)
  PROVE  PoolRemoving(RemovePoolStep(a, line, name), Append(g, line), name, e)
<1> DEFINE b == RemovePoolStep(a, line, name)
<1>1. /\ a.out \in Seq(L) /\ a.in \in BOOLEAN /\ a.done \in SUBSET {"pool"}
      /\ a = [out |-> a.out, in |-> a.in, done |-> a.done]
  BY DEF Accumulators
<1>2. Sec(Append(g, line)) = In(g, line) /\ Sec(a.out) = Sec(g) /\ In(a.out, line) = In(g, line)
  BY PlacedAppend DEF PoolRemoving, Alike, In
<1>3. Append(a.out, line) \in Seq(L)
  BY <1>1
<1>4. /\ What(Append(a.out, line), "ip-pool", "pool")
           = IF In(g, line) = "ip-pool" /\ line[1] = "pool"
             THEN What(a.out, "ip-pool", "pool") \cup {line[2]} ELSE What(a.out, "ip-pool", "pool")
      /\ What(Append(g, line), "ip-pool", "pool")
           = IF In(g, line) = "ip-pool" /\ line[1] = "pool"
             THEN What(g, "ip-pool", "pool") \cup {line[2]} ELSE What(g, "ip-pool", "pool")
  BY <1>1, <1>2, WhatAppend
<1>5. Alike(Append(a.out, line), Append(g, line), e)
  BY <1>1, AlikeAppend DEF PoolRemoving
<1>6. CASE line[1] = "["
  <2>1. b = [a EXCEPT !.out = Append(@, line), !.in = line[2] = "ip-pool"]
    BY <1>6 DEF RemovePoolStep
  <2>2. b.out = Append(a.out, line)
    BY <1>1, <2>1
  <2>3. b.in <=> line[2] = "ip-pool"
    BY <1>1, <2>1
  <2> HIDE DEF b
  <2>4. PoolRemoving(b, Append(g, line), name, e)
    BY <1>2, <1>4, <1>5, <1>6, <2>2, <2>3 DEF PoolRemoving, In
  <2> QED BY <2>4 DEF b
<1>7. CASE line[1] # "[" /\ a.in /\ line[1] = "pool" /\ line[2] = name
  <2>1. b = [out |-> a.out, in |-> a.in, done |-> {"pool"}]
    BY <1>1, <1>7 DEF RemovePoolStep
  <2>3. b.out = a.out /\ b.in = a.in
    BY <2>1
  <2> HIDE DEF b
  <2>4. In(g, line) = Sec(g) /\ Sec(g) = "ip-pool"
    BY <1>7 DEF In, PoolRemoving
  <2>5. Alike(a.out, Append(g, line), e)
    <3>1. Alike(g, a.out, e) /\ In(a.out, line) = "ip-pool"
      BY <1>2, <2>4 DEF PoolRemoving, Alike
    <3>2. About(e, At(a.out, line))
      BY <1>7, <3>1 DEF At, AboutPool
    <3>3. Alike(Append(g, line), a.out, e)
      BY <1>1, <1>7, <3>1, <3>2, AlikeAppend
    <3> QED BY <3>3 DEF Alike
  <2>6. PoolRemoving(b, Append(g, line), name, e)
    BY <1>2, <1>4, <1>7, <2>3, <2>4, <2>5 DEF PoolRemoving
  <2> QED BY <2>6 DEF b
<1>8. CASE line[1] # "[" /\ ~(a.in /\ line[1] = "pool" /\ line[2] = name)
  <2>1. b = [out |-> Append(a.out, line), in |-> a.in, done |-> a.done]
    BY <1>1, <1>8 DEF RemovePoolStep
  <2>3. b.out = Append(a.out, line) /\ b.in = a.in
    BY <2>1
  <2> HIDE DEF b
  <2>4. In(g, line) = Sec(g) /\ ~(In(g, line) = "ip-pool" /\ line[1] = "pool" /\ line[2] = name)
    BY <1>8 DEF In, PoolRemoving
  <2>5. What(b.out, "ip-pool", "pool") = What(Append(g, line), "ip-pool", "pool") \ {name}
    BY <1>4, <2>3, <2>4 DEF PoolRemoving
  <2>6. PoolRemoving(b, Append(g, line), name, e)
    BY <1>2, <1>5, <2>3, <2>4, <2>5 DEF PoolRemoving
  <2> QED BY <2>6 DEF b
<1> QED BY <1>6, <1>7, <1>8

LEMMA RemovePoolWorks ==
  ASSUME NEW L, NEW f \in Seq(L), NEW name, NEW e,
         AboutPool(e, name)
  PROVE  /\ RemovePool(f, name) \in Seq(L) /\ Alike(RemovePool(f, name), f, e)
         /\ What(RemovePool(f, name), "ip-pool", "pool") = What(f, "ip-pool", "pool") \ {name}
<1> DEFINE X == Accumulators(L, {"pool"})
           A(g) == Pass("remove_pool", name, 0, Start, g)
           T == {g \in Seq(L) : PoolRemoving(A(g), g, name, e)}
<1>1. LineByLine(X, L, "remove_pool", name, 0, Start)
  <2>1. Start \in X
    BY DEF Start, Accumulators
  <2>2. ASSUME NEW a \in X, NEW line \in L PROVE Step("remove_pool", a, line, name, 0) \in X
    <3>1. /\ a.out \in Seq(L) /\ a.in \in BOOLEAN /\ a.done \in SUBSET {"pool"}
          /\ a = [out |-> a.out, in |-> a.in, done |-> a.done]
      BY DEF Accumulators
    <3>2. Append(a.out, line) \in Seq(L)
      BY <3>1
    <3>3. CASE line[1] = "["
      <4>1. RemovePoolStep(a, line, name) = [a EXCEPT !.out = Append(@, line), !.in = line[2] = "ip-pool"]
        BY <3>3 DEF RemovePoolStep
      <4> QED BY <3>1, <3>2, <4>1 DEF Accumulators, Step
    <3>4. CASE line[1] # "[" /\ a.in /\ line[1] = "pool" /\ line[2] = name
      <4>1. RemovePoolStep(a, line, name) = [a EXCEPT !.done = {"pool"}]
        BY <3>4 DEF RemovePoolStep
      <4> QED BY <3>1, <4>1 DEF Accumulators, Step
    <3>5. CASE line[1] # "[" /\ ~(a.in /\ line[1] = "pool" /\ line[2] = name)
      <4>1. RemovePoolStep(a, line, name) = [a EXCEPT !.out = Append(@, line)]
        BY <3>5 DEF RemovePoolStep
      <4> QED BY <3>1, <3>2, <4>1 DEF Accumulators, Step
    <3> QED BY <3>3, <3>4, <3>5
  <2>3. Closed(X, L, "remove_pool", name, 0)
    BY <2>2 DEF Closed
  <2> HIDE DEF X
  <2> QED BY <2>1, <2>3, PassByLine
<1>2. /\ A(<< >>) = Start /\ \A g \in Seq(L) : A(g) \in X
      /\ \A g \in Seq(L), line \in L : A(Append(g, line)) = RemovePoolStep(A(g), line, name)
  BY <1>1 DEF LineByLine, Step
<1> HIDE DEF A
<1>3. << >> \in T
  <2>1. Start.out = << >> /\ Start.in = FALSE /\ Start.done = {}
    BY DEF Start
  <2>2. PoolRemoving(Start, << >>, name, e)
    BY <2>1, EmptyFile DEF PoolRemoving
  <2> QED BY <1>2, <2>2, EmptyFile
<1>4. ASSUME NEW g \in Seq(L), NEW line \in L, g \in T PROVE Append(g, line) \in T
  <2>1. PoolRemoving(RemovePoolStep(A(g), line, name), Append(g, line), name, e)
    BY <1>2, <1>4, RemovePoolByLine
  <2>2. Append(g, line) \in Seq(L)
    OBVIOUS
  <2> QED BY <1>2, <2>1, <2>2
<1>5. f \in T
  <2> HIDE DEF T
  <2> QED BY <1>3, <1>4, SeqInduction
<1>6. RemovePool(f, name) = A(f).out
  BY WritingPasses DEF A
<1>7. A(f) \in X /\ PoolRemoving(A(f), f, name, e)
  BY <1>2, <1>5
<1> HIDE DEF T
<1>8. A(f).out \in Seq(L)
  BY <1>7 DEF Accumulators
<1> QED BY <1>6, <1>7, <1>8 DEF PoolRemoving

-----------------------------------------------------------------------------
(* Interfaces.                                                             *)

\* The lines the names of interfaces are written in.
Written(names) == [i \in DOMAIN names |-> <<"interface", names[i]>>]

Writable(N, L) == \A n \in N : <<"interface", n>> \in L
AboutInterfaces(e) == \A p : About(e, p) <=> p[1] = "pppoe" /\ p[2] = "interface"

LEMMA WrittenAppend ==
  ASSUME NEW L, NEW N, Writable(N, L), NEW names \in Seq(N), NEW n \in N
  PROVE  /\ Written(<< >>) = << >> /\ Written(names) \in Seq(L)
         /\ Written(Append(names, n)) = Append(Written(names), <<"interface", n>>)
<1>1. \A s \in Seq(N) : Written(s) \in Seq(L) /\ Len(Written(s)) = Len(s)
                        /\ \A i \in 1..Len(s) : Written(s)[i] = <<"interface", s[i]>>
  BY DEF Written, Writable
<1>2. /\ Append(names, n) \in Seq(N) /\ Len(Append(names, n)) = Len(names) + 1 /\ Len(names) \in Nat
      /\ \A i \in 1..Len(names) : Append(names, n)[i] = names[i] /\ i \in 1..(Len(names) + 1)
      /\ Append(names, n)[Len(names) + 1] = n
  OBVIOUS
<1> DEFINE line == <<"interface", n>>
           s == Written(Append(names, n))
           t == Append(Written(names), line)
<1>3. s \in Seq(L) /\ Len(s) = Len(names) + 1
  BY <1>1, <1>2
<1>4. t \in Seq(L) /\ Len(t) = Len(names) + 1
  <2>1. Written(names) \in Seq(L) /\ Len(Written(names)) = Len(names) /\ line \in L
    BY <1>1 DEF Writable
  <2> HIDE DEF line
  <2> QED BY <2>1
<1>5. \A i \in 1..Len(names) : s[i] = t[i]
  <2>1. ASSUME NEW i \in 1..Len(names) PROVE s[i] = t[i]
    <3>1. s[i] = <<"interface", names[i]>>
      BY <1>1, <1>2
    <3>2. Written(names) \in Seq(L) /\ Len(Written(names)) = Len(names) /\ Written(names)[i] = <<"interface", names[i]>>
      BY <1>1
    <3>3. t[i] = Written(names)[i]
      <4> HIDE DEF line
      <4> QED BY <3>2
    <3> QED BY <3>1, <3>2, <3>3
  <2> QED BY <2>1
<1>6. s[Len(names) + 1] = t[Len(names) + 1]
  <2>1. s[Len(names) + 1] = line
    <3> DEFINE m == Append(names, n)
    <3>1. m \in Seq(N) /\ Len(names) + 1 \in 1..Len(m) /\ m[Len(names) + 1] = n
      BY <1>2
    <3> HIDE DEF m
    <3>2. Written(m)[Len(names) + 1] = <<"interface", m[Len(names) + 1]>>
      BY <1>1, <3>1
    <3> QED BY <3>1, <3>2 DEF m
  <2>2. Written(names) \in Seq(L) /\ Len(Written(names)) = Len(names) /\ line \in L
    BY <1>1 DEF Writable
  <2>3. t[Len(names) + 1] = line
    <3> HIDE DEF line
    <3> QED BY <1>2, <2>2
  <2> QED BY <2>1, <2>3
<1>7. s = t
  <2> HIDE DEF s, t
  <2> QED BY <1>2, <1>3, <1>4, <1>5, <1>6, SeqEqual
<1>8. Written(<< >>) = << >>
  BY DEF Written
<1> QED BY <1>1, <1>7, <1>8

LEMMA WrittenThere ==
  ASSUME NEW L, NEW N, NEW names \in Seq(N), NEW out \in Seq(L), NEW e,
         Writable(N, L), Sec(out) = "pppoe",
         AboutInterfaces(e)
  PROVE  /\ out \o Written(names) \in Seq(L) /\ Alike(out \o Written(names), out, e)
         /\ What(out \o Written(names), "pppoe", "interface")
              = What(out, "pppoe", "interface") \cup ToSet(names)
<1> DEFINE Fine(h) ==
             /\ out \o Written(h) \in Seq(L) /\ Alike(out \o Written(h), out, e)
             /\ What(out \o Written(h), "pppoe", "interface")
                  = What(out, "pppoe", "interface") \cup ToSet(h)
           T == {h \in Seq(N) : Fine(h)}
<1>1. << >> \in T
  <2>1. Written(<< >>) = << >> /\ ToSet(<< >>) = {}
    BY DEF Written, ToSet
  <2>2. out \o << >> = out
    BY ConcatEmptySeq
  <2>3. Alike(out, out, e)
    BY DEF Alike
  <2>4. Fine(<< >>)
    BY <2>1, <2>2, <2>3
  <2> QED BY <2>4
<1>2. ASSUME NEW h \in Seq(N), NEW n \in N, h \in T PROVE Append(h, n) \in T
  <2> DEFINE line == <<"interface", n>>
             g == out \o Written(h)
  <2>1. line \in L /\ line[1] = "interface" /\ line[2] = n
    BY DEF Writable
  <2>2. g \in Seq(L) /\ Alike(g, out, e)
        /\ What(g, "pppoe", "interface") = What(out, "pppoe", "interface") \cup ToSet(h)
    BY <1>2
  <2>3. out \o Written(Append(h, n)) = Append(g, line)
    <3>1. Written(h) \in Seq(L) /\ Written(Append(h, n)) = Append(Written(h), line)
      BY WrittenAppend
    <3> HIDE DEF line
    <3> QED BY <2>1, <3>1, ConcatAppend
  <2> HIDE DEF line, g
  <2>4. In(g, line) = "pppoe"
    BY <2>1, <2>2 DEF In, Alike
  <2>5. Alike(Append(g, line), out, e)
    <3>1. About(e, At(out, line)) /\ At(g, line) = At(out, line)
      BY <2>1, <2>2, <2>4 DEF At, In, Alike, AboutInterfaces
    <3>2. Alike(out, g, e)
      BY <2>2 DEF Alike
    <3>3. Alike(out, Append(g, line), e)
      BY <2>1, <2>2, <3>1, <3>2, AlikeAppend
    <3> QED BY <3>3 DEF Alike
  <2>6. What(Append(g, line), "pppoe", "interface") = What(g, "pppoe", "interface") \cup {n}
    BY <2>1, <2>2, <2>4, WhatAppend
  <2>7. ToSet(Append(h, n)) = ToSet(h) \cup {n}
    BY ToSetAppend
  <2>8. Append(g, line) \in Seq(L) /\ Append(h, n) \in Seq(N)
    BY <2>1, <2>2
  <2>9. Fine(Append(h, n))
    BY <2>2, <2>3, <2>5, <2>6, <2>7, <2>8
  <2> QED BY <2>8, <2>9
<1>3. Seq(N) \subseteq T
  <2> HIDE DEF T
  <2> QED BY <1>1, <1>2, SeqInduction
<1> QED BY <1>3

\* How far the list is rebuilt when the lines g are passed.
Rebuilding(a, g, names, e) ==
  /\ a.in <=> Sec(g) = "pppoe"
  /\ Alike(a.out, g, e)
  /\ What(a.out, "pppoe", "interface") \subseteq ToSet(names)
  /\ a.done # {} => What(a.out, "pppoe", "interface") = ToSet(names)
  /\ HasSection(g, "pppoe") => a.in \/ What(a.out, "pppoe", "interface") = ToSet(names)

LEMMA ListedThere ==
  ASSUME NEW L, NEW N, NEW names \in Seq(N), NEW g \in Seq(L), NEW e,
         NEW a \in Accumulators(L, {"interface"}),
         Writable(N, L),
         AboutInterfaces(e),
         Rebuilding(a, g, names, e)
  PROVE  /\ Listed(a, names) \in Seq(L) /\ Alike(Listed(a, names), g, e)
         /\ What(Listed(a, names), "pppoe", "interface") \subseteq ToSet(names)
         /\ a.in \/ HasSection(g, "pppoe") =>
              What(Listed(a, names), "pppoe", "interface") = ToSet(names)
<1>1. a.out \in Seq(L) /\ Alike(a.out, g, e)
  BY DEF Accumulators, Rebuilding
<1>2. CASE a.in /\ a.done = {}
  <2> DEFINE q == a.out \o Written(names)
  <2>1. Listed(a, names) = q
    BY <1>2 DEF Listed, Written
  <2>2. Sec(a.out) = "pppoe"
    BY <1>1, <1>2 DEF Rebuilding, Alike
  <2>3. /\ q \in Seq(L) /\ Alike(q, a.out, e)
        /\ What(q, "pppoe", "interface") = What(a.out, "pppoe", "interface") \cup ToSet(names)
    BY <1>1, <2>2, WrittenThere
  <2> HIDE DEF q
  <2> QED BY <1>1, <2>1, <2>3 DEF Rebuilding, Alike
<1>3. CASE ~(a.in /\ a.done = {})
  <2>1. Listed(a, names) = a.out
    BY <1>3 DEF Listed
  <2> QED BY <1>1, <1>3, <2>1 DEF Rebuilding
<1> QED BY <1>2, <1>3

LEMMA RebuildByLine ==
  ASSUME NEW L, NEW N, NEW names \in Seq(N), NEW g \in Seq(L), NEW line \in L, NEW e,
         NEW a \in Accumulators(L, {"interface"}),
         Writable(N, L),
         AboutInterfaces(e),
         Rebuilding(a, g, names, e)
  PROVE  Rebuilding(RebuildStep(a, line, names), Append(g, line), names, e)
<1> DEFINE b == RebuildStep(a, line, names)
           q == Listed(a, names)
<1>1. /\ a.out \in Seq(L) /\ a.in \in BOOLEAN /\ a.done \in SUBSET {"interface"}
      /\ a = [out |-> a.out, in |-> a.in, done |-> a.done]
  BY DEF Accumulators
<1>2. /\ q \in Seq(L) /\ Alike(q, g, e)
      /\ What(q, "pppoe", "interface") \subseteq ToSet(names)
      /\ a.in \/ HasSection(g, "pppoe") => What(q, "pppoe", "interface") = ToSet(names)
  BY ListedThere
<1>3. Sec(Append(g, line)) = In(g, line)
  BY PlacedAppend
<1>4. HasSection(Append(g, line), "pppoe") =>
        HasSection(g, "pppoe") \/ (line[1] = "[" /\ line[2] = "pppoe")
  BY HasSectionAppend
<1>5. CASE line[1] = "["
  <2>1. b = [out |-> Append(q, line), in |-> line[2] = "pppoe", done |-> {}]
    BY <1>5 DEF RebuildStep
  <2>2. b.out = Append(q, line) /\ b.done = {}
    BY <2>1
  <2>3. b.in <=> line[2] = "pppoe"
    BY <1>5 DEF RebuildStep
  <2> HIDE DEF b, q
  <2>4. Alike(b.out, Append(g, line), e)
    BY <1>2, <2>2, AlikeAppend
  <2>5. What(b.out, "pppoe", "interface") = What(q, "pppoe", "interface")
    BY <1>2, <1>5, <2>2, WhatAppend
  <2>6. Rebuilding(b, Append(g, line), names, e)
    BY <1>2, <1>3, <1>4, <1>5, <2>2, <2>3, <2>4, <2>5 DEF Rebuilding, In
  <2> QED BY <2>6 DEF b
<1>6. CASE line[1] # "[" /\ a.in /\ line[1] = "interface"
  <2>1. b = [a EXCEPT !.out = q, !.done = {"interface"}]
    BY <1>6 DEF RebuildStep
  <2>2. b.out = q /\ b.in = a.in /\ b.done = {"interface"}
    BY <1>1, <2>1
  <2> HIDE DEF b, q
  <2>3. In(g, line) = Sec(g) /\ Sec(g) = "pppoe" /\ About(e, At(g, line))
    BY <1>6 DEF In, Rebuilding, At, AboutInterfaces
  <2>4. Alike(q, Append(g, line), e)
    <3>1. About(e, At(q, line)) /\ Alike(g, q, e)
      BY <1>2, <2>3 DEF At, In, Alike
    <3>2. Alike(Append(g, line), q, e)
      BY <1>2, <1>6, <3>1, AlikeAppend
    <3> QED BY <3>2 DEF Alike
  <2>5. Rebuilding(b, Append(g, line), names, e)
    BY <1>2, <1>3, <1>6, <2>2, <2>3, <2>4 DEF Rebuilding
  <2> QED BY <2>5 DEF b
<1>7. CASE line[1] # "[" /\ ~(a.in /\ line[1] = "interface")
  <2>1. b = [a EXCEPT !.out = Append(@, line)]
    BY <1>7 DEF RebuildStep
  <2>2. b.out = Append(a.out, line) /\ b.in = a.in /\ b.done = a.done
    BY <1>1, <2>1
  <2> HIDE DEF b, q
  <2>3. In(g, line) = Sec(g) /\ In(a.out, line) = Sec(g)
    BY <1>7 DEF In, Rebuilding, Alike
  <2>4. Alike(b.out, Append(g, line), e)
    BY <1>1, <2>2, AlikeAppend DEF Rebuilding
  <2>5. What(b.out, "pppoe", "interface") = What(a.out, "pppoe", "interface")
    <3>1. ~(In(a.out, line) = "pppoe" /\ line[1] = "interface")
      BY <1>7, <2>3 DEF Rebuilding
    <3> QED BY <1>1, <2>2, <3>1, WhatAppend
  <2>6. HasSection(Append(g, line), "pppoe") => HasSection(g, "pppoe")
    BY <1>4, <1>7
  <2>7. Rebuilding(b, Append(g, line), names, e)
    BY <1>3, <2>2, <2>3, <2>4, <2>5, <2>6 DEF Rebuilding
  <2> QED BY <2>7 DEF b
<1> QED BY <1>5, <1>6, <1>7

LEMMA RebuildWorks ==
  ASSUME NEW L, NEW N, NEW f \in Seq(L), NEW names \in Seq(N), NEW e,
         Writable(N, L),
         AboutInterfaces(e)
  PROVE  /\ Rebuild(f, names) \in Seq(L) /\ Alike(Rebuild(f, names), f, e)
         /\ HasSection(f, "pppoe") => What(Rebuild(f, names), "pppoe", "interface") = ToSet(names)
<1> DEFINE X == Accumulators(L, {"interface"})
           A(g) == Pass("rebuild", names, 0, Start, g)
           T == {g \in Seq(L) : Rebuilding(A(g), g, names, e)}
<1>1. LineByLine(X, L, "rebuild", names, 0, Start)
  <2>1. Start \in X
    BY DEF Start, Accumulators
  <2>2. ASSUME NEW a \in X, NEW line \in L PROVE Step("rebuild", a, line, names, 0) \in X
    <3>1. /\ a.out \in Seq(L) /\ a.in \in BOOLEAN /\ a.done \in SUBSET {"interface"}
          /\ a = [out |-> a.out, in |-> a.in, done |-> a.done]
      BY DEF Accumulators
    <3> DEFINE q == Listed(a, names)
    <3>2. q \in Seq(L)
      <4>1. CASE a.in /\ a.done = {}
        <5>1. Written(names) \in Seq(L)
          BY DEF Written, Writable
        <5>2. q = a.out \o Written(names)
          BY <4>1 DEF Listed, Written
        <5> QED BY <3>1, <5>1, <5>2, ConcatProperties
      <4>2. CASE ~(a.in /\ a.done = {})
        BY <3>1, <4>2 DEF Listed
      <4> QED BY <4>1, <4>2
    <3>3. CASE line[1] = "["
      <4>1. RebuildStep(a, line, names) = [out |-> Append(q, line), in |-> line[2] = "pppoe", done |-> {}]
        BY <3>3 DEF RebuildStep
      <4> HIDE DEF q
      <4> QED BY <3>1, <3>2, <4>1 DEF Accumulators, Step
    <3>4. CASE line[1] # "[" /\ a.in /\ line[1] = "interface"
      <4>1. RebuildStep(a, line, names) = [a EXCEPT !.out = q, !.done = {"interface"}]
        BY <3>4 DEF RebuildStep
      <4> HIDE DEF q
      <4> QED BY <3>1, <3>2, <4>1 DEF Accumulators, Step
    <3>5. CASE line[1] # "[" /\ ~(a.in /\ line[1] = "interface")
      <4>0. Append(a.out, line) \in Seq(L)
        BY <3>1
      <4>1. RebuildStep(a, line, names) = [a EXCEPT !.out = Append(@, line)]
        BY <3>5 DEF RebuildStep
      <4> HIDE DEF q
      <4> QED BY <3>1, <4>0, <4>1 DEF Accumulators, Step
    <3> QED BY <3>3, <3>4, <3>5
  <2>3. Closed(X, L, "rebuild", names, 0)
    BY <2>2 DEF Closed
  <2> HIDE DEF X
  <2> QED BY <2>1, <2>3, PassByLine
<1>2. /\ A(<< >>) = Start /\ \A g \in Seq(L) : A(g) \in X
      /\ \A g \in Seq(L), line \in L : A(Append(g, line)) = RebuildStep(A(g), line, names)
  BY <1>1 DEF LineByLine, Step
<1> HIDE DEF A
<1>3. << >> \in T
  <2>1. Start.out = << >> /\ Start.in = FALSE /\ Start.done = {}
    BY DEF Start
  <2>2. Rebuilding(Start, << >>, names, e)
    BY <2>1, EmptyFile DEF Rebuilding
  <2> QED BY <1>2, <2>2, EmptyFile
<1>4. ASSUME NEW g \in Seq(L), NEW line \in L, g \in T PROVE Append(g, line) \in T
  <2>1. Rebuilding(RebuildStep(A(g), line, names), Append(g, line), names, e)
    BY <1>2, <1>4, RebuildByLine
  <2>2. Append(g, line) \in Seq(L)
    OBVIOUS
  <2> QED BY <1>2, <2>1, <2>2
<1>5. f \in T
  <2> HIDE DEF T
  <2> QED BY <1>3, <1>4, SeqInduction
<1>6. Rebuild(f, names) = Listed(A(f), names)
  BY WritingPasses DEF A
<1>7. A(f) \in X /\ Rebuilding(A(f), f, names, e)
  BY <1>2, <1>5
<1> HIDE DEF T
<1>8. /\ Listed(A(f), names) \in Seq(L) /\ Alike(Listed(A(f), names), f, e)
      /\ HasSection(f, "pppoe") => What(Listed(A(f), names), "pppoe", "interface") = ToSet(names)
  BY <1>7, ListedThere
<1> QED BY <1>6, <1>8

-----------------------------------------------------------------------------
(* Keys.                                                                   *)

\* The edits that set the keys in D, and the lines they may write.
AboutKeys(e, D) == \A p : About(e, p) <=> p[1] = "pppoe" /\ p[2] \in D
KeyLinesIn(wanted, L) == \A opt \in DOMAIN wanted : <<opt, wanted[opt]>> \in L

\* The keys in done read as wanted, the others so or not at all.
SetIn(out, wanted, done) ==
  \A opt \in DOMAIN wanted : /\ Setting(out, opt) \in {0, wanted[opt]}
                             /\ opt \in done => Setting(out, opt) = wanted[opt]

LEMMA WithKeyThere ==
  ASSUME NEW L, NEW wanted, NEW out \in Seq(L), NEW e, NEW opt \in DOMAIN wanted, NEW done,
         KeyLinesIn(wanted, L), AboutKeys(e, DOMAIN wanted), "[" \notin DOMAIN wanted,
         Sec(out) = "pppoe", SetIn(out, wanted, done)
  PROVE  /\ WithKey(out, wanted, opt) \in Seq(L) /\ Alike(WithKey(out, wanted, opt), out, e)
         /\ SetIn(WithKey(out, wanted, opt), wanted, done \cup {opt})
<1>1. CASE wanted[opt] = 0
  <2>1. WithKey(out, wanted, opt) = out
    BY <1>1 DEF WithKey
  <2>2. Setting(out, opt) = wanted[opt]
    BY <1>1 DEF SetIn
  <2> QED BY <2>1, <2>2 DEF Alike, SetIn
<1>2. CASE wanted[opt] # 0
  <2> DEFINE line == <<opt, wanted[opt]>>
             q == Append(out, line)
  <2>1. WithKey(out, wanted, opt) = q
    BY <1>2 DEF WithKey
  <2>2. line \in L /\ line[1] = opt /\ line[2] = wanted[opt] /\ line[1] # "["
    BY DEF KeyLinesIn
  <2> HIDE DEF line
  <2>3. In(out, line) = "pppoe" /\ About(e, At(out, line))
    BY <2>2 DEF In, At, AboutKeys
  <2>4. Alike(q, out, e)
    <3>1. Alike(out, out, e)
      BY DEF Alike
    <3>2. Alike(out, q, e)
      BY <2>2, <2>3, <3>1, AlikeAppend
    <3> QED BY <3>2 DEF Alike
  <2>5. \A k : Setting(q, k) = IF k = opt THEN wanted[opt] ELSE Setting(out, k)
    BY <2>2, <2>3, SettingAppend
  <2>6. q \in Seq(L)
    BY <2>2
  <2>7. SetIn(q, wanted, done \cup {opt})
    BY <2>5 DEF SetIn
  <2> QED BY <2>1, <2>4, <2>6, <2>7
<1> QED BY <1>1, <1>2

LEMMA CompletedThere ==
  ASSUME NEW L, NEW wanted, NEW out \in Seq(L), NEW e, NEW done,
         KeyLinesIn(wanted, L), AboutKeys(e, DOMAIN wanted), "[" \notin DOMAIN wanted,
         DOMAIN wanted \subseteq ToSet(KeyOrder), Sec(out) = "pppoe", SetIn(out, wanted, done)
  PROVE  LET b == Pass("missing", wanted, done, out, KeyOrder)
         IN  b \in Seq(L) /\ Alike(b, out, e) /\ SetIn(b, wanted, DOMAIN wanted)
<1> DEFINE K == ToSet(KeyOrder)
           X == {x \in Seq(L) : Alike(x, out, e) /\ SetIn(x, wanted, done)}
           A(h) == Pass("missing", wanted, done, out, h)
           T == {h \in Seq(K) : SetIn(A(h), wanted, done \cup ToSet(h))}
<1>1. ASSUME NEW x \in X, NEW opt \in K, NEW some
      PROVE  /\ MissingStep(x, opt, wanted, done) \in X
             /\ SetIn(x, wanted, done \cup some) =>
                  SetIn(MissingStep(x, opt, wanted, done), wanted, done \cup some \cup {opt})
  <2>1. Sec(x) = "pppoe" /\ Alike(x, out, e)
    BY DEF Alike
  <2>2. CASE opt \in DOMAIN wanted \ done
    <3>1. MissingStep(x, opt, wanted, done) = WithKey(x, wanted, opt)
      BY <2>2 DEF MissingStep
    <3>2. /\ WithKey(x, wanted, opt) \in Seq(L) /\ Alike(WithKey(x, wanted, opt), x, e)
          /\ SetIn(WithKey(x, wanted, opt), wanted, done \cup {opt})
      BY <2>1, <2>2, WithKeyThere
    <3>3. ASSUME SetIn(x, wanted, done \cup some)
          PROVE  SetIn(WithKey(x, wanted, opt), wanted, (done \cup some) \cup {opt})
      BY <2>1, <2>2, <3>3, WithKeyThere
    <3>4. SetIn(WithKey(x, wanted, opt), wanted, done)
      BY <3>2 DEF SetIn
    <3>5. Alike(WithKey(x, wanted, opt), out, e)
      BY <2>1, <3>2 DEF Alike
    <3> QED BY <3>1, <3>2, <3>3, <3>4, <3>5
  <2>3. CASE opt \notin DOMAIN wanted \ done
    <3>1. MissingStep(x, opt, wanted, done) = x
      BY <2>3 DEF MissingStep
    <3>2. SetIn(x, wanted, done \cup some) => SetIn(x, wanted, done \cup some \cup {opt})
      BY <2>3 DEF SetIn
    <3> QED BY <3>1, <3>2
  <2> QED BY <2>2, <2>3
<1>2. out \in X
  BY DEF Alike
<1>3. LineByLine(X, K, "missing", wanted, done, out)
  <2>1. Closed(X, K, "missing", wanted, done)
    BY <1>1 DEF Closed, Step
  <2> HIDE DEF X, K
  <2> QED BY <1>2, <2>1, PassByLine
<1>4. /\ A(<< >>) = out /\ \A h \in Seq(K) : A(h) \in X
      /\ \A h \in Seq(K), opt \in K : A(Append(h, opt)) = MissingStep(A(h), opt, wanted, done)
  BY <1>3 DEF LineByLine, Step
<1> HIDE DEF A, K
<1>5. << >> \in T
  <2>1. ToSet(<< >>) = {} /\ << >> \in Seq(K)
    BY DEF ToSet
  <2>2. SetIn(A(<< >>), wanted, done \cup {})
    BY <1>4 DEF SetIn
  <2> QED BY <2>1, <2>2
<1>6. ASSUME NEW h \in Seq(K), NEW opt \in K, h \in T PROVE Append(h, opt) \in T
  <2>1. SetIn(A(h), wanted, done \cup ToSet(h)) /\ A(h) \in X
    BY <1>4, <1>6
  <2>2. SetIn(A(Append(h, opt)), wanted, done \cup ToSet(h) \cup {opt})
    <3> HIDE DEF X
    <3> QED BY <1>1, <1>4, <2>1
  <2>3. ToSet(Append(h, opt)) = ToSet(h) \cup {opt}
    BY ToSetAppend
  <2>4. done \cup ToSet(h) \cup {opt} = done \cup ToSet(Append(h, opt))
    BY <2>3
  <2>5. Append(h, opt) \in Seq(K)
    OBVIOUS
  <2> QED BY <2>2, <2>4, <2>5
<1>7. KeyOrder \in Seq(K)
  BY DEF K, KeyOrder, ToSet
<1>8. KeyOrder \in T
  <2> HIDE DEF T
  <2> QED BY <1>5, <1>6, <1>7, SeqInduction
<1>9. A(KeyOrder) \in X /\ SetIn(A(KeyOrder), wanted, done \cup ToSet(KeyOrder))
  BY <1>4, <1>7, <1>8
<1>10. SetIn(A(KeyOrder), wanted, DOMAIN wanted)
  BY <1>9 DEF SetIn
<1> QED BY <1>9, <1>10 DEF A

\* How far the keys are set when the lines g are passed.
KeysBeingSet(a, g, wanted, e) ==
  /\ a.in <=> Sec(g) = "pppoe"
  /\ Alike(a.out, g, e)
  /\ SetIn(a.out, wanted, a.done)
  /\ HasSection(g, "pppoe") => a.in \/ SetIn(a.out, wanted, DOMAIN wanted)

LEMMA CompletedAtEnd ==
  ASSUME NEW L, NEW wanted, NEW g \in Seq(L), NEW e, NEW a \in Accumulators(L, DOMAIN wanted),
         KeyLinesIn(wanted, L), AboutKeys(e, DOMAIN wanted), "[" \notin DOMAIN wanted,
         DOMAIN wanted \subseteq ToSet(KeyOrder), KeysBeingSet(a, g, wanted, e)
  PROVE  /\ Completed(a, wanted) \in Seq(L) /\ Alike(Completed(a, wanted), g, e)
         /\ SetIn(Completed(a, wanted), wanted, a.done)
         /\ a.in \/ HasSection(g, "pppoe") => SetIn(Completed(a, wanted), wanted, DOMAIN wanted)
<1>1. a.out \in Seq(L) /\ Alike(a.out, g, e) /\ SetIn(a.out, wanted, a.done)
  BY DEF Accumulators, KeysBeingSet
<1>2. CASE a.in
  <2> DEFINE b == Pass("missing", wanted, a.done, a.out, KeyOrder)
  <2>1. Completed(a, wanted) = b
    BY <1>2, WritingPasses
  <2>2. Sec(a.out) = "pppoe"
    BY <1>2 DEF KeysBeingSet, Alike
  <2>3. b \in Seq(L) /\ Alike(b, a.out, e) /\ SetIn(b, wanted, DOMAIN wanted)
    BY <1>1, <2>2, CompletedThere
  <2> HIDE DEF b
  <2>4. SetIn(b, wanted, a.done)
    BY <2>3 DEF SetIn
  <2> QED BY <1>1, <2>1, <2>3, <2>4 DEF Alike
<1>3. CASE ~a.in
  <2>1. Completed(a, wanted) = a.out
    BY <1>3 DEF Completed
  <2> QED BY <1>1, <1>3, <2>1 DEF KeysBeingSet
<1> QED BY <1>2, <1>3

LEMMA SetKeysByLine ==
  ASSUME NEW L, NEW wanted, NEW afresh \in BOOLEAN, NEW g \in Seq(L), NEW line \in L, NEW e,
         NEW a \in Accumulators(L, DOMAIN wanted),
         KeyLinesIn(wanted, L), AboutKeys(e, DOMAIN wanted), "[" \notin DOMAIN wanted,
         DOMAIN wanted \subseteq ToSet(KeyOrder), KeysBeingSet(a, g, wanted, e)
  PROVE  KeysBeingSet(SetKeysStep(a, line, wanted, afresh), Append(g, line), wanted, e)
<1> DEFINE b == SetKeysStep(a, line, wanted, afresh)
           q == Completed(a, wanted)
           D == DOMAIN wanted
<1>1. /\ a.out \in Seq(L) /\ a.in \in BOOLEAN /\ a.done \in SUBSET D
      /\ a = [out |-> a.out, in |-> a.in, done |-> a.done]
  BY DEF Accumulators
<1>2. /\ q \in Seq(L) /\ Alike(q, g, e) /\ SetIn(q, wanted, a.done)
      /\ a.in \/ HasSection(g, "pppoe") => SetIn(q, wanted, D)
  BY CompletedAtEnd
<1>3. Sec(Append(g, line)) = In(g, line)
  BY PlacedAppend
<1>4. HasSection(Append(g, line), "pppoe") =>
        HasSection(g, "pppoe") \/ (line[1] = "[" /\ line[2] = "pppoe")
  BY HasSectionAppend
<1>5. CASE line[1] = "["
  <2> DEFINE some == IF afresh THEN {} ELSE IF a.in THEN D ELSE a.done
  <2>1. b = [out |-> Append(q, line), in |-> line[2] = "pppoe", done |-> some]
    BY <1>5 DEF SetKeysStep
  <2>2. b.out = Append(q, line) /\ b.done = some
    BY <2>1
  <2>3. b.in <=> line[2] = "pppoe"
    BY <1>5 DEF SetKeysStep
  <2>7. Alike(b.out, Append(g, line), e)
    <3> HIDE DEF b, q
    <3> QED BY <1>2, <2>2, AlikeAppend
  <2>8. \A k \in D : Setting(b.out, k) = Setting(q, k)
    <3> HIDE DEF b, q
    <3> QED BY <1>2, <1>5, <2>2, SettingAppend
  <2>9. SetIn(q, wanted, some)
    <3> HIDE DEF q
    <3> QED BY <1>2 DEF SetIn
  <2> HIDE DEF b, q, some
  <2>10. SetIn(b.out, wanted, b.done)
    BY <2>2, <2>8, <2>9 DEF SetIn
  <2>11. a.in \/ HasSection(g, "pppoe") => SetIn(b.out, wanted, D)
    BY <1>2, <2>8 DEF SetIn
  <2>12. KeysBeingSet(b, Append(g, line), wanted, e)
    BY <1>3, <1>4, <1>5, <2>3, <2>7, <2>10, <2>11 DEF KeysBeingSet, In
  <2> QED BY <2>12 DEF b
<1>6. CASE line[1] # "[" /\ a.in /\ line[1] \in D
  <2> DEFINE w == WithKey(a.out, wanted, line[1])
  <2>1. b = [a EXCEPT !.out = w, !.done = @ \cup {line[1]}]
    BY <1>6 DEF SetKeysStep
  <2>2. b.out = w /\ b.in = a.in /\ b.done = a.done \cup {line[1]}
    BY <1>1, <2>1
  <2>3. Sec(a.out) = "pppoe" /\ Sec(g) = "pppoe" /\ Alike(g, a.out, e)
    BY <1>6 DEF KeysBeingSet, Alike
  <2>4. w \in Seq(L) /\ Alike(w, a.out, e) /\ SetIn(w, wanted, a.done \cup {line[1]})
    BY <1>1, <1>6, <2>3, WithKeyThere DEF KeysBeingSet
  <2> HIDE DEF b, w
  <2>6. Alike(w, Append(g, line), e)
    <3>1. Alike(g, w, e) /\ Sec(w) = "pppoe"
      BY <2>3, <2>4 DEF Alike
    <3>2. About(e, At(w, line))
      BY <1>6, <3>1 DEF At, In, AboutKeys
    <3>3. Alike(Append(g, line), w, e)
      BY <1>6, <2>4, <3>1, <3>2, AlikeAppend
    <3> QED BY <3>3 DEF Alike
  <2>7. In(g, line) = "pppoe"
    BY <1>6, <2>3 DEF In
  <2>8. KeysBeingSet(b, Append(g, line), wanted, e)
    BY <1>3, <1>6, <2>2, <2>4, <2>6, <2>7 DEF KeysBeingSet
  <2> QED BY <2>8 DEF b
<1>7. CASE line[1] # "[" /\ ~(a.in /\ line[1] \in D)
  <2>1. b = [a EXCEPT !.out = Append(@, line)]
    BY <1>7 DEF SetKeysStep
  <2>2. b.out = Append(a.out, line) /\ b.in = a.in /\ b.done = a.done
    BY <1>1, <2>1
  <2> HIDE DEF b, q
  <2>4. In(g, line) = Sec(g) /\ In(a.out, line) = Sec(g)
    BY <1>7 DEF In, KeysBeingSet, Alike
  <2>5. Alike(b.out, Append(g, line), e)
    BY <1>1, <2>2, AlikeAppend DEF KeysBeingSet
  <2>6. \A k \in D : Setting(b.out, k) = Setting(a.out, k)
    <3> SUFFICES ASSUME NEW k \in D PROVE Setting(b.out, k) = Setting(a.out, k)
      OBVIOUS
    <3>1. ~(In(a.out, line) = "pppoe" /\ line[1] = k)
      BY <1>7, <2>4 DEF KeysBeingSet
    <3> QED BY <1>1, <2>2, <3>1, SettingAppend
  <2>7. HasSection(Append(g, line), "pppoe") => HasSection(g, "pppoe")
    BY <1>4, <1>7
  <2>8. SetIn(b.out, wanted, b.done) /\ (SetIn(a.out, wanted, D) => SetIn(b.out, wanted, D))
    BY <2>2, <2>6 DEF SetIn, KeysBeingSet
  <2>9. KeysBeingSet(b, Append(g, line), wanted, e)
    BY <1>3, <2>2, <2>4, <2>5, <2>7, <2>8 DEF KeysBeingSet
  <2> QED BY <2>9 DEF b
<1> QED BY <1>5, <1>6, <1>7

LEMMA SetKeysTyped ==
  ASSUME NEW L, NEW wanted, NEW afresh, NEW a \in Accumulators(L, DOMAIN wanted), NEW line \in L,
         KeyLinesIn(wanted, L)
  PROVE  SetKeysStep(a, line, wanted, afresh) \in Accumulators(L, DOMAIN wanted)
<1> DEFINE D == DOMAIN wanted
           X == Seq(L)
           q == Completed(a, wanted)
<1>1. /\ a.out \in X /\ a.in \in BOOLEAN /\ a.done \in SUBSET D
      /\ a = [out |-> a.out, in |-> a.in, done |-> a.done]
  BY DEF Accumulators
<1>2. ASSUME NEW out \in X, NEW opt \in D PROVE WithKey(out, wanted, opt) \in X
  <2>1. CASE wanted[opt] = 0
    BY <2>1 DEF WithKey
  <2>2. CASE wanted[opt] # 0
    <3> DEFINE new == <<opt, wanted[opt]>>
    <3>1. new \in L
      BY DEF KeyLinesIn
    <3>2. WithKey(out, wanted, opt) = Append(out, new)
      BY <2>2 DEF WithKey
    <3> HIDE DEF new
    <3> QED BY <3>1, <3>2
  <2> QED BY <2>1, <2>2
<1>3. q \in X
  <2>1. CASE a.in
    <3> DEFINE K == ToSet(KeyOrder)
    <3>1. Closed(X, K, "missing", wanted, a.done)
      <4> HIDE DEF X
      <4> QED BY <1>2 DEF Closed, Step, MissingStep
    <3>2. LineByLine(X, K, "missing", wanted, a.done, a.out)
      <4> HIDE DEF X, K
      <4> QED BY <1>1, <3>1, PassByLine
    <3>3. KeyOrder \in Seq(K)
      BY DEF KeyOrder, ToSet
    <3>4. q = Pass("missing", wanted, a.done, a.out, KeyOrder)
      BY <2>1, WritingPasses
    <3> QED BY <3>2, <3>3, <3>4 DEF LineByLine
  <2>2. CASE ~a.in
    BY <1>1, <2>2 DEF Completed
  <2> QED BY <2>1, <2>2
<1>4. CASE line[1] = "["
  <2> DEFINE some == IF afresh THEN {} ELSE IF a.in THEN D ELSE a.done
  <2>1. SetKeysStep(a, line, wanted, afresh)
          = [out |-> Append(q, line), in |-> line[2] = "pppoe", done |-> some]
    BY <1>4 DEF SetKeysStep
  <2>2. some \in SUBSET D
    BY <1>1
  <2>3. Append(q, line) \in Seq(L)
    <3> HIDE DEF q
    <3> QED BY <1>3
  <2> HIDE DEF q, some, D
  <2> QED BY <2>1, <2>2, <2>3 DEF Accumulators, D
<1>5. CASE line[1] # "[" /\ a.in /\ line[1] \in D
  <2> DEFINE w == WithKey(a.out, wanted, line[1])
  <2>1. SetKeysStep(a, line, wanted, afresh) = [a EXCEPT !.out = w, !.done = @ \cup {line[1]}]
    BY <1>5 DEF SetKeysStep
  <2>2. w \in X
    BY <1>1, <1>2, <1>5
  <2> DEFINE some == a.done \cup {line[1]}
  <2>3. some \in SUBSET D
    BY <1>1, <1>5
  <2>4. SetKeysStep(a, line, wanted, afresh) = [out |-> w, in |-> a.in, done |-> some]
    <3> HIDE DEF w
    <3> QED BY <1>1, <2>1
  <2> HIDE DEF w, some, D
  <2> QED BY <1>1, <2>2, <2>3, <2>4 DEF Accumulators, D
<1>6. CASE line[1] # "[" /\ ~(a.in /\ line[1] \in D)
  <2>1. SetKeysStep(a, line, wanted, afresh) = [a EXCEPT !.out = Append(@, line)]
    BY <1>6 DEF SetKeysStep
  <2>2. Append(a.out, line) \in X
    BY <1>1
  <2> QED BY <1>1, <2>1, <2>2 DEF Accumulators
<1> QED BY <1>4, <1>5, <1>6

LEMMA SetKeysWorks ==
  ASSUME NEW L, NEW f \in Seq(L), NEW wanted, NEW afresh \in BOOLEAN, NEW e,
         KeyLinesIn(wanted, L), AboutKeys(e, DOMAIN wanted), "[" \notin DOMAIN wanted,
         DOMAIN wanted \subseteq ToSet(KeyOrder)
  PROVE  /\ SetKeys(f, wanted, afresh) \in Seq(L) /\ Alike(SetKeys(f, wanted, afresh), f, e)
         /\ HasSection(f, "pppoe") =>
              \A opt \in DOMAIN wanted : Setting(SetKeys(f, wanted, afresh), opt) = wanted[opt]
<1> DEFINE X == Accumulators(L, DOMAIN wanted)
           A(g) == Pass("set_keys", wanted, afresh, Start, g)
           T == {g \in Seq(L) : KeysBeingSet(A(g), g, wanted, e)}
<1>1. LineByLine(X, L, "set_keys", wanted, afresh, Start)
  <2>1. Start \in X
    BY DEF Start, Accumulators
  <2>2. ASSUME NEW a \in X, NEW line \in L PROVE Step("set_keys", a, line, wanted, afresh) \in X
    <3>1. SetKeysStep(a, line, wanted, afresh) \in X
      BY SetKeysTyped
    <3> QED BY <3>1 DEF Step
  <2>3. Closed(X, L, "set_keys", wanted, afresh)
    BY <2>2 DEF Closed
  <2> HIDE DEF X
  <2> QED BY <2>1, <2>3, PassByLine
<1>2. /\ A(<< >>) = Start /\ \A g \in Seq(L) : A(g) \in X
      /\ \A g \in Seq(L), line \in L : A(Append(g, line)) = SetKeysStep(A(g), line, wanted, afresh)
  BY <1>1 DEF LineByLine, Step
<1> HIDE DEF A
<1>3. << >> \in T
  <2>1. Start.out = << >> /\ Start.in = FALSE /\ Start.done = {}
    BY DEF Start
  <2>2. KeysBeingSet(Start, << >>, wanted, e)
    BY <2>1, EmptyFile DEF KeysBeingSet, SetIn
  <2> QED BY <1>2, <2>2, EmptyFile
<1>4. ASSUME NEW g \in Seq(L), NEW line \in L, g \in T PROVE Append(g, line) \in T
  <2>1. KeysBeingSet(SetKeysStep(A(g), line, wanted, afresh), Append(g, line), wanted, e)
    BY <1>2, <1>4, SetKeysByLine
  <2>2. Append(g, line) \in Seq(L)
    OBVIOUS
  <2> QED BY <1>2, <2>1, <2>2
<1>5. f \in T
  <2> HIDE DEF T
  <2> QED BY <1>3, <1>4, SeqInduction
<1>6. SetKeys(f, wanted, afresh) = Completed(A(f), wanted)
  BY WritingPasses DEF A
<1>7. A(f) \in X /\ KeysBeingSet(A(f), f, wanted, e)
  BY <1>2, <1>5
<1> HIDE DEF T
<1>8. /\ Completed(A(f), wanted) \in Seq(L) /\ Alike(Completed(A(f), wanted), f, e)
      /\ HasSection(f, "pppoe") => SetIn(Completed(A(f), wanted), wanted, DOMAIN wanted)
  BY <1>7, CompletedAtEnd
<1> QED BY <1>6, <1>8 DEF SetIn

-----------------------------------------------------------------------------
(* The edits.                                                              *)

LEMMA AboutEdits ==
  /\ \A e \in PoolEdits : AboutPool(e, e.name) /\ e \notin InterfaceEdits /\ e \notin KeyEdits
  /\ \A e \in InterfaceEdits : AboutInterfaces(e) /\ e \notin PoolEdits /\ e \notin KeyEdits
  /\ \A e \in KeyEdits : AboutKeys(e, DOMAIN e.wanted) /\ e \notin PoolEdits /\ e \notin InterfaceEdits
<1>1. ASSUME NEW e \in PoolEdits PROVE e.op \in {"add_pool", "remove_pool"}
  BY DEF PoolEdits
<1>2. ASSUME NEW e \in InterfaceEdits PROVE e.op \in {"add_interface", "remove_interface"}
  BY DEF InterfaceEdits
<1>3. ASSUME NEW e \in KeyEdits PROVE e.op \in {"runtime", "limits", "pado"}
  BY DEF KeyEdits
<1> QED BY <1>1, <1>2, <1>3 DEF About, AboutPool, AboutInterfaces, AboutKeys

LEMMA KeysOfEdits ==
  ASSUME NEW e \in KeyEdits
  PROVE  "[" \notin DOMAIN e.wanted /\ DOMAIN e.wanted \subseteq ToSet(KeyOrder)
<1>1. ToSet(KeyOrder) = {"service-name", "ac-name", "verbose", "max-sessions",
                         "max-starting", "pado-delay", "pado-delay-sessions"}
  BY DEF ToSet, KeyOrder
<1>2. ASSUME NEW keys, NEW w \in Partly(keys) PROVE DOMAIN w \subseteq keys
  BY DEF Partly
<1>3. CASE e \in [op : {"runtime"}, wanted : Partly({"service-name", "ac-name", "verbose"})]
  BY <1>1, <1>2, <1>3
<1>4. CASE e \in [op : {"limits"}, wanted : Partly({"max-sessions", "max-starting"})]
  BY <1>1, <1>2, <1>4
<1>5. CASE e \in [op : {"pado"}, wanted : {w \in [{"pado-delay", "pado-delay-sessions"} ->
                                                     Settings \cup {0}] : w["pado-delay"] # 0}]
  BY <1>1, <1>5
<1> QED BY <1>3, <1>4, <1>5 DEF KeyEdits

\* What the edit e of the file f promises of the file g that it leaves.
Shown(g, f, e) ==
  LET section   == IF e \in PoolEdits THEN "ip-pool" ELSE "pppoe"
      listed(h) == ToSet(IF e \in PoolEdits THEN list_pools(h) ELSE list_interfaces(h))
  IN  Contains(f, <<"[", section>>) =>
        IF e \in KeyEdits
        THEN \A opt \in DOMAIN e.wanted : Setting(g, opt) = e.wanted[opt]
        ELSE listed(g) = IF e.op \in {"add_pool", "add_interface"}
                         THEN listed(f) \cup {e.name} ELSE listed(f) \ {e.name}

Promised(g, f, e) == g \in Seq(ToSet(g)) /\ Others(g, e) = Others(f, e) /\ Shown(g, f, e)

LEMMA OwnSet == \A L : \A g \in Seq(L) : g \in Seq(ToSet(g))
<1> SUFFICES ASSUME NEW L, NEW g \in Seq(L) PROVE g \in Seq(ToSet(g))
  OBVIOUS
<1> DEFINE S == ToSet(g)
<1>1. \A i \in 1..Len(g) : g[i] \in S
  BY DEF ToSet
<1> HIDE DEF S
<1>2. g \in [1..Len(g) -> S] /\ Len(g) \in Nat
  BY <1>1
<1>3. g \in Seq(S)
  BY <1>2, SeqDef
<1> QED BY <1>3 DEF S

LEMMA PoolEditsPromise ==
  ASSUME NEW f, f \in Seq(ToSet(f)), NEW e \in PoolEdits
  PROVE  Promised(Edited(f, e), f, e)
<1> DEFINE L == ToSet(f) \cup {<<"pool", e.name>>}
           g == Edited(f, e)
<1>1. f \in Seq(L)
  BY SeqMonotonic
<1>2. <<"pool", e.name>> \in L /\ AboutPool(e, e.name) /\ e \notin KeyEdits
  BY AboutEdits
<1>3. \A h : What(h, "ip-pool", "pool") = ToSet(list_pools(h))
  BY DEF What, list_pools
<1> HIDE DEF L
<1>4. CASE e.op = "add_pool"
  <2>1. g = AddPool(f, e.name)
    BY <1>4 DEF Edited
  <2>2. /\ g \in Seq(L) /\ Alike(g, f, e)
        /\ HasSection(f, "ip-pool") => What(g, "ip-pool", "pool") = What(f, "ip-pool", "pool") \cup {e.name}
    BY <1>1, <1>2, <2>1, AddPoolWorks
  <2> HIDE DEF g
  <2>3. Shown(g, f, e)
    BY <1>2, <1>3, <1>4, <2>2 DEF Shown, HasSection
  <2>4. g \in Seq(ToSet(g))
    BY <2>2, OwnSet
  <2>5. Promised(g, f, e)
    BY <2>2, <2>3, <2>4 DEF Promised, Alike
  <2> QED BY <2>5 DEF g
<1>5. CASE e.op = "remove_pool"
  <2>1. g = RemovePool(f, e.name)
    BY <1>5 DEF Edited
  <2>2. /\ g \in Seq(L) /\ Alike(g, f, e)
        /\ What(g, "ip-pool", "pool") = What(f, "ip-pool", "pool") \ {e.name}
    BY <1>1, <1>2, <2>1, RemovePoolWorks
  <2> HIDE DEF g
  <2>3. Shown(g, f, e)
    BY <1>2, <1>3, <1>5, <2>2 DEF Shown, HasSection
  <2>4. g \in Seq(ToSet(g))
    BY <2>2, OwnSet
  <2>5. Promised(g, f, e)
    BY <2>2, <2>3, <2>4 DEF Promised, Alike
  <2> QED BY <2>5 DEF g
<1> QED BY <1>4, <1>5 DEF PoolEdits

LEMMA InterfaceEditsPromise ==
  ASSUME NEW f, f \in Seq(ToSet(f)), NEW e \in InterfaceEdits
  PROVE  Promised(Edited(f, e), f, e)
<1> DEFINE line == <<"interface", e.name>>
           M == ToSet(f) \cup {line}
           N == Contents(M)
           L == M \cup {<<"interface", n>> : n \in N}
           g == Edited(f, e)
           list == list_interfaces(f)
<1>1. f \in Seq(M) /\ line \in M /\ M \subseteq L
  BY SeqMonotonic
<1>2. AboutInterfaces(e) /\ e \notin KeyEdits /\ e \notin PoolEdits
  BY AboutEdits
<1>3. \A h : What(h, "pppoe", "interface") = ToSet(list_interfaces(h))
  BY DEF What, list_interfaces
<1>4. Writable(N, L) /\ e.name \in N
  <2>1. \A n \in N : <<"interface", n>> \in L
    OBVIOUS
  <2>2. line \in M /\ line[2] = e.name
    OBVIOUS
  <2> HIDE DEF M, line
  <2>3. e.name \in N
    BY <2>2 DEF Contents
  <2> HIDE DEF L, N
  <2> QED BY <2>1, <2>3 DEF Writable
<1> HIDE DEF L, M
<1>5. f \in Seq(L)
  BY <1>1, SeqMonotonic
<1>6. list \in Seq(N)
  <2> HIDE DEF line
  <2> QED BY <1>1, EntriesAppend DEF list_interfaces
<1> HIDE DEF N, list
<1>7. CASE e.op = "add_interface"
  <2> DEFINE names == Append(list, e.name)
  <2>1. g = Rebuild(f, names)
    BY <1>7 DEF Edited, list
  <2>2. names \in Seq(N) /\ ToSet(names) = ToSet(list) \cup {e.name}
    BY <1>4, <1>6, ToSetAppend
  <2> HIDE DEF names
  <2>3. /\ g \in Seq(L) /\ Alike(g, f, e)
        /\ HasSection(f, "pppoe") => What(g, "pppoe", "interface") = ToSet(names)
    BY <1>2, <1>4, <1>5, <2>1, <2>2, RebuildWorks
  <2> HIDE DEF g
  <2>4. Shown(g, f, e)
    BY <1>2, <1>3, <1>7, <2>2, <2>3 DEF Shown, HasSection, list
  <2>5. g \in Seq(ToSet(g))
    BY <2>3, OwnSet
  <2>6. Promised(g, f, e)
    BY <2>3, <2>4, <2>5 DEF Promised, Alike
  <2> QED BY <2>6 DEF g
<1>8. CASE e.op = "remove_interface"
  <2> DEFINE names == Without(list, e.name)
  <2>1. g = Rebuild(f, names)
    BY <1>8 DEF Edited, list
  <2>2. names \in Seq(N) /\ ToSet(names) = ToSet(list) \ {e.name}
    BY <1>6, WithoutWorks
  <2> HIDE DEF names
  <2>3. /\ g \in Seq(L) /\ Alike(g, f, e)
        /\ HasSection(f, "pppoe") => What(g, "pppoe", "interface") = ToSet(names)
    BY <1>2, <1>4, <1>5, <2>1, <2>2, RebuildWorks
  <2> HIDE DEF g
  <2>4. Shown(g, f, e)
    BY <1>2, <1>3, <1>8, <2>2, <2>3 DEF Shown, HasSection, list
  <2>5. g \in Seq(ToSet(g))
    BY <2>3, OwnSet
  <2>6. Promised(g, f, e)
    BY <2>3, <2>4, <2>5 DEF Promised, Alike
  <2> QED BY <2>6 DEF g
<1> QED BY <1>7, <1>8 DEF InterfaceEdits

LEMMA KeyEditsPromise ==
  ASSUME NEW f, f \in Seq(ToSet(f)), NEW e \in KeyEdits
  PROVE  Promised(Edited(f, e), f, e)
<1> DEFINE wanted == e.wanted
           L == ToSet(f) \cup {<<opt, wanted[opt]>> : opt \in DOMAIN wanted}
           afresh == e.op # "runtime"
           g == Edited(f, e)
<1>1. f \in Seq(L)
  BY SeqMonotonic
<1>2. KeyLinesIn(wanted, L)
  BY DEF KeyLinesIn
<1>3. AboutKeys(e, DOMAIN wanted) /\ e \notin PoolEdits
  BY AboutEdits
<1>4. "[" \notin DOMAIN wanted /\ DOMAIN wanted \subseteq ToSet(KeyOrder)
  BY KeysOfEdits
<1>5. e.op \in {"runtime", "limits", "pado"}
  BY DEF KeyEdits
<1>6. g = SetKeys(f, wanted, afresh) /\ afresh \in BOOLEAN
  BY <1>5 DEF Edited
<1> HIDE DEF L, afresh
<1>7. /\ g \in Seq(L) /\ Alike(g, f, e)
      /\ HasSection(f, "pppoe") => \A opt \in DOMAIN wanted : Setting(g, opt) = wanted[opt]
  BY <1>1, <1>2, <1>3, <1>4, <1>6, SetKeysWorks
<1> HIDE DEF g
<1>8. Shown(g, f, e)
  BY <1>3, <1>7 DEF Shown, HasSection
<1>9. g \in Seq(ToSet(g))
  BY <1>7, OwnSet
<1>10. Promised(g, f, e)
  BY <1>7, <1>8, <1>9 DEF Promised, Alike
<1> QED BY <1>10 DEF g

\* The file is what the last edit made of the one before it.
EditorsIInv ==
  /\ lines \in Seq(ToSet(lines))
  /\ edits \in Nat
  /\ edits > 0 => edit \in Edits /\ was \in Seq(ToSet(was)) /\ lines = Edited(was, edit)

LEMMA EditsPromise ==
  ASSUME NEW f, f \in Seq(ToSet(f)), NEW e \in Edits
  PROVE  Promised(Edited(f, e), f, e)
BY PoolEditsPromise, InterfaceEditsPromise, KeyEditsPromise DEF Edits

LEMMA EditorsIInvInit == EditorsInit => EditorsIInv
BY FilesAssumption DEF EditorsInit, EditorsIInv

LEMMA EditorsIInvNext == EditorsIInv /\ [EditorsNext]_editorVars => EditorsIInv'
<1> SUFFICES ASSUME EditorsIInv, [EditorsNext]_editorVars PROVE EditorsIInv'
  OBVIOUS
<1>1. CASE EditorsNext
  <2>1. PICK e \in Edits : /\ lines' = Edited(lines, e) /\ edits' = edits + 1
                           /\ edit' = e /\ was' = lines
    BY <1>1 DEF EditorsNext
  <2>2. Edited(lines, e) \in Seq(ToSet(Edited(lines, e)))
    BY EditsPromise DEF EditorsIInv, Promised
  <2> QED BY <2>1, <2>2 DEF EditorsIInv
<1>2. CASE UNCHANGED editorVars
  BY <1>2 DEF EditorsIInv, editorVars
<1> QED BY <1>1, <1>2

\* Whatever the file holds, sections repeated or missing included: an edit keeps
\* every line that it is not about, in the order and the section it was in.
THEOREM StrangersStay == EditorsSpec => []OthersKept
<1>1. EditorsIInv => OthersKept
  BY EditsPromise DEF EditorsIInv, OthersKept, Promised
<1> QED BY EditorsIInvInit, EditorsIInvNext, <1>1, PTL DEF EditorsSpec

\* If the file has the section, what was added is listed, what was removed is
\* not, and the keys that were set read as they were set.
THEOREM EditsShow == EditorsSpec => []EditShows
<1>1. EditorsIInv => EditShows
  BY EditsPromise DEF EditorsIInv, EditShows, Promised, Shown
<1> QED BY EditorsIInvInit, EditorsIInvNext, <1>1, PTL DEF EditorsSpec
=============================================================================
