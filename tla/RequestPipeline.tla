--------------------------- MODULE RequestPipeline ---------------------------
(***************************************************************************)
(* The way of a request through the application: rate limiter, request id, *)
(* audit log, metrics, key and role, handler, and back.  The rate limiter  *)
(* is the outermost layer; the audit log and the metrics counter finish    *)
(* with a response in tasks of their own; an exception that no handler     *)
(* names passes both of them by.                                           *)
(***************************************************************************)
EXTENDS Endpoints, Sequences, SequencesExt

CONSTANTS Callers,     \* the requests that may be made
          Kinds,       \* the endpoints they may be made to
          Keys,        \* the keys they may carry
          PrimaryKey,  \* DAWOS_API_KEY
          KeysFile,    \* the keys of DAWOS_API_KEYS_FILE, each with its role
          BufferSize   \* DAWOS_AUDIT_BUFFER_SIZE

\* What changes anything is not a GET and asks for a role above viewer, only a
\* GET is exempt, and 429 is the rate limiter's alone.
WellFormed(e) ==
  /\ e.role \in Roles
  /\ e.changes => e.role \in {"operator", "admin"} /\ e.method # "GET"
  /\ e.exempt => e.method = "GET"
  /\ e.refuses \subseteq Nat \ {429}
  /\ \A x \in Exceptions : StatusesOn(e, x) \subseteq Nat \ {429}

ASSUME KindsAssumption  == \A e \in Kinds : WellFormed(e)
ASSUME KeysAssumption   == /\ DOMAIN KeysFile \subseteq Keys
                           /\ \A k \in DOMAIN KeysFile : KeysFile[k] \in {"viewer", "operator", "admin"}
ASSUME BufferAssumption == BufferSize \in Nat \ {0}

VARIABLES phase,        \* "idle", "handling", "responding" or "answered"
          endpoint,     \* what a request is made to
          key,          \* the key it carries
          role,         \* request.state.role, "-" while nobody has set it
          status,       \* the status of its response, 0 before there is one
          changed,      \* the requests whose handler has changed something
          escaped,      \* the requests that ended in an exception no handler names
          counted,      \* HTTP_REQUESTS_TOTAL, the requests it has counted
          audit_buffer, \* the ring buffer of the audit log
          trail         \* every request ever put into it, in order

requestVars == <<phase, endpoint, key, role, status>>
traceVars   == <<counted, audit_buffer, trail>>
pipelineVars == <<requestVars, traceVars, changed, escaped>>

-----------------------------------------------------------------------------
(* Keys and roles.                                                         *)

\* The keys file first, then the primary key.
Resolve(k) == IF k \in DOMAIN KeysFile THEN KeysFile[k]
              ELSE IF k = PrimaryKey THEN "admin" ELSE "none"

\* Mutant: any key that is known will do.
Granted_Known(e, k) == e.role = "none" \/ Resolve(k) # "none"

Granted(e, k) == Weight[Resolve(k)] >= Weight[e.role]

Mutating(r) == endpoint[r].method # "GET"

Audited == {trail[i] : i \in DOMAIN trail}

-----------------------------------------------------------------------------
PipelineInit ==
  /\ phase = [r \in Callers |-> "idle"]
  /\ endpoint \in [Callers -> Kinds]
  /\ key \in [Callers -> Keys]
  /\ role = [r \in Callers |-> "-"]
  /\ status = [r \in Callers |-> 0]
  /\ changed = {} /\ escaped = {} /\ counted = {}
  /\ audit_buffer = << >> /\ trail = << >>

Respond(r, s, next) ==
  /\ status' = [status EXCEPT ![r] = s]
  /\ phase' = [phase EXCEPT ![r] = next]

\* Nothing below the rate limiter hears of the request.
RateLimited(r) ==
  /\ phase[r] = "idle" /\ ~endpoint[r].exempt
  /\ Respond(r, 429, "answered")
  /\ UNCHANGED <<endpoint, key, role, changed, escaped, traceVars>>

\* A body that is no JSON is refused before the key is looked at.
Malformed(r) ==
  /\ phase[r] = "idle" /\ Mutating(r)
  /\ Respond(r, 422, "responding")
  /\ UNCHANGED <<endpoint, key, role, changed, escaped, traceVars>>

Denied(r) ==
  /\ phase[r] = "idle" /\ ~Granted(endpoint[r], key[r])
  /\ Respond(r, IF Resolve(key[r]) = "none" THEN 401 ELSE 403, "responding")
  /\ UNCHANGED <<endpoint, key, role, changed, escaped, traceVars>>

\* Mutant: the role is not handed on.
Admitted_RoleKept(r) ==
  /\ phase[r] = "idle" /\ Granted(endpoint[r], key[r])
  /\ phase' = [phase EXCEPT ![r] = "handling"]
  /\ UNCHANGED <<endpoint, key, role, status, changed, escaped, traceVars>>

\* The role is stored once access is granted.
Admitted(r) ==
  /\ phase[r] = "idle" /\ Granted(endpoint[r], key[r])
  /\ role' = [role EXCEPT ![r] = IF endpoint[r].role = "none" THEN "-" ELSE Resolve(key[r])]
  /\ phase' = [phase EXCEPT ![r] = "handling"]
  /\ UNCHANGED <<endpoint, key, status, changed, escaped, traceVars>>

\* The parameters are looked at after the key and before the handler.
Invalid(r) ==
  /\ phase[r] = "handling" /\ r \notin changed
  /\ Respond(r, 422, "responding")
  /\ UNCHANGED <<endpoint, key, role, changed, escaped, traceVars>>

Changes(r) ==
  /\ phase[r] = "handling" /\ endpoint[r].changes /\ r \notin changed
  /\ changed' = changed \cup {r}
  /\ UNCHANGED <<requestVars, escaped, traceVars>>

Returns(r) ==
  /\ phase[r] = "handling"
  /\ \E s \in {200} \cup endpoint[r].refuses
                \cup UNION {StatusesOn(endpoint[r], x) : x \in Exceptions} :
       Respond(r, s, "responding")
  /\ UNCHANGED <<endpoint, key, role, changed, escaped, traceVars>>

\* The exception unwinds every middleware: the outermost handler answers.
Escapes(r) ==
  /\ phase[r] = "handling"
  /\ \E x \in Exceptions : StatusesOn(endpoint[r], x) = {}
  /\ Respond(r, 500, "answered")
  /\ escaped' = escaped \cup {r}
  /\ UNCHANGED <<endpoint, key, role, changed, traceVars>>

\* Mutant: the counter is passed by when a request is refused.
Counts_Served(r) ==
  /\ phase[r] = "responding" /\ r \notin counted
  /\ counted' = IF status[r] \in {401, 403} THEN counted ELSE counted \cup {r}
  /\ phase' = [phase EXCEPT ![r] = IF r \in Audited \/ ~Mutating(r) THEN "answered" ELSE @]
  /\ UNCHANGED <<endpoint, key, role, status, changed, escaped, audit_buffer, trail>>

\* The innermost layer: health and metrics are not counted.
Counts(r) ==
  /\ phase[r] = "responding" /\ ~endpoint[r].exempt /\ r \notin counted
  /\ counted' = counted \cup {r}
  /\ UNCHANGED <<requestVars, changed, escaped, audit_buffer, trail>>

Entry(r) == [request |-> r, role |-> role[r], status |-> status[r]]

\* Mutant: a full buffer keeps its oldest entries.
Audits_DropsNewest(r) ==
  /\ phase[r] = "responding" /\ Mutating(r) /\ r \notin Audited
  /\ trail' = Append(trail, r)
  /\ audit_buffer' = IF Len(audit_buffer) < BufferSize
                     THEN Append(audit_buffer, Entry(r)) ELSE audit_buffer
  /\ UNCHANGED <<requestVars, changed, escaped, counted>>

\* deque(maxlen) drops its oldest entry.
Audits(r) ==
  LET kept == IF Len(audit_buffer) < BufferSize THEN audit_buffer ELSE Tail(audit_buffer)
  IN  /\ phase[r] = "responding" /\ Mutating(r) /\ r \notin Audited
      /\ trail' = Append(trail, r)
      /\ audit_buffer' = Append(kept, Entry(r))
      /\ UNCHANGED <<requestVars, changed, escaped, counted>>

\* The body ends when every layer is done with it.
Answered(r) ==
  /\ phase[r] = "responding"
  /\ endpoint[r].exempt \/ r \in counted
  /\ ~Mutating(r) \/ r \in Audited
  /\ phase' = [phase EXCEPT ![r] = "answered"]
  /\ UNCHANGED <<endpoint, key, role, status, changed, escaped, traceVars>>

PipelineNext ==
  \E r \in Callers :
    \/ RateLimited(r) \/ Malformed(r) \/ Denied(r) \/ Admitted(r)
    \/ Invalid(r) \/ Changes(r) \/ Returns(r) \/ Escapes(r)
    \/ Counts(r) \/ Audits(r) \/ Answered(r)

PipelineSpec == PipelineInit /\ [][PipelineNext]_pipelineVars

-----------------------------------------------------------------------------
PipelineTypeOK ==
  /\ phase \in [Callers -> {"idle", "handling", "responding", "answered"}]
  /\ endpoint \in [Callers -> Kinds] /\ key \in [Callers -> Keys]
  /\ role \in [Callers -> {"-", "viewer", "operator", "admin"}]
  /\ status \in [Callers -> Nat]
  /\ changed \subseteq Callers /\ escaped \subseteq Callers
  /\ counted \subseteq Callers
  /\ trail \in Seq(Callers)
  /\ audit_buffer \in Seq([request : Callers, role : {"-", "viewer", "operator", "admin"},
                           status : Nat])

\* Whatever endpoint it is: nothing is changed by a viewer or a stranger, or
\* by a GET.
ChangesByOperators ==
  \A r \in changed : Resolve(key[r]) \in {"operator", "admin"} /\ Mutating(r)

\* A change that has been answered is in the audit trail under the role that
\* made it, unless its handler let an exception through that it does not
\* name; the change then has no trace at all.
ChangesAudited ==
  \A r \in changed :
    phase[r] = "answered" =>
      \/ r \in Audited /\ role[r] = Resolve(key[r])
      \/ r \in escaped /\ <<"Exception", 500>> \notin endpoint[r].clauses

\* A request that was let in and answered by its handler or by a layer is in
\* both records of the past: in the counter, unless it is exempt, and in the
\* audit trail exactly if it may modify something.  Nothing is said of the
\* requests that the rate limiter turned away or that ended in an exception
\* nobody names: middleware.py means to record these too, and does not.
ServedAreRecorded ==
  \A r \in Callers :
    phase[r] = "answered" /\ status[r] # 429 /\ r \notin escaped =>
      /\ r \in counted <=> ~endpoint[r].exempt
      /\ r \in Audited <=> Mutating(r)

\* The buffer holds the latest entries of the trail, each with the status
\* and the role of its request.
BufferIsLatest ==
  /\ Len(audit_buffer) = IF Len(trail) < BufferSize THEN Len(trail) ELSE BufferSize
  /\ \A i \in DOMAIN audit_buffer :
       LET r == trail[Len(trail) - Len(audit_buffer) + i]
       IN  audit_buffer[i] = Entry(r)
=============================================================================
