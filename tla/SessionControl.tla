--------------------------- MODULE SessionControl ---------------------------
(***************************************************************************)
(* Requests that act on subscriber sessions: terminate, restart, drop by   *)
(* MAC, rate limits, and their bulk forms.  Each is a chain of accel-cmd   *)
(* processes run under with_retry; between two of them, and between two    *)
(* attempts of one, sessions come and go and other requests proceed.       *)
(***************************************************************************)
EXTENDS Naturals, Sequences, FiniteSets

CONSTANTS
    Users,      \* subscriber names
    Ifnames,    \* PPP interfaces, reused from one session to the next
    Handlers,   \* concurrent requests
    None,       \* no session, no target
    Matches,    \* Matches[u]: the names that the pattern ^u$ matches
    Mac,        \* Mac[u]: the station that u dials from
    MaxRetries, \* settings.retry_max
    MaxItems    \* BULK_MAX_ITEMS

ASSUME NoneAssumption == None \notin Users \cup Ifnames
ASSUME MatchesAssumption ==
    /\ Matches \in [Users -> SUBSET Users]
    /\ \A u \in Users : u \in Matches[u]
ASSUME MacAssumption == DOMAIN Mac = Users
ASSUME BoundAssumption == MaxRetries \in Nat /\ MaxItems \in Nat \ {0}

VARIABLES
    owner,   \* accel-ppp: whose session each interface carries
    shaped,  \* accel-ppp: the interfaces whose shaper overrides RADIUS
    request, \* what each handler was asked and has answered so far
    command, \* the accel-cmd each handler awaits
    found,   \* the interfaces it has read and not yet dealt with
    held,    \* history: sessions its current item is about, not ended since
    failed   \* history: interfaces whose command failed in the current item

vars == <<owner, shaped, request, command, found, held, failed>>

Singles == {"kick", "restart", "drop"}
Bulks == {"terminate", "ratelimit", "restore"}
Lookups == {"match", "show"}
Verbs == Lookups \cup {"terminate username", "terminate if", "change", "unshape"}

Idle == [op |-> "none", items |-> << >>, answers |-> << >>]
NoCommand == [verb |-> "none", target |-> None, attempt |-> 0, state |-> "none"]

TypeOK ==
    /\ owner \in [Ifnames -> Users \cup {None}]
    /\ shaped \in SUBSET Ifnames
    /\ request \in [Handlers -> [op : Singles \cup Bulks \cup {"none"},
                                 items : Seq(Users \cup Ifnames),
                                 answers : Seq(BOOLEAN)]]
    /\ command \in [Handlers -> [verb : Verbs \cup {"none"},
                                 target : Users \cup Ifnames \cup {None},
                                 attempt : 0..MaxRetries,
                                 state : {"none", "sent", "executed", "backoff"}]]
    /\ found \in [Handlers -> SUBSET Ifnames]
    /\ held \in [Handlers -> SUBSET Ifnames]
    /\ failed \in [Handlers -> SUBSET Ifnames]

Init ==
    /\ owner = [i \in Ifnames |-> None]
    /\ shaped = {}
    /\ request = [h \in Handlers |-> Idle]
    /\ command = [h \in Handlers |-> NoCommand]
    /\ found = [h \in Handlers |-> {}]
    /\ held = [h \in Handlers |-> {}]
    /\ failed = [h \in Handlers |-> {}]

SessionsOf(S) == {i \in Ifnames : owner[i] \in S}
Op(h) == request[h].op
Item(h) == request[h].items[Len(request[h].answers) + 1]
Station(u) == {v \in Users : Mac[v] = Mac[u]}

-----------------------------------------------------------------------------
(* accel-ppp *)

(* Sessions end: an override goes with its session.                        *)
End(S) ==
    /\ owner' = [i \in Ifnames |-> IF i \in S THEN None ELSE owner[i]]
    /\ shaped' = shaped \ S
    /\ held' = [h \in Handlers |-> held[h] \ S]

Connects(i, u) ==
    /\ owner[i] = None
    /\ owner' = [owner EXCEPT ![i] = u]
    /\ UNCHANGED <<shaped, request, command, found, held, failed>>

HangsUp(i) ==
    /\ owner[i] \in Users
    /\ End({i})
    /\ UNCHANGED <<request, command, found, failed>>

(* Mutant of Readings: the pattern has lost its anchors.                   *)
Readings_Unanchored(h) ==
    IF command[h].verb = "show"
    THEN {SessionsOf(Station(Item(h)))}
    ELSE IF SessionsOf(Users) = {} THEN {{}} ELSE {{i} : i \in SessionsOf(Users)}

(* What a lookup may read: the first row of a match, or every row of the   *)
(* table that has the station's MAC.  The rows have no order of their own. *)
Readings(h) ==
    IF command[h].verb = "show"
    THEN {SessionsOf(Station(Item(h)))}
    ELSE LET matching == SessionsOf(Matches[Item(h)])
         IN  IF matching = {} THEN {{}} ELSE {{i} : i \in matching}

Reads(h) ==
    /\ command[h].verb \in Lookups
    /\ \E rows \in Readings(h) :
        /\ found' = [found EXCEPT ![h] = rows]
        /\ held' = IF Op(h) = "restart" THEN held ELSE [held EXCEPT ![h] = rows]
    /\ UNCHANGED <<owner, shaped>>

Terminates(h) ==
    /\ \/ /\ command[h].verb = "terminate username"
          /\ End(SessionsOf({command[h].target}))
       \/ /\ command[h].verb = "terminate if"
          /\ End(SessionsOf(Users) \cap {command[h].target})
    /\ UNCHANGED found

Shapes(h) ==
    /\ \/ /\ command[h].verb = "change"
          /\ shaped' = shaped \cup (SessionsOf(Users) \cap {command[h].target})
       \/ /\ command[h].verb = "unshape"
          /\ shaped' = shaped \ {command[h].target}
    /\ UNCHANGED <<owner, held, found>>

Executes(h) ==
    /\ command[h].state = "sent"
    /\ command' = [command EXCEPT ![h].state = "executed"]
    /\ Reads(h) \/ Terminates(h) \/ Shapes(h)
    /\ UNCHANGED <<request, failed>>

-----------------------------------------------------------------------------
(* The handlers *)

Send(h, verb, target) ==
    command' = [command EXCEPT ![h] =
        [verb |-> verb, target |-> target, attempt |-> 0, state |-> "sent"]]

(* The current item is over: success, or an error that the caller sees.    *)
Answer(h, ok) ==
    /\ request' = [request EXCEPT ![h].answers = Append(@, ok)]
    /\ command' = [command EXCEPT ![h] = NoCommand]
    /\ found' = [found EXCEPT ![h] = {}]
    /\ held' = [held EXCEPT ![h] = {}]

Arrives(h, op, items) ==
    /\ request[h] = Idle
    /\ request' = [request EXCEPT ![h] = [op |-> op, items |-> items, answers |-> << >>]]
    /\ UNCHANGED <<owner, shaped, command, found, held, failed>>

Begins(h) ==
    /\ Len(request[h].answers) < Len(request[h].items)
    /\ command[h] = NoCommand
    /\ \/ /\ Op(h) = "terminate"
          /\ Send(h, "terminate username", Item(h))
          /\ held' = [held EXCEPT ![h] = SessionsOf({Item(h)})]
       \/ /\ Op(h) = "kick"
          /\ Send(h, "terminate if", Item(h))
          /\ held' = [held EXCEPT ![h] = SessionsOf(Users) \cap {Item(h)}]
       \/ /\ Op(h) = "restart"
          /\ Send(h, "match", Item(h))
          /\ held' = [held EXCEPT ![h] = SessionsOf({Item(h)})]
       \/ /\ Op(h) \in {"ratelimit", "restore", "drop"}
          /\ Send(h, IF Op(h) = "drop" THEN "show" ELSE "match", Item(h))
          /\ UNCHANGED held
    /\ failed' = [failed EXCEPT ![h] = {}]
    /\ UNCHANGED <<owner, shaped, request, found>>

(* What follows a lookup that found something.                             *)
Acts(h, i) ==
    CASE Op(h) = "restart"   -> Send(h, "terminate username", Item(h))
      [] Op(h) = "drop"      -> Send(h, "terminate if", i)
      [] Op(h) = "ratelimit" -> Send(h, "change", i)
      [] Op(h) = "restore"   -> Send(h, "unshape", i)

LookedUp(h) ==
    /\ command[h].verb \in Lookups
    /\ \/ found[h] = {} /\ Answer(h, FALSE)
       \/ /\ \E i \in found[h] : Acts(h, i)
          /\ UNCHANGED <<request, found, held>>
    /\ UNCHANGED failed

(* One target of drop_by_mac is dealt with, whether its command failed or  *)
(* not; the answer after the last one is success.                          *)
NextTarget(h, lost) ==
    LET rest == found[h] \ {command[h].target}
    IN  /\ failed' = [failed EXCEPT ![h] = @ \cup lost]
        /\ \/ rest = {} /\ Answer(h, TRUE)
           \/ /\ \E i \in rest : Send(h, "terminate if", i)
              /\ found' = [found EXCEPT ![h] = rest]
              /\ UNCHANGED <<request, held>>

Dropping(h) == Op(h) = "drop" /\ command[h].verb = "terminate if"

(* accel-cmd exits with 0.                                                 *)
Succeeds(h) ==
    /\ command[h].state = "executed"
    /\ \/ LookedUp(h)
       \/ Dropping(h) /\ NextTarget(h, {})
       \/ /\ command[h].verb \notin Lookups /\ ~Dropping(h)
          /\ Answer(h, TRUE) /\ UNCHANGED failed
    /\ UNCHANGED <<owner, shaped>>

(* Mutant of Raises: a failed item ends the whole batch.                   *)
Raises_Aborts(h) ==
    \/ Dropping(h) /\ NextTarget(h, {command[h].target})
    \/ /\ ~Dropping(h)
       /\ request' = [request EXCEPT ![h] = Idle]
       /\ command' = [command EXCEPT ![h] = NoCommand]
       /\ found' = [found EXCEPT ![h] = {}]
       /\ held' = [held EXCEPT ![h] = {}]
       /\ UNCHANGED failed

(* with_retry gives up: what the caller of run_cmd makes of the exception. *)
Raises(h) ==
    \/ Dropping(h) /\ NextTarget(h, {command[h].target})
    \/ ~Dropping(h) /\ Answer(h, FALSE) /\ UNCHANGED failed

(* Mutants of TimesOut: one attempt too many; the last error is not raised *)
(* after the loop.                                                         *)
TimesOut_OneMore(h) ==
    /\ command[h].state \in {"sent", "executed"}
    /\ \/ /\ command[h].attempt <= MaxRetries
          /\ command' = [command EXCEPT ![h].state = "backoff"]
          /\ UNCHANGED <<request, found, held, failed>>
       \/ command[h].attempt > MaxRetries /\ Raises(h)
    /\ UNCHANGED <<owner, shaped>>

TimesOut_NotRaised(h) ==
    /\ command[h].state \in {"sent", "executed"}
    /\ \/ /\ command[h].attempt < MaxRetries
          /\ command' = [command EXCEPT ![h].state = "backoff"]
          /\ UNCHANGED <<request, found, held, failed>>
       \/ /\ command[h].attempt = MaxRetries
          /\ Answer(h, TRUE)
          /\ UNCHANGED failed
    /\ UNCHANGED <<owner, shaped>>

(* A transient error, before or after accel-ppp has done as told: retried  *)
(* after a delay while attempts are left.                                  *)
TimesOut(h) ==
    /\ command[h].state \in {"sent", "executed"}
    /\ \/ /\ command[h].attempt < MaxRetries
          /\ command' = [command EXCEPT ![h].state = "backoff"]
          /\ UNCHANGED <<request, found, held, failed>>
       \/ command[h].attempt = MaxRetries /\ Raises(h)
    /\ UNCHANGED <<owner, shaped>>

(* Any other error is raised at once.                                      *)
Refused(h) ==
    /\ command[h].state \in {"sent", "executed"}
    /\ Raises(h)
    /\ UNCHANGED <<owner, shaped>>

Retries(h) ==
    /\ command[h].state = "backoff"
    /\ command' = [command EXCEPT ![h].state = "sent", ![h].attempt = @ + 1]
    /\ UNCHANGED <<owner, shaped, request, found, held, failed>>

Replies(h) ==
    /\ request[h] # Idle
    /\ Len(request[h].answers) = Len(request[h].items)
    /\ request' = [request EXCEPT ![h] = Idle]
    /\ UNCHANGED <<owner, shaped, command, found, held, failed>>

-----------------------------------------------------------------------------
Batches == UNION {[1..n -> Users] : n \in 1..MaxItems}

Asked(h) ==
    \/ \E op \in Bulks, items \in Batches : Arrives(h, op, items)
    \/ \E op \in {"restart", "drop"}, u \in Users : Arrives(h, op, <<u>>)
    \/ \E i \in Ifnames : Arrives(h, "kick", <<i>>)

Proceeds(h) ==
    \/ Begins(h) \/ Executes(h) \/ Succeeds(h) \/ TimesOut(h) \/ Refused(h)
    \/ Retries(h) \/ Replies(h)

Next ==
    \/ \E i \in Ifnames, u \in Users : Connects(i, u)
    \/ \E i \in Ifnames : HangsUp(i)
    \/ \E h \in Handlers : Asked(h) \/ Proceeds(h)

Fairness == \A h \in Handlers : WF_vars(Proceeds(h))

Spec == Init /\ [][Next]_vars /\ Fairness

-----------------------------------------------------------------------------
Answered(h, ok) == request'[h].answers = Append(request[h].answers, ok)

(* A request that ends sessions answers success only if every session its  *)
(* item was about has ended since, except those whose own command failed   *)
(* (which drop_by_mac alone passes over).                                  *)
SuccessMeansGone ==
    [][\A h \in Handlers :
        Answered(h, TRUE) /\ Op(h) \in {"terminate", "kick", "restart", "drop"}
            => held[h] \subseteq failed'[h]]_vars

(* The sessions that the item names: of a subscriber, of everyone at the   *)
(* station of a MAC, or on an interface.                                   *)
Named(h) ==
    CASE Op(h) = "kick" -> {Item(h)}
      [] Op(h) = "drop" -> SessionsOf(Station(Item(h)))
      [] OTHER -> SessionsOf({Item(h)})

Touched(i) == owner'[i] # owner[i] \/ ~(i \in shaped' <=> i \in shaped)

(* A command touches a session that the request does not name only if the  *)
(* session that was looked up has ended in between and the interface was   *)
(* given to another, or, for a rate limit, if the subscriber's name is     *)
(* matched by the unescaped pattern made from the name that was given.     *)
OthersByReuseOrPattern ==
    [][\A h \in Handlers : Executes(h) =>
        \A i \in Ifnames : Touched(i) =>
            \/ i \in Named(h)
            \/ i \notin held[h]
            \/ Op(h) \in {"ratelimit", "restore"} /\ owner[i] \in Matches[Item(h)]]_vars

(* routers/traffic.py: the rate of the subscriber with the given user name *)
(* is changed, or restored; so nobody else's, but for an interface that    *)
(* has changed hands since it was looked up.                               *)
NamedSubscriberOnly ==
    [][\A h \in Handlers : Executes(h) =>
        \A i \in Ifnames : Touched(i) => i \in Named(h) \/ i \notin held[h]]_vars

(* Every item of every request is answered, the ones after a failed one    *)
(* included, however often its commands time out.                          *)
EveryItemAnswered ==
    \A h \in Handlers : \A n \in 1..MaxItems :
        Len(request[h].items) = n ~> Len(request[h].answers) = n

(* models/schemas.py: dropped is the number of sessions that were          *)
(* terminated.                                                             *)
DroppedWereTerminated ==
    [][\A h \in Handlers :
        Answered(h, TRUE) /\ Op(h) = "drop" => held[h] = {}]_vars

=============================================================================
