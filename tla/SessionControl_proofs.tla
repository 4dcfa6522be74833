----------------------- MODULE SessionControl_proofs -----------------------
(***************************************************************************)
(* Proofs about SessionControl: its types, and its two action properties.  *)
(***************************************************************************)
EXTENDS SessionControl, TLAPS

ItemsOf(op) == IF op = "kick" THEN Ifnames ELSE Users

(* The accel-cmd commands that each operation runs for an item.            *)
StepsOf(op) ==
    CASE op = "terminate" -> {"none", "terminate username"}
      [] op = "kick"      -> {"none", "terminate if"}
      [] op = "restart"   -> {"none", "match", "terminate username"}
      [] op = "drop"      -> {"none", "show", "terminate if"}
      [] op = "ratelimit" -> {"none", "match", "change"}
      [] op = "restore"   -> {"none", "match", "unshape"}
      [] op = "none"      -> {"none"}

(* Where a handler is in its request.                                      *)
InPlace(h) ==
    /\ request[h].items \in Seq(ItemsOf(Op(h)))
    /\ command[h].verb \in StepsOf(Op(h))
    /\ command[h].verb # "none" => Len(request[h].answers) < Len(request[h].items)
    /\ command[h].verb = "none" => command[h].state = "none"
    /\ command[h].state = "backoff" => command[h].attempt < MaxRetries

(* The subscribers that an item may reach: a pattern reaches more than the *)
(* one that is named.                                                      *)
Aim(h) ==
    CASE Op(h) = "kick" -> Users
      [] Op(h) = "drop" -> Station(Item(h))
      [] Op(h) \in {"ratelimit", "restore"} -> Matches[Item(h)]
      [] OTHER -> {Item(h)}

(* The sessions it holds.                                                  *)
Holds(h) ==
    IF command[h].verb = "none"
    THEN held[h] = {}
    ELSE held[h] \subseteq SessionsOf(Aim(h))

(* What its command is aimed at, and what it has left undone.              *)
Aimed(h) ==
    /\ command[h].verb = "terminate username" => command[h].target = Item(h)
    /\ command[h].verb = "terminate if" => command[h].target \in Ifnames
    /\ command[h].verb = "terminate if" /\ Op(h) = "kick"
        => command[h].target = Item(h) /\ held[h] \subseteq {Item(h)}
    /\ command[h].verb = "terminate username" /\ command[h].state = "executed"
        => held[h] = {}
    /\ command[h].verb = "terminate if" /\ command[h].state = "executed"
        => command[h].target \notin held[h]
    /\ Dropping(h) => held[h] \subseteq found[h] \cup failed[h]
    /\ command[h].verb = "show" /\ command[h].state = "executed"
        => held[h] \subseteq found[h]

Sound(h) == InPlace(h) /\ Holds(h) /\ Aimed(h)

IInv == TypeOK /\ \A h \in Handlers : Sound(h)

-----------------------------------------------------------------------------
(* A handler that has an item left, or a command under way, has an item.   *)
LEMMA HasItem ==
    ASSUME TypeOK, NEW h \in Handlers,
           request[h].items \in Seq(ItemsOf(Op(h))),
           Len(request[h].answers) < Len(request[h].items)
    PROVE  Item(h) \in ItemsOf(Op(h))
<1>1. Len(request[h].answers) \in Nat
  BY DEF TypeOK
<1>2. Len(request[h].items) \in Nat
  OBVIOUS
<1>3. Len(request[h].answers) + 1 \in 1..Len(request[h].items)
  BY <1>1, <1>2
<1> QED
  BY <1>3 DEF Item

(* The command under way tells the operation.                              *)
LEMMA StepTellsOp ==
    ASSUME TypeOK, NEW h \in Handlers, InPlace(h)
    PROVE  /\ command[h].verb = "show" => Op(h) = "drop"
           /\ command[h].verb = "match" => Op(h) \in {"restart", "ratelimit", "restore"}
           /\ command[h].verb = "terminate if" => Op(h) \in {"kick", "drop"}
           /\ command[h].verb = "terminate username" => Op(h) \in {"terminate", "restart"}
           /\ command[h].verb \in {"change", "unshape"} => Op(h) \in {"ratelimit", "restore"}
<1>1. Op(h) \in {"kick", "restart", "drop", "terminate", "ratelimit", "restore", "none"}
  BY DEF TypeOK, Op, Singles, Bulks
<1>2. command[h].verb \in StepsOf(Op(h))
  BY DEF InPlace
<1> QED
  BY <1>1, <1>2 DEF StepsOf

(* A session that is held is a session: Aim never reaches None.            *)
LEMMA AimedAreUsers ==
    ASSUME TypeOK, NEW h \in Handlers, InPlace(h), command[h].verb # "none"
    PROVE  Aim(h) \subseteq Users
<1>1. Item(h) \in ItemsOf(Op(h))
  BY HasItem DEF InPlace
<1>2. Op(h) # "none"
  BY DEF InPlace, StepsOf
<1>3. CASE Op(h) = "kick"
  BY <1>3 DEF Aim
<1>4. CASE Op(h) # "kick"
  <2>1. Item(h) \in Users
    BY <1>1, <1>4 DEF ItemsOf
  <2>2. Matches[Item(h)] \subseteq Users
    BY <2>1, MatchesAssumption
  <2> QED
    BY <1>4, <2>1, <2>2 DEF Aim, Station
<1> QED
  BY <1>3, <1>4

(* A handler that is left alone stays sound while sessions come and end.   *)
LEMMA LeftAlone ==
    ASSUME TypeOK, NEW g \in Handlers, Sound(g),
           request'[g] = request[g], command'[g] = command[g],
           found'[g] = found[g], failed'[g] = failed[g],
           held'[g] \subseteq held[g],
           \A i \in held'[g] : owner'[i] = owner[i]
    PROVE  Sound(g)'
<1>1. Op(g)' = Op(g) /\ Item(g)' = Item(g)
  BY DEF Op, Item
<1>2. Aim(g)' = Aim(g)
  BY <1>1 DEF Aim, Station
<1>3. InPlace(g)'
  BY <1>1 DEF Sound, InPlace
<1>4. Holds(g)'
  BY <1>2 DEF Sound, Holds, SessionsOf, TypeOK
<1>5. Aimed(g)'
  BY <1>1 DEF Sound, Aimed, Dropping
<1> QED
  BY <1>3, <1>4, <1>5 DEF Sound

(* Ending sessions leaves every handler with sessions that have not ended. *)
LEMMA EndsAreForgotten ==
    ASSUME TypeOK, NEW S, End(S), NEW g \in Handlers
    PROVE  /\ held'[g] = held[g] \ S
           /\ \A i \in held'[g] : owner'[i] = owner[i]
BY DEF End, TypeOK

(* Between two items a handler is sound.                                   *)
LEMMA AnswerSound ==
    ASSUME TypeOK, NEW h \in Handlers, Sound(h), NEW ok \in BOOLEAN, Answer(h, ok)
    PROVE  Sound(h)'
<1>1. Op(h)' = Op(h) /\ request'[h].items = request[h].items
  BY DEF Answer, Op, TypeOK
<1>2. command'[h] = NoCommand /\ held'[h] = {}
  BY DEF Answer, TypeOK
<1>3. "none" \in StepsOf(Op(h))
  BY DEF StepsOf, TypeOK, Op, Singles, Bulks
<1>4. InPlace(h)'
  BY <1>1, <1>2, <1>3 DEF Sound, InPlace, NoCommand
<1>5. Holds(h)'
  BY <1>2 DEF Holds, NoCommand
<1>6. Aimed(h)'
  BY <1>2 DEF Aimed, NoCommand, Dropping
<1> QED
  BY <1>4, <1>5, <1>6 DEF Sound

LEMMA ArrivesSound ==
    ASSUME TypeOK, NEW h \in Handlers, Sound(h),
           NEW op \in Singles \cup Bulks, NEW items \in Seq(ItemsOf(op)),
           Arrives(h, op, items)
    PROVE  Sound(h)'
<1>1. request'[h].items = items /\ Op(h)' = op
  BY DEF Arrives, Op, TypeOK
<1>2. command[h].verb = "none"
  BY DEF Arrives, Idle, Sound, InPlace, StepsOf, Op
<1>3. command'[h] = command[h] /\ held'[h] = held[h]
  BY DEF Arrives
<1>4. "none" \in StepsOf(op)
  BY DEF StepsOf, Singles, Bulks
<1>5. InPlace(h)'
  BY <1>1, <1>2, <1>3, <1>4 DEF Sound, InPlace
<1>6. Holds(h)' /\ Aimed(h)'
  BY <1>2, <1>3 DEF Sound, Holds, Aimed, Dropping
<1> QED
  BY <1>5, <1>6 DEF Sound

LEMMA BeginsSound ==
    ASSUME TypeOK, NEW h \in Handlers, Sound(h), Begins(h)
    PROVE  Sound(h)'
<1>1. Op(h)' = Op(h) /\ Item(h)' = Item(h) /\ request' = request /\ owner' = owner
  BY DEF Begins, Op, Item
<1>2. Aim(h)' = Aim(h)
  BY <1>1 DEF Aim, Station
<1>3. held[h] = {}
  <2>1. command[h] = NoCommand
    BY DEF Begins
  <2>2. command[h].verb = "none"
    BY <2>1 DEF NoCommand
  <2> QED
    BY <2>2 DEF Sound, Holds
<1>4. Len(request[h].answers) < Len(request[h].items)
  BY DEF Begins
<1>5. CASE Op(h) = "terminate" /\ Send(h, "terminate username", Item(h))
             /\ held' = [held EXCEPT ![h] = SessionsOf({Item(h)})]
  <2>1. command'[h].verb = "terminate username" /\ command'[h].target = Item(h)
          /\ command'[h].state = "sent"
    BY <1>5 DEF Send, TypeOK
  <2>2. held'[h] = SessionsOf({Item(h)}) /\ SessionsOf({Item(h)})' = SessionsOf({Item(h)})
    BY <1>1, <1>5 DEF TypeOK, SessionsOf
  <2>3. InPlace(h)'
    BY <1>1, <1>4, <1>5, <2>1 DEF Sound, InPlace, StepsOf
  <2>4. Holds(h)'
    BY <1>1, <1>5, <2>1, <2>2 DEF Holds, Aim, SessionsOf
  <2>5. Aimed(h)'
    BY <1>1, <1>5, <2>1 DEF Aimed, Dropping
  <2> QED
    BY <2>3, <2>4, <2>5 DEF Sound
<1>6. CASE Op(h) = "kick" /\ Send(h, "terminate if", Item(h))
             /\ held' = [held EXCEPT ![h] = SessionsOf(Users) \cap {Item(h)}]
  <2>1. command'[h].verb = "terminate if" /\ command'[h].target = Item(h)
          /\ command'[h].state = "sent"
    BY <1>6 DEF Send, TypeOK
  <2>2. held'[h] = SessionsOf(Users) \cap {Item(h)}
    BY <1>6 DEF TypeOK
  <2>3. InPlace(h)'
    BY <1>1, <1>4, <1>6, <2>1 DEF Sound, InPlace, StepsOf
  <2>4. Holds(h)'
    BY <1>1, <1>6, <2>1, <2>2 DEF Holds, Aim, SessionsOf
  <2>5. Item(h) \in Ifnames
    BY <1>4, <1>6, HasItem DEF Sound, InPlace, ItemsOf
  <2>6. Aimed(h)'
    BY <1>1, <1>6, <2>1, <2>2, <2>5 DEF Aimed, Dropping
  <2> QED
    BY <2>3, <2>4, <2>6 DEF Sound
<1>7. CASE Op(h) = "restart" /\ Send(h, "match", Item(h))
             /\ held' = [held EXCEPT ![h] = SessionsOf({Item(h)})]
  <2>1. command'[h].verb = "match" /\ command'[h].state = "sent"
    BY <1>7 DEF Send, TypeOK
  <2>2. held'[h] = SessionsOf({Item(h)})
    BY <1>7 DEF TypeOK
  <2>3. InPlace(h)'
    BY <1>1, <1>4, <1>7, <2>1 DEF Sound, InPlace, StepsOf
  <2>4. Holds(h)'
    BY <1>1, <1>7, <2>1, <2>2 DEF Holds, Aim, SessionsOf
  <2>5. Aimed(h)'
    BY <2>1 DEF Aimed, Dropping
  <2> QED
    BY <2>3, <2>4, <2>5 DEF Sound
<1>8. CASE Op(h) \in {"ratelimit", "restore", "drop"} /\ UNCHANGED held
             /\ Send(h, IF Op(h) = "drop" THEN "show" ELSE "match", Item(h))
  <2>1. command'[h].verb = (IF Op(h) = "drop" THEN "show" ELSE "match")
          /\ command'[h].state = "sent"
    BY <1>8 DEF Send, TypeOK
  <2>2. InPlace(h)'
    BY <1>1, <1>4, <1>8, <2>1 DEF Sound, InPlace, StepsOf
  <2>3. Holds(h)'
    BY <1>3, <1>8, <2>1 DEF Holds
  <2>4. Aimed(h)'
    BY <1>1, <1>3, <1>8, <2>1 DEF Aimed, Dropping
  <2> QED
    BY <2>2, <2>3, <2>4 DEF Sound
<1> QED
  BY <1>5, <1>6, <1>7, <1>8 DEF Begins

(* What a lookup reads is held; what a termination ends is held no more.   *)
LEMMA ExecutesSound ==
    ASSUME TypeOK, NEW h \in Handlers, Sound(h), Executes(h)
    PROVE  Sound(h)'
<1>1. Op(h)' = Op(h) /\ Item(h)' = Item(h) /\ request' = request /\ failed' = failed
  BY DEF Executes, Op, Item
<1>2. Aim(h)' = Aim(h)
  BY <1>1 DEF Aim, Station
<1>3. /\ command'[h].verb = command[h].verb
      /\ command'[h].target = command[h].target
      /\ command'[h].state = "executed"
  BY DEF Executes, TypeOK
<1>4. command[h].verb # "none"
  BY DEF Executes, Sound, InPlace
<1>5. InPlace(h)'
  BY <1>1, <1>3, <1>4 DEF Sound, InPlace
<1>6. CASE Reads(h)
  <2>1. found'[h] \in Readings(h) /\ owner' = owner
    BY <1>6 DEF Reads, TypeOK
  <2>2. CASE Op(h) = "restart"
    <3>1. held' = held
      BY <1>6, <2>2 DEF Reads
    <3>2. command[h].verb = "match"
      BY <1>6, <2>2 DEF Reads, Lookups, Sound, InPlace, StepsOf
    <3>3. Holds(h)'
      BY <1>2, <1>3, <1>4, <2>1, <3>1 DEF Sound, Holds, SessionsOf
    <3>4. Aimed(h)'
      BY <1>3, <3>2 DEF Aimed, Dropping
    <3> QED
      BY <1>5, <3>3, <3>4 DEF Sound
  <2>3. CASE Op(h) # "restart"
    <3>1. held'[h] = found'[h]
      BY <1>6, <2>3 DEF Reads, TypeOK
    <3>2. command[h].verb \in Lookups
      BY <1>6 DEF Reads
    <3>3. held'[h] \subseteq SessionsOf(Aim(h))
      <4>1. CASE command[h].verb = "show"
        <5>1. Op(h) = "drop"
          BY <4>1, StepTellsOp DEF Sound
        <5> QED
          BY <2>1, <3>1, <4>1, <5>1 DEF Readings, Aim
      <4>2. CASE command[h].verb = "match"
        <5>1. Op(h) \in {"ratelimit", "restore"}
          BY <2>3, <4>2, StepTellsOp DEF Sound
        <5>2. Aim(h) = Matches[Item(h)]
          BY <5>1 DEF Aim
        <5> QED
          BY <2>1, <3>1, <4>2, <5>2 DEF Readings
      <4> QED
        BY <3>2, <4>1, <4>2 DEF Lookups
    <3>4. Holds(h)'
      BY <1>2, <1>3, <1>4, <2>1, <3>3 DEF Holds, SessionsOf
    <3>5. Aimed(h)'
      BY <1>3, <3>1, <3>2 DEF Aimed, Dropping, Lookups
    <3> QED
      BY <1>5, <3>4, <3>5 DEF Sound
  <2> QED
    BY <2>2, <2>3
<1>7. CASE Terminates(h)
  <2>1. PICK S : End(S) /\ IF command[h].verb = "terminate username"
                           THEN S = SessionsOf({command[h].target})
                           ELSE /\ command[h].verb = "terminate if"
                                /\ S = SessionsOf(Users) \cap {command[h].target}
    BY <1>7 DEF Terminates
  <2>2. held'[h] = held[h] \ S /\ \A i \in held'[h] : owner'[i] = owner[i]
    BY <2>1, EndsAreForgotten
  <2>3. held[h] \subseteq SessionsOf(Aim(h))
    BY <1>4 DEF Sound, Holds
  <2>4. Holds(h)'
    BY <1>2, <1>3, <1>4, <2>2, <2>3 DEF Holds, SessionsOf
  <2>5. CASE command[h].verb = "terminate username"
    <3>1. command[h].target = Item(h) /\ Aim(h) = {Item(h)}
      BY <2>5 DEF Sound, Aimed, InPlace, StepsOf, Aim
    <3>2. held'[h] = {}
      BY <2>1, <2>2, <2>3, <2>5, <3>1
    <3> QED
      BY <1>1, <1>3, <1>5, <2>4, <2>5, <3>1, <3>2 DEF Sound, Aimed, Dropping
  <2>6. CASE command[h].verb = "terminate if"
    <3>1. Aim(h) \subseteq Users
      BY <1>4, AimedAreUsers DEF Sound
    <3>2. held[h] \subseteq SessionsOf(Users)
      BY <2>3, <3>1 DEF SessionsOf
    <3>3. command[h].target \notin held'[h]
      BY <2>1, <2>2, <2>6, <3>2
    <3>4. found' = found
      BY <1>7 DEF Terminates
    <3>5. Aimed(h)'
      BY <1>1, <1>3, <2>2, <2>6, <3>3, <3>4 DEF Sound, Aimed, Dropping
    <3> QED
      BY <1>5, <2>4, <3>5 DEF Sound
  <2> QED
    BY <2>1, <2>5, <2>6
<1>8. CASE Shapes(h)
  <2>1. held' = held /\ owner' = owner /\ command[h].verb \in {"change", "unshape"}
    BY <1>8 DEF Shapes
  <2>2. Holds(h)'
    BY <1>2, <1>3, <1>4, <2>1 DEF Sound, Holds, SessionsOf
  <2>3. Aimed(h)'
    BY <1>3, <2>1 DEF Aimed, Dropping
  <2> QED
    BY <1>5, <2>2, <2>3 DEF Sound
<1> QED
  BY <1>6, <1>7, <1>8 DEF Executes

(* A new command of the item under way that has not executed yet.          *)
LEMMA SendSound ==
    ASSUME TypeOK, NEW h \in Handlers, Sound(h), command[h].verb # "none",
           NEW v, NEW t, Send(h, v, t),
           v \in StepsOf(Op(h)), v # "none", v # "show",
           request' = request, owner' = owner, held' = held,
           v = "terminate username" => t = Item(h),
           v = "terminate if" =>
               t \in Ifnames /\ Op(h) = "drop" /\ held[h] \subseteq found'[h] \cup failed'[h]
    PROVE  Sound(h)'
<1>1. Op(h)' = Op(h) /\ Item(h)' = Item(h)
  BY DEF Op, Item
<1>2. Aim(h)' = Aim(h)
  BY <1>1 DEF Aim, Station
<1>3. command'[h].verb = v
  BY DEF Send, TypeOK
<1>4. command'[h].target = t /\ command'[h].state = "sent"
  BY DEF Send, TypeOK
<1>5. InPlace(h)'
  BY <1>1, <1>3, <1>4 DEF Sound, InPlace
<1>6. Holds(h)'
  BY <1>2, <1>3, <1>4 DEF Sound, Holds, SessionsOf
<1>7. Dropping(h)' => held'[h] \subseteq found'[h] \cup failed'[h]
  BY <1>3 DEF Dropping
<1>8. v = "terminate if" => Op(h) = "drop"
  OBVIOUS
<1>9. Aimed(h)'
  BY <1>1, <1>3, <1>4, <1>7, <1>8 DEF Aimed
<1> QED
  BY <1>5, <1>6, <1>9 DEF Sound

LEMMA LookedUpSound ==
    ASSUME TypeOK, NEW h \in Handlers, Sound(h), LookedUp(h),
           command[h].state = "executed", owner' = owner
    PROVE  Sound(h)'
<1>1. CASE Answer(h, FALSE)
  BY <1>1, AnswerSound
<1>2. CASE (\E i \in found[h] : Acts(h, i)) /\ UNCHANGED <<request, found, held, failed>>
  <2>1. PICK i \in found[h] : Acts(h, i)
    BY <1>2
  <2>2. command[h].verb \in {"show", "match"}
    BY DEF LookedUp, Lookups
  <2>3. Op(h) \in {"restart", "drop", "ratelimit", "restore"}
    BY <2>2, StepTellsOp DEF Sound
  <2>4. CASE Op(h) = "restart"
    <3>1. Send(h, "terminate username", Item(h))
      BY <2>1, <2>4 DEF Acts
    <3> QED
      BY <1>2, <2>2, <2>4, <3>1, SendSound DEF StepsOf
  <2>5. CASE Op(h) = "drop"
    <3>1. Send(h, "terminate if", i)
      BY <2>1, <2>5 DEF Acts
    <3>2. command[h].verb = "show"
      BY <2>2, <2>5, StepTellsOp DEF Sound
    <3>3. held[h] \subseteq found'[h] \cup failed'[h]
      BY <1>2, <3>2 DEF Sound, Aimed
    <3>4. i \in Ifnames
      BY <2>1 DEF TypeOK
    <3> QED
      BY <1>2, <2>2, <2>5, <3>1, <3>3, <3>4, SendSound DEF StepsOf
  <2>6. CASE Op(h) = "ratelimit"
    <3>1. Send(h, "change", i)
      BY <2>1, <2>6 DEF Acts
    <3> QED
      BY <1>2, <2>2, <2>6, <3>1, SendSound DEF StepsOf
  <2>7. CASE Op(h) = "restore"
    <3>1. Send(h, "unshape", i)
      BY <2>1, <2>7 DEF Acts
    <3> QED
      BY <1>2, <2>2, <2>7, <3>1, SendSound DEF StepsOf
  <2> QED
    BY <2>3, <2>4, <2>5, <2>6, <2>7
<1> QED
  BY <1>1, <1>2 DEF LookedUp

(* A target of drop_by_mac leaves found: its session has ended or it is    *)
(* marked as failed.                                                       *)
LEMMA NextTargetSound ==
    ASSUME TypeOK, NEW h \in Handlers, Sound(h), Dropping(h), NEW lost,
           NextTarget(h, lost), owner' = owner,
           command[h].target \in held[h] => command[h].target \in lost
    PROVE  /\ Sound(h)'
           /\ held[h] \subseteq found[h] \cup failed[h]
           /\ failed'[h] = failed[h] \cup lost
<1> DEFINE rest == found[h] \ {command[h].target}
<1>1. held[h] \subseteq found[h] \cup failed[h]
  BY DEF Sound, Aimed
<1>2. failed'[h] = failed[h] \cup lost
  BY DEF NextTarget, TypeOK
<1>3. CASE Answer(h, TRUE)
  BY <1>1, <1>2, <1>3, AnswerSound
<1>4. CASE /\ \E i \in rest : Send(h, "terminate if", i)
           /\ found' = [found EXCEPT ![h] = rest]
           /\ UNCHANGED <<request, held>>
  <2>1. PICK i \in rest : Send(h, "terminate if", i)
    BY <1>4
  <2>2. found'[h] = rest
    BY <1>4 DEF TypeOK
  <2>3. held[h] \subseteq found'[h] \cup failed'[h]
    BY <1>1, <1>2, <2>2
  <2>4. Op(h) = "drop" /\ command[h].verb # "none"
    BY DEF Dropping
  <2>5. i \in Ifnames
    BY <2>1 DEF TypeOK
  <2>6. Sound(h)'
    BY <1>4, <2>1, <2>3, <2>4, <2>5, SendSound DEF StepsOf
  <2> QED
    BY <1>1, <1>2, <2>6
<1> QED
  BY <1>3, <1>4 DEF NextTarget

LEMMA RaisesSound ==
    ASSUME TypeOK, NEW h \in Handlers, Sound(h), Raises(h), owner' = owner
    PROVE  Sound(h)'
<1>1. CASE Dropping(h) /\ NextTarget(h, {command[h].target})
  BY <1>1, NextTargetSound
<1>2. CASE Answer(h, FALSE)
  BY <1>2, AnswerSound
<1> QED
  BY <1>1, <1>2 DEF Raises

LEMMA SucceedsSound ==
    ASSUME TypeOK, NEW h \in Handlers, Sound(h), Succeeds(h)
    PROVE  Sound(h)'
<1>1. command[h].state = "executed" /\ owner' = owner
  BY DEF Succeeds
<1>2. CASE LookedUp(h)
  BY <1>1, <1>2, LookedUpSound
<1>3. CASE Dropping(h) /\ NextTarget(h, {})
  <2>1. command[h].target \notin held[h]
    BY <1>1, <1>3 DEF Sound, Aimed, Dropping
  <2> QED
    BY <1>1, <1>3, <2>1, NextTargetSound
<1>4. CASE Answer(h, TRUE)
  BY <1>4, AnswerSound
<1> QED
  BY <1>2, <1>3, <1>4 DEF Succeeds

(* An attempt that is over, or about to be repeated, changes no session.   *)
LEMMA AttemptSound ==
    ASSUME TypeOK, NEW h \in Handlers, Sound(h),
           \/ /\ command[h].state # "none"
              /\ command[h].attempt < MaxRetries
              /\ command' = [command EXCEPT ![h].state = "backoff"]
           \/ Retries(h),
           UNCHANGED <<owner, request, found, held, failed>>
    PROVE  Sound(h)'
<1>1. Op(h)' = Op(h) /\ Item(h)' = Item(h)
  BY DEF Op, Item
<1>2. Aim(h)' = Aim(h)
  BY <1>1 DEF Aim, Station
<1>3. /\ command'[h].verb = command[h].verb
      /\ command'[h].target = command[h].target
  BY DEF Retries, TypeOK
<1>4. /\ command'[h].state \in {"sent", "backoff"}
      /\ command'[h].state = "backoff" => command'[h].attempt < MaxRetries
      /\ command[h].state # "none"
  <2>1. CASE Retries(h)
    <3>1. command'[h].state = "sent"
      BY <2>1 DEF Retries, TypeOK
    <3> QED
      BY <2>1, <3>1 DEF Retries
  <2>2. CASE /\ command[h].state # "none"
             /\ command[h].attempt < MaxRetries
             /\ command' = [command EXCEPT ![h].state = "backoff"]
    <3>1. command'[h].state = "backoff" /\ command'[h].attempt = command[h].attempt
      BY <2>2 DEF TypeOK
    <3> QED
      BY <2>2, <3>1
  <2> QED
    BY <2>1, <2>2
<1>5. InPlace(h)'
  BY <1>1, <1>3, <1>4 DEF Sound, InPlace
<1>6. Holds(h)'
  BY <1>2, <1>3 DEF Sound, Holds, SessionsOf
<1>7. Aimed(h)'
  BY <1>1, <1>3, <1>4 DEF Sound, Aimed, Dropping
<1> QED
  BY <1>5, <1>6, <1>7 DEF Sound

LEMMA RepliesSound ==
    ASSUME TypeOK, NEW h \in Handlers, Sound(h), Replies(h)
    PROVE  Sound(h)'
<1>1. request'[h] = Idle
  BY DEF Replies, TypeOK
<1>2. Op(h)' = "none" /\ request'[h].items = << >>
  BY <1>1 DEF Op, Idle
<1>3. command[h].verb = "none"
  <2>1. Len(request[h].answers) = Len(request[h].items)
    BY DEF Replies
  <2>2. Len(request[h].items) \in Nat
    BY DEF TypeOK
  <2> QED
    BY <2>1, <2>2 DEF Sound, InPlace
<1>4. command' = command /\ held' = held
  BY DEF Replies
<1>5. << >> \in Seq(ItemsOf("none"))
  OBVIOUS
<1>6. InPlace(h)'
  <2>1. command'[h].verb \in StepsOf("none")
    BY <1>3, <1>4 DEF StepsOf
  <2>2. request'[h].items \in Seq(ItemsOf("none"))
    BY <1>2, <1>5
  <2> QED
    BY <1>2, <1>3, <1>4, <2>1, <2>2 DEF Sound, InPlace
<1>7. Holds(h)' /\ Aimed(h)'
  BY <1>3, <1>4 DEF Sound, Holds, Aimed, Dropping
<1> QED
  BY <1>6, <1>7 DEF Sound

(* Each step of a handler keeps the handler sound.                         *)
LEMMA ProceedsSound ==
    ASSUME TypeOK, NEW h \in Handlers, Sound(h), Proceeds(h)
    PROVE  Sound(h)'
<1>1. CASE TimesOut(h)
  <2>1. command[h].state # "none" /\ owner' = owner
    BY <1>1 DEF TimesOut
  <2>2. CASE Raises(h)
    BY <2>1, <2>2, RaisesSound
  <2>3. CASE /\ command[h].attempt < MaxRetries
             /\ command' = [command EXCEPT ![h].state = "backoff"]
             /\ UNCHANGED <<request, found, held, failed>>
    BY <2>1, <2>3, AttemptSound
  <2> QED
    BY <1>1, <2>2, <2>3 DEF TimesOut
<1>2. CASE Refused(h)
  BY <1>2, RaisesSound DEF Refused
<1>3. CASE Retries(h)
  BY <1>3, AttemptSound DEF Retries
<1> QED
  BY <1>1, <1>2, <1>3, BeginsSound, ExecutesSound, SucceedsSound, RepliesSound
     DEF Proceeds

(* Who steps touches the others only by ending sessions.                   *)
LEMMA OthersLeftAlone ==
    ASSUME TypeOK, NEW h \in Handlers, Sound(h), Asked(h) \/ Proceeds(h),
           NEW g \in Handlers, g # h
    PROVE  /\ request'[g] = request[g]
           /\ command'[g] = command[g]
           /\ found'[g] = found[g]
           /\ failed'[g] = failed[g]
           /\ held'[g] \subseteq held[g]
           /\ \A i \in held'[g] : owner'[i] = owner[i]
<1>1. CASE Asked(h)
  BY <1>1 DEF Asked, Arrives, TypeOK
<1>2. CASE Begins(h)
  BY <1>2 DEF Begins, Send, TypeOK
<1>3. CASE Executes(h)
  <2>1. request' = request /\ failed' = failed /\ command'[g] = command[g]
    BY <1>3 DEF Executes, TypeOK
  <2>2. CASE Reads(h)
    BY <2>1, <2>2 DEF Reads, TypeOK
  <2>3. CASE Terminates(h)
    <3>1. found' = found /\ \E S : End(S)
      BY <2>3 DEF Terminates
    <3> QED
      BY <2>1, <3>1, EndsAreForgotten
  <2>4. CASE Shapes(h)
    BY <2>1, <2>4 DEF Shapes
  <2> QED
    BY <1>3, <2>2, <2>3, <2>4 DEF Executes
<1>4. ASSUME NEW ok \in BOOLEAN, Answer(h, ok)
      PROVE  /\ request'[g] = request[g] /\ command'[g] = command[g]
             /\ found'[g] = found[g] /\ held'[g] = held[g]
  BY <1>4 DEF Answer, TypeOK
<1>5. ASSUME NEW lost, NextTarget(h, lost)
      PROVE  /\ request'[g] = request[g] /\ command'[g] = command[g]
             /\ found'[g] = found[g] /\ held'[g] = held[g]
             /\ failed'[g] = failed[g]
  <2>1. failed'[g] = failed[g]
    BY <1>5 DEF NextTarget, TypeOK
  <2> QED
    BY <1>4, <1>5, <2>1 DEF NextTarget, Send, TypeOK
<1>6. CASE LookedUp(h) /\ UNCHANGED <<owner, shaped>>
  <2>1. CASE Answer(h, FALSE)
    BY <1>4, <1>6, <2>1 DEF LookedUp
  <2>2. CASE (\E i \in found[h] : Acts(h, i)) /\ UNCHANGED <<request, found, held>>
    <3>1. PICK i \in found[h] : Acts(h, i)
      BY <2>2
    <3>2. command'[g] = command[g]
      <4>1. ASSUME NEW v, NEW t, Send(h, v, t) PROVE command'[g] = command[g]
        BY <4>1 DEF Send, TypeOK
      <4>2. Op(h) \in {"restart", "drop", "ratelimit", "restore"}
        BY <1>6, StepTellsOp DEF LookedUp, Lookups, Sound
      <4> QED
        BY <3>1, <4>1, <4>2 DEF Acts
    <3> QED
      BY <1>6, <2>2, <3>2 DEF LookedUp
  <2> QED
    BY <1>6, <2>1, <2>2 DEF LookedUp
<1>7. CASE Succeeds(h)
  BY <1>4, <1>5, <1>6, <1>7 DEF Succeeds
<1>8. CASE Raises(h) /\ UNCHANGED <<owner, shaped>>
  BY <1>4, <1>5, <1>8 DEF Raises
<1>9. CASE TimesOut(h)
  BY <1>8, <1>9 DEF TimesOut, TypeOK
<1>10. CASE Refused(h)
  BY <1>8, <1>10 DEF Refused
<1>11. CASE Retries(h)
  BY <1>11 DEF Retries, TypeOK
<1>12. CASE Replies(h)
  BY <1>12 DEF Replies, TypeOK
<1> QED
  BY <1>1, <1>2, <1>3, <1>7, <1>9, <1>10, <1>11, <1>12 DEF Proceeds

-----------------------------------------------------------------------------
(* Types.                                                                  *)
LEMMA AnswerTypes ==
    ASSUME TypeOK, NEW h \in Handlers, NEW ok \in BOOLEAN, Answer(h, ok),
           UNCHANGED <<owner, shaped>>, failed' \in [Handlers -> SUBSET Ifnames]
    PROVE  TypeOK'
<1>1. Append(request[h].answers, ok) \in Seq(BOOLEAN)
  BY DEF TypeOK
<1>2. request' \in [Handlers -> [op : Singles \cup Bulks \cup {"none"},
                                items : Seq(Users \cup Ifnames),
                                answers : Seq(BOOLEAN)]]
  BY <1>1 DEF Answer, TypeOK
<1>3. 0 \in 0..MaxRetries
  BY BoundAssumption
<1>4. command' \in [Handlers -> [verb : Verbs \cup {"none"},
                                target : Users \cup Ifnames \cup {None},
                                attempt : 0..MaxRetries,
                                state : {"none", "sent", "executed", "backoff"}]]
  BY <1>3 DEF Answer, NoCommand, TypeOK
<1>5. held' \in [Handlers -> SUBSET Ifnames] /\ found' \in [Handlers -> SUBSET Ifnames]
  BY DEF Answer, TypeOK
<1> QED
  BY <1>2, <1>4, <1>5 DEF TypeOK

LEMMA SendTypes ==
    ASSUME TypeOK, NEW h \in Handlers, NEW v \in Verbs, NEW t \in Users \cup Ifnames,
           Send(h, v, t), UNCHANGED <<owner, shaped, request>>,
           failed' \in [Handlers -> SUBSET Ifnames],
           held' \in [Handlers -> SUBSET Ifnames],
           found' \in [Handlers -> SUBSET Ifnames]
    PROVE  TypeOK'
<1>1. 0 \in 0..MaxRetries
  BY BoundAssumption
<1>2. command' \in [Handlers -> [verb : Verbs \cup {"none"},
                                target : Users \cup Ifnames \cup {None},
                                attempt : 0..MaxRetries,
                                state : {"none", "sent", "executed", "backoff"}]]
  BY <1>1 DEF Send, TypeOK
<1> QED
  BY <1>2 DEF TypeOK

LEMMA BeginsTypes ==
    ASSUME TypeOK, NEW h \in Handlers, Sound(h), Begins(h)
    PROVE  TypeOK'
<1>1. Item(h) \in Users \cup Ifnames
  BY HasItem DEF Begins, Sound, InPlace, ItemsOf
<1>2. failed' \in [Handlers -> SUBSET Ifnames] /\ UNCHANGED <<owner, shaped, request, found>>
  BY DEF Begins, TypeOK
<1>3. held' \in [Handlers -> SUBSET Ifnames]
  BY DEF Begins, SessionsOf, TypeOK
<1>4. found' \in [Handlers -> SUBSET Ifnames]
  BY <1>2 DEF TypeOK
<1>5. PICK v \in Verbs : Send(h, v, Item(h))
  BY DEF Begins, Verbs, Lookups
<1> QED
  BY <1>1, <1>2, <1>3, <1>4, <1>5, SendTypes

LEMMA EndTypes ==
    ASSUME TypeOK, NEW S, End(S)
    PROVE  /\ owner' \in [Ifnames -> Users \cup {None}]
           /\ shaped' \in SUBSET Ifnames
           /\ held' \in [Handlers -> SUBSET Ifnames]
BY DEF End, TypeOK

(* A command that moves on within its attempts.                            *)
LEMMA StateTypes ==
    ASSUME TypeOK, NEW h \in Handlers, NEW s \in {"sent", "executed", "backoff"},
           NEW n \in 0..MaxRetries,
           command' = [command EXCEPT ![h] = [@ EXCEPT !.state = s, !.attempt = n]]
    PROVE  command' \in [Handlers -> [verb : Verbs \cup {"none"},
                                target : Users \cup Ifnames \cup {None},
                                attempt : 0..MaxRetries,
                                state : {"none", "sent", "executed", "backoff"}]]
<1> DEFINE C == [verb : Verbs \cup {"none"},
                 target : Users \cup Ifnames \cup {None},
                 attempt : 0..MaxRetries,
                 state : {"none", "sent", "executed", "backoff"}]
<1>1. command \in [Handlers -> C]
  BY DEF TypeOK
<1>2. command[h] \in C
  BY <1>1
<1>3. [command[h] EXCEPT !.state = s, !.attempt = n] \in C
  BY <1>2
<1>4. command' = [command EXCEPT ![h] = [command[h] EXCEPT !.state = s, !.attempt = n]]
  OBVIOUS
<1> QED
  <2> HIDE DEF C
  <2>1. command' \in [Handlers -> C]
    BY <1>1, <1>3, <1>4
  <2> QED
    BY <2>1 DEF C

LEMMA ExecutesTypes ==
    ASSUME TypeOK, NEW h \in Handlers, Executes(h)
    PROVE  TypeOK'
<1>1. command' \in [Handlers -> [verb : Verbs \cup {"none"},
                                target : Users \cup Ifnames \cup {None},
                                attempt : 0..MaxRetries,
                                state : {"none", "sent", "executed", "backoff"}]]
  <2>1. command[h].attempt \in 0..MaxRetries
    BY DEF TypeOK
  <2>2. command' = [command EXCEPT ![h] =
                     [@ EXCEPT !.state = "executed", !.attempt = command[h].attempt]]
    BY DEF Executes, TypeOK
  <2> QED
    BY <2>1, <2>2, StateTypes
<1>2. UNCHANGED <<request, failed>>
  BY DEF Executes
<1>3. CASE Reads(h)
  <2>1. PICK rows \in Readings(h) :
            /\ found' = [found EXCEPT ![h] = rows]
            /\ held' = IF Op(h) = "restart" THEN held ELSE [held EXCEPT ![h] = rows]
    BY <1>3 DEF Reads
  <2>2. rows \subseteq Ifnames
    BY DEF Readings, SessionsOf
  <2> QED
    BY <1>1, <1>2, <1>3, <2>1, <2>2 DEF Reads, TypeOK
<1>4. CASE Terminates(h)
  <2>1. found' = found /\ \E S : End(S)
    BY <1>4 DEF Terminates
  <2>2. /\ owner' \in [Ifnames -> Users \cup {None}]
        /\ shaped' \in SUBSET Ifnames
        /\ held' \in [Handlers -> SUBSET Ifnames]
    BY <2>1, EndTypes
  <2> QED
    BY <1>1, <1>2, <2>1, <2>2 DEF TypeOK
<1>5. CASE Shapes(h)
  <2>1. shaped' \in SUBSET Ifnames
    BY <1>5 DEF Shapes, SessionsOf, TypeOK
  <2> QED
    BY <1>1, <1>2, <1>5, <2>1 DEF Shapes, TypeOK
<1> QED
  BY <1>3, <1>4, <1>5 DEF Executes

LEMMA NextTargetTypes ==
    ASSUME TypeOK, NEW h \in Handlers, NEW lost \in SUBSET Ifnames,
           NextTarget(h, lost), UNCHANGED <<owner, shaped>>
    PROVE  TypeOK'
<1>1. failed' \in [Handlers -> SUBSET Ifnames]
  BY DEF NextTarget, TypeOK
<1>2. CASE Answer(h, TRUE)
  BY <1>1, <1>2, AnswerTypes
<1>3. ASSUME NEW i \in found[h] \ {command[h].target}, Send(h, "terminate if", i),
             found' = [found EXCEPT ![h] = found[h] \ {command[h].target}],
             UNCHANGED <<request, held>>
      PROVE  TypeOK'
  <2>1. i \in Ifnames /\ found' \in [Handlers -> SUBSET Ifnames]
    BY <1>3 DEF TypeOK
  <2>2. held' \in [Handlers -> SUBSET Ifnames]
    BY <1>3 DEF TypeOK
  <2>3. "terminate if" \in Verbs
    BY DEF Verbs
  <2> QED
    BY <1>1, <1>3, <2>1, <2>2, <2>3, SendTypes
<1> QED
  BY <1>2, <1>3 DEF NextTarget

LEMMA LookedUpTypes ==
    ASSUME TypeOK, NEW h \in Handlers, Sound(h), LookedUp(h), UNCHANGED <<owner, shaped>>
    PROVE  TypeOK'
<1>1. failed' \in [Handlers -> SUBSET Ifnames]
  BY DEF LookedUp, TypeOK
<1>2. CASE Answer(h, FALSE)
  BY <1>1, <1>2, AnswerTypes
<1>3. ASSUME NEW i \in found[h], Acts(h, i), UNCHANGED <<request, found, held>>
      PROVE  TypeOK'
  <2>1. Op(h) \in {"restart", "drop", "ratelimit", "restore"} /\ command[h].verb # "none"
    BY StepTellsOp DEF LookedUp, Lookups, Sound
  <2>2. i \in Users \cup Ifnames
    BY DEF TypeOK
  <2>3. Item(h) \in Users \cup Ifnames
    BY <2>1, HasItem DEF Sound, InPlace, ItemsOf
  <2>4. \E v \in Verbs, t \in Users \cup Ifnames : Send(h, v, t)
    BY <1>3, <2>1, <2>2, <2>3 DEF Acts, Verbs
  <2>5. /\ held' \in [Handlers -> SUBSET Ifnames]
        /\ found' \in [Handlers -> SUBSET Ifnames]
    BY <1>3 DEF TypeOK
  <2> QED
    BY <1>1, <1>3, <2>4, <2>5, SendTypes
<1> QED
  BY <1>2, <1>3 DEF LookedUp

LEMMA RaisesTypes ==
    ASSUME TypeOK, NEW h \in Handlers, Sound(h), Raises(h), UNCHANGED <<owner, shaped>>
    PROVE  TypeOK'
<1>1. CASE Dropping(h) /\ NextTarget(h, {command[h].target})
  <2>1. {command[h].target} \in SUBSET Ifnames
    BY <1>1 DEF Dropping, Sound, Aimed
  <2> QED
    BY <1>1, <2>1, NextTargetTypes
<1>2. CASE Answer(h, FALSE) /\ UNCHANGED failed
  <2>1. failed' \in [Handlers -> SUBSET Ifnames]
    BY <1>2 DEF TypeOK
  <2> QED
    BY <1>2, <2>1, AnswerTypes
<1> QED
  BY <1>1, <1>2 DEF Raises

LEMMA AttemptTypes ==
    ASSUME TypeOK, NEW h \in Handlers, Sound(h),
           \/ command' = [command EXCEPT ![h].state = "backoff"]
           \/ Retries(h),
           UNCHANGED <<owner, shaped, request, found, held, failed>>
    PROVE  TypeOK'
<1>1. command[h].attempt \in 0..MaxRetries /\ MaxRetries \in Nat
  BY BoundAssumption DEF TypeOK
<1>2. PICK s \in {"sent", "executed", "backoff"}, n \in 0..MaxRetries :
        command' = [command EXCEPT ![h] = [@ EXCEPT !.state = s, !.attempt = n]]
  <2>1. CASE command' = [command EXCEPT ![h].state = "backoff"]
    <3>1. command' = [command EXCEPT ![h] =
                       [@ EXCEPT !.state = "backoff", !.attempt = command[h].attempt]]
      BY <2>1 DEF TypeOK
    <3> QED
      BY <1>1, <3>1
  <2>2. CASE Retries(h)
    <3>1. command[h].attempt + 1 \in 0..MaxRetries
      BY <1>1, <2>2 DEF Retries, Sound, InPlace
    <3>2. command' = [command EXCEPT ![h] =
                       [@ EXCEPT !.state = "sent", !.attempt = command[h].attempt + 1]]
      BY <2>2 DEF Retries
    <3> QED
      BY <3>1, <3>2
  <2> QED
    BY <2>1, <2>2
<1>3. command' \in [Handlers -> [verb : Verbs \cup {"none"},
                                target : Users \cup Ifnames \cup {None},
                                attempt : 0..MaxRetries,
                                state : {"none", "sent", "executed", "backoff"}]]
  BY <1>2, StateTypes
<1> QED
  BY <1>3 DEF TypeOK

LEMMA ProceedsTypes ==
    ASSUME TypeOK, NEW h \in Handlers, Sound(h), Proceeds(h)
    PROVE  TypeOK'
<1>1. CASE Succeeds(h)
  <2>1. UNCHANGED <<owner, shaped>>
    BY <1>1 DEF Succeeds
  <2>2. CASE LookedUp(h)
    BY <2>1, <2>2, LookedUpTypes
  <2>3. CASE NextTarget(h, {})
    BY <2>1, <2>3, NextTargetTypes
  <2>4. CASE Answer(h, TRUE) /\ UNCHANGED failed
    <3>1. failed' \in [Handlers -> SUBSET Ifnames]
      BY <2>4 DEF TypeOK
    <3> QED
      BY <2>1, <2>4, <3>1, AnswerTypes
  <2> QED
    BY <1>1, <2>2, <2>3, <2>4 DEF Succeeds
<1>2. CASE TimesOut(h)
  <2>1. UNCHANGED <<owner, shaped>>
    BY <1>2 DEF TimesOut
  <2>2. CASE Raises(h)
    BY <2>1, <2>2, RaisesTypes
  <2>3. CASE /\ command' = [command EXCEPT ![h].state = "backoff"]
             /\ UNCHANGED <<request, found, held, failed>>
    BY <2>1, <2>3, AttemptTypes
  <2> QED
    BY <1>2, <2>2, <2>3 DEF TimesOut
<1>3. CASE Refused(h)
  BY <1>3, RaisesTypes DEF Refused
<1>4. CASE Retries(h)
  BY <1>4, AttemptTypes DEF Retries
<1>5. CASE Replies(h)
  <2>1. << >> \in Seq(Users \cup Ifnames) /\ << >> \in Seq(BOOLEAN)
    OBVIOUS
  <2>2. Idle \in [op : Singles \cup Bulks \cup {"none"},
                 items : Seq(Users \cup Ifnames), answers : Seq(BOOLEAN)]
    BY <2>1 DEF Idle
  <2>3. request' \in [Handlers -> [op : Singles \cup Bulks \cup {"none"},
                 items : Seq(Users \cup Ifnames), answers : Seq(BOOLEAN)]]
    BY <1>5, <2>2 DEF Replies, TypeOK
  <2> QED
    BY <1>5, <2>3 DEF Replies, TypeOK
<1> QED
  BY <1>1, <1>2, <1>3, <1>4, <1>5, BeginsTypes, ExecutesTypes DEF Proceeds

(* What a request may ask for.                                             *)
LEMMA AskedIs ==
    ASSUME NEW h \in Handlers, Asked(h)
    PROVE  \E op \in Singles \cup Bulks : \E items \in Seq(ItemsOf(op)) : Arrives(h, op, items)
<1>1. ASSUME NEW op \in Bulks, NEW items \in Batches, Arrives(h, op, items)
      PROVE  items \in Seq(ItemsOf(op))
  <2>1. PICK n \in 1..MaxItems : items \in [1..n -> Users]
    BY DEF Batches
  <2>2. n \in Nat
    BY <2>1, BoundAssumption
  <2>3. items \in Seq(Users)
    BY <2>1, <2>2
  <2> QED
    BY <2>3 DEF Bulks, ItemsOf
<1>2. ASSUME NEW op \in {"restart", "drop"}, NEW u \in Users
      PROVE  <<u>> \in Seq(ItemsOf(op)) /\ op \in Singles
  <2>1. <<u>> \in Seq(Users)
    OBVIOUS
  <2>2. ItemsOf(op) = Users /\ op \in Singles
    BY DEF ItemsOf, Singles
  <2> QED
    BY <2>1, <2>2
<1>3. ASSUME NEW i \in Ifnames
      PROVE  <<i>> \in Seq(ItemsOf("kick")) /\ "kick" \in Singles
  <2>1. <<i>> \in Seq(Ifnames)
    OBVIOUS
  <2> QED
    BY <2>1 DEF ItemsOf, Singles
<1>4. CASE \E op \in Bulks, items \in Batches : Arrives(h, op, items)
  BY <1>1, <1>4
<1>5. CASE \E op \in {"restart", "drop"}, u \in Users : Arrives(h, op, <<u>>)
  BY <1>2, <1>5
<1>6. CASE \E i \in Ifnames : Arrives(h, "kick", <<i>>)
  BY <1>3, <1>6
<1> QED
  BY <1>4, <1>5, <1>6 DEF Asked

LEMMA AskedTypes ==
    ASSUME TypeOK, NEW h \in Handlers, Asked(h)
    PROVE  TypeOK'
<1>1. PICK op \in Singles \cup Bulks :
          \E items \in Seq(ItemsOf(op)) : Arrives(h, op, items)
  BY AskedIs
<1> PICK items \in Seq(ItemsOf(op)) : Arrives(h, op, items)
  BY <1>1
<1>2. items \in Seq(Users \cup Ifnames) /\ << >> \in Seq(BOOLEAN)
  BY DEF ItemsOf
<1>3. request' \in [Handlers -> [op : Singles \cup Bulks \cup {"none"},
                 items : Seq(Users \cup Ifnames), answers : Seq(BOOLEAN)]]
  BY <1>2 DEF Arrives, TypeOK
<1> QED
  BY <1>3 DEF Arrives, TypeOK

-----------------------------------------------------------------------------
(* The inductive invariant.                                                *)
LEMMA InitIInv == Init => IInv
<1> SUFFICES ASSUME Init PROVE IInv
  OBVIOUS
<1>1. << >> \in Seq(Users \cup Ifnames) /\ << >> \in Seq(BOOLEAN) /\ << >> \in Seq(ItemsOf("none"))
  OBVIOUS
<1>2. 0 \in 0..MaxRetries
  BY BoundAssumption
<1>3. TypeOK
  <2>1. Idle \in [op : Singles \cup Bulks \cup {"none"},
                 items : Seq(Users \cup Ifnames), answers : Seq(BOOLEAN)]
    BY <1>1 DEF Idle
  <2>2. NoCommand \in [verb : Verbs \cup {"none"},
                       target : Users \cup Ifnames \cup {None},
                       attempt : 0..MaxRetries,
                       state : {"none", "sent", "executed", "backoff"}]
    BY <1>2 DEF NoCommand
  <2> QED
    BY <2>1, <2>2 DEF Init, TypeOK
<1>4. ASSUME NEW h \in Handlers PROVE Sound(h)
  <2>1. Op(h) = "none" /\ request[h].items = << >> /\ held[h] = {}
    BY DEF Init, Op, Idle
  <2>2. command[h].verb = "none" /\ command[h].state = "none"
    BY DEF Init, NoCommand
  <2>3. InPlace(h)
    BY <1>1, <2>1, <2>2 DEF InPlace, StepsOf
  <2> QED
    BY <2>1, <2>2, <2>3 DEF Sound, Holds, Aimed, Dropping
<1> QED
  BY <1>3, <1>4 DEF IInv

LEMMA NextIInv ==
    ASSUME IInv, [Next]_vars
    PROVE  IInv'
<1> USE DEF IInv
<1>1. ASSUME NEW i \in Ifnames, NEW u \in Users, Connects(i, u)
      PROVE  IInv'
  <2>1. TypeOK'
    BY <1>1 DEF Connects, TypeOK
  <2>2. ASSUME NEW g \in Handlers PROVE Sound(g)'
    <3>1. i \notin held[g]
      <4>1. CASE command[g].verb = "none"
        BY <4>1 DEF Sound, Holds
      <4>2. CASE command[g].verb # "none"
        BY <1>1, <4>2, AimedAreUsers, NoneAssumption DEF Sound, Holds, SessionsOf, Connects
      <4> QED
        BY <4>1, <4>2
    <3>2. \A j \in held'[g] : owner'[j] = owner[j]
      BY <1>1, <3>1 DEF Connects, TypeOK
    <3> QED
      BY <1>1, <3>2, LeftAlone DEF Connects
  <2> QED
    BY <2>1, <2>2
<1>2. ASSUME NEW i \in Ifnames, HangsUp(i)
      PROVE  IInv'
  <2>1. TypeOK'
    BY <1>2, EndTypes DEF HangsUp, TypeOK
  <2>2. ASSUME NEW g \in Handlers PROVE Sound(g)'
    <3>1. held'[g] \subseteq held[g] /\ \A j \in held'[g] : owner'[j] = owner[j]
      BY <1>2, EndsAreForgotten DEF HangsUp
    <3> QED
      BY <1>2, <3>1, LeftAlone DEF HangsUp
  <2> QED
    BY <2>1, <2>2
<1>3. ASSUME NEW h \in Handlers, Asked(h) \/ Proceeds(h)
      PROVE  IInv'
  <2>1. TypeOK'
    BY <1>3, AskedTypes, ProceedsTypes
  <2>2. Sound(h)'
    BY <1>3, AskedIs, ArrivesSound, ProceedsSound
  <2>3. ASSUME NEW g \in Handlers, g # h PROVE Sound(g)'
    BY <1>3, <2>3, OthersLeftAlone, LeftAlone
  <2> QED
    BY <2>1, <2>2, <2>3
<1>4. CASE UNCHANGED vars
  <2>1. TypeOK'
    BY <1>4 DEF vars, TypeOK
  <2>2. ASSUME NEW g \in Handlers PROVE Sound(g)'
    BY <1>4, LeftAlone DEF vars
  <2> QED
    BY <2>1, <2>2
<1> QED
  BY <1>1, <1>2, <1>3, <1>4 DEF Next

(* The types of SessionControl, for any number of subscribers, interfaces, *)
(* handlers, retries and items.                                            *)
THEOREM TypeCorrect == Spec => []TypeOK
<1>1. IInv => TypeOK
  BY DEF IInv
<1> QED
  BY <1>1, InitIInv, NextIInv, PTL DEF Spec

(* Whatever is touched and still held is named by the item, or belongs to  *)
(* a subscriber whose name the pattern of a rate limit matches.            *)
THEOREM OthersAreSpared == Spec => OthersByReuseOrPattern
<1>1. ASSUME IInv, [Next]_vars, NEW h \in Handlers, Executes(h), NEW i \in held[h]
      PROVE  \/ i \in Named(h)
             \/ Op(h) \in {"ratelimit", "restore"} /\ owner[i] \in Matches[Item(h)]
  <2>1. command[h].verb # "none" /\ Sound(h) /\ i \in Ifnames
    BY <1>1 DEF IInv, Sound, InPlace, Executes, TypeOK
  <2>2. owner[i] \in Aim(h)
    BY <1>1, <2>1 DEF Sound, Holds, SessionsOf
  <2>3. CASE Op(h) = "kick"
    <3>1. command[h].verb = "terminate if"
      BY <2>1, <2>3 DEF Sound, InPlace, StepsOf
    <3>2. i = Item(h)
      BY <1>1, <2>1, <2>3, <3>1 DEF Sound, Aimed
    <3> QED
      BY <2>3, <3>2 DEF Named
  <2>4. CASE Op(h) = "drop"
    BY <2>1, <2>2, <2>4 DEF Named, Aim, SessionsOf
  <2>5. CASE Op(h) \in {"ratelimit", "restore"}
    BY <2>2, <2>5 DEF Aim
  <2>6. CASE Op(h) \notin {"kick", "drop", "ratelimit", "restore"}
    BY <2>1, <2>2, <2>6 DEF Named, Aim, SessionsOf
  <2> QED
    BY <2>3, <2>4, <2>5, <2>6
<1>2. IInv /\ [Next]_vars =>
        [\A h \in Handlers : Executes(h) =>
            \A i \in Ifnames : Touched(i) =>
                \/ i \in Named(h)
                \/ i \notin held[h]
                \/ Op(h) \in {"ratelimit", "restore"} /\ owner[i] \in Matches[Item(h)]]_vars
  BY <1>1
<1> QED
  BY <1>2, InitIInv, NextIInv, PTL DEF Spec, OthersByReuseOrPattern

-----------------------------------------------------------------------------
(* Success.                                                                *)
LEMMA OneAnswerOnly ==
    ASSUME NEW s \in Seq(BOOLEAN)
    PROVE  /\ Append(s, TRUE) # s
           /\ Append(s, TRUE) # Append(s, FALSE)
           /\ Append(s, TRUE) # << >>
<1>1. Len(Append(s, TRUE)) = Len(s) + 1 /\ Len(s) \in Nat
  OBVIOUS
<1>2. Append(s, TRUE)[Len(s) + 1] = TRUE /\ Append(s, FALSE)[Len(s) + 1] = FALSE
  OBVIOUS
<1>3. ASSUME Append(s, TRUE) = s PROVE FALSE
  <2>1. Len(Append(s, TRUE)) = Len(s)
    BY <1>3, Zenon
  <2> QED
    BY <1>1, <2>1
<1>4. ASSUME Append(s, TRUE) = Append(s, FALSE) PROVE FALSE
  <2>1. Append(s, TRUE)[Len(s) + 1] = Append(s, FALSE)[Len(s) + 1]
    BY <1>4, Zenon
  <2> QED
    BY <1>2, <2>1
<1>5. ASSUME Append(s, TRUE) = << >> PROVE FALSE
  <2>1. Len(Append(s, TRUE)) = Len(<< >>)
    BY <1>5, Zenon
  <2>2. Len(<< >>) = 0
    OBVIOUS
  <2> QED
    BY <1>1, <2>1, <2>2
<1> QED
  BY <1>3, <1>4, <1>5

(* A handler answers success for what it did, by a command that executed,  *)
(* or after the last target of drop_by_mac.                                *)
LEMMA SuccessSteps ==
    ASSUME TypeOK, NEW h \in Handlers, Sound(h), Asked(h) \/ Proceeds(h), Answered(h, TRUE)
    PROVE  \/ /\ command[h].state = "executed"
              /\ command[h].verb \notin Lookups
              /\ command[h].verb # "none"
              /\ ~Dropping(h)
           \/ \E lost \in SUBSET {command[h].target} :
                /\ Dropping(h)
                /\ NextTarget(h, lost)
                /\ command[h].state = "executed" \/ lost = {command[h].target}
<1>1. request[h].answers \in Seq(BOOLEAN)
  BY DEF TypeOK
<1>2. request'[h].answers # request[h].answers /\ request'[h].answers # << >>
  BY <1>1, OneAnswerOnly DEF Answered
<1>3. ASSUME Answer(h, FALSE) PROVE FALSE
  <2>1. request'[h].answers = Append(request[h].answers, FALSE)
    BY <1>3 DEF Answer, TypeOK
  <2>2. request'[h].answers = Append(request[h].answers, TRUE)
    BY DEF Answered
  <2> QED
    BY <1>1, <2>1, <2>2, OneAnswerOnly, Zenon
<1>4. ~Asked(h)
  BY <1>2, AskedIs DEF Arrives, TypeOK
<1>5. ~Begins(h) /\ ~Executes(h) /\ ~Retries(h)
  BY <1>2 DEF Begins, Executes, Retries
<1>6. ~Replies(h)
  BY <1>2 DEF Replies, Idle, TypeOK
<1>7. ~LookedUp(h)
  BY <1>2, <1>3 DEF LookedUp
<1>8. Raises(h) => Dropping(h) /\ NextTarget(h, {command[h].target})
  BY <1>3 DEF Raises
<1>9. CASE Succeeds(h)
  <2>1. command[h].verb # "none" /\ command[h].state = "executed"
    BY <1>9 DEF Succeeds, Sound, InPlace
  <2> QED
    BY <1>7, <1>9, <2>1 DEF Succeeds
<1>10. CASE TimesOut(h) \/ Refused(h)
  <2>1. Raises(h)
    BY <1>2, <1>10 DEF TimesOut, Refused
  <2> QED
    BY <1>8, <2>1
<1> QED
  BY <1>4, <1>5, <1>6, <1>9, <1>10 DEF Proceeds

LEMMA SuccessStep ==
    ASSUME IInv, [Next]_vars, NEW h \in Handlers, Answered(h, TRUE),
           Op(h) \in {"terminate", "kick", "restart", "drop"}
    PROVE  held[h] \subseteq failed'[h]
<1>1. TypeOK /\ Sound(h)
  BY DEF IInv
<1>2. request'[h] # request[h]
  <2>1. request[h].answers \in Seq(BOOLEAN)
    BY <1>1 DEF TypeOK
  <2> QED
    BY <2>1, OneAnswerOnly DEF Answered
<1>3. Asked(h) \/ Proceeds(h)
  <2>1. ~UNCHANGED vars
    BY <1>2 DEF vars
  <2>2. ASSUME NEW g \in Handlers, Asked(g) \/ Proceeds(g) PROVE g = h
    BY <1>1, <1>2, <2>2, OthersLeftAlone DEF IInv
  <2>3. ASSUME NEW i \in Ifnames PROVE ~HangsUp(i) /\ \A u \in Users : ~Connects(i, u)
    BY <1>2 DEF HangsUp, Connects
  <2> QED
    BY <2>1, <2>2, <2>3 DEF Next
<1>4. CASE /\ command[h].state = "executed"
           /\ command[h].verb \notin Lookups
           /\ command[h].verb # "none"
           /\ ~Dropping(h)
  <2>1. command[h].verb \in {"terminate username", "terminate if"}
    BY <1>1, <1>4, StepTellsOp DEF Sound, TypeOK, Verbs
  <2>2. held[h] = {}
    <3>1. CASE command[h].verb = "terminate username"
      BY <1>1, <1>4, <3>1 DEF Sound, Aimed
    <3>2. CASE command[h].verb = "terminate if"
      <4>1. Op(h) = "kick"
        BY <1>1, <1>4, <3>2, StepTellsOp DEF Sound, Dropping
      <4> QED
        BY <1>1, <1>4, <3>2, <4>1 DEF Sound, Aimed
    <3> QED
      BY <2>1, <3>1, <3>2
  <2> QED
    BY <2>2
<1>5. ASSUME NEW lost \in SUBSET {command[h].target},
             Dropping(h), NextTarget(h, lost),
             command[h].state = "executed" \/ lost = {command[h].target}
      PROVE  held[h] \subseteq failed'[h]
  <2>1. held[h] \subseteq found[h] \cup failed[h] /\ failed'[h] = failed[h] \cup lost
    BY <1>1, <1>5 DEF Sound, Aimed, NextTarget, TypeOK
  <2>2. found[h] \subseteq {command[h].target}
    <3>1. request' = request => FALSE
      BY <1>2
    <3> QED
      BY <1>5, <3>1 DEF NextTarget
  <2>3. command[h].state = "executed" => command[h].target \notin held[h]
    BY <1>1, <1>5 DEF Sound, Aimed, Dropping
  <2> QED
    BY <1>5, <2>1, <2>2, <2>3
<1> QED
  BY <1>1, <1>3, <1>4, <1>5, SuccessSteps

(* A request that ends sessions answers success only after they have       *)
(* ended, but for those whose own command failed.                          *)
THEOREM SuccessIsTrue == Spec => SuccessMeansGone
<1>1. IInv /\ [Next]_vars =>
        [\A h \in Handlers :
            Answered(h, TRUE) /\ Op(h) \in {"terminate", "kick", "restart", "drop"}
                => held[h] \subseteq failed'[h]]_vars
  BY SuccessStep
<1> QED
  BY <1>1, InitIInv, NextIInv, PTL DEF Spec, SuccessMeansGone
=============================================================================
