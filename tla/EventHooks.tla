------------------------------ MODULE EventHooks ------------------------------
(***************************************************************************)
(* Hooks on session events.  An event takes a snapshot of the hooks that   *)
(* listen for it and runs their actions one after another; while one runs, *)
(* hooks come and go and other events fire.                                *)
(***************************************************************************)
EXTENDS Naturals, Sequences, FiniteSets

CONSTANTS HookNames,   \* names a hook may have
          Events,      \* the valid events
          Fires,       \* the calls of fire_event
          MaxHooks,    \* bound: hooks ever added
          LogSize      \* _EVENT_LOG_MAXLEN

ASSUME LogAssumption      == LogSize \in Nat \ {0}
ASSUME MaxHooksAssumption == MaxHooks \in Nat

VARIABLES hooks,      \* _hooks: the hook of a name, 0 if there is none
          made,       \* the hooks ever added, in order: what they listen for
          fire_count, \* runs of each, as the hooks tell
          todo,       \* the hooks an event has still to run
          fired,      \* "idle", "firing" or "done"
          event_log,  \* _event_log: the latest events
          ran,        \* history: the hooks an event has run
          present     \* history: the enabled hooks for the event as it began

hookVars == <<hooks, made, fire_count, todo, fired, event_log, ran, present>>

HooksInit ==
  /\ hooks = [n \in HookNames |-> 0]
  /\ made = << >> /\ fire_count = << >>
  /\ todo = [f \in Fires |-> {}] /\ fired = [f \in Fires |-> "idle"]
  /\ event_log = << >>
  /\ ran = [f \in Fires |-> << >>] /\ present = [f \in Fires |-> {}]

AddHook(n, event, enabled) ==
  /\ hooks[n] = 0 /\ Len(made) < MaxHooks
  /\ made' = Append(made, [event |-> event, enabled |-> enabled])
  /\ fire_count' = Append(fire_count, 0)
  /\ hooks' = [hooks EXCEPT ![n] = Len(made) + 1]
  /\ UNCHANGED <<todo, fired, event_log, ran, present>>

\* An event under way keeps its hold of the hook.
RemoveHook(n) ==
  /\ hooks[n] # 0
  /\ hooks' = [hooks EXCEPT ![n] = 0]
  /\ UNCHANGED <<made, fire_count, todo, fired, event_log, ran, present>>

\* The hooks that listen for an event.
Matching(event) ==
  {h \in 1..Len(made) : /\ \E n \in HookNames : hooks[n] = h
                        /\ made[h].event = event /\ made[h].enabled}

\* The oldest entry makes room for the newest.
Logged(f) ==
  event_log' = Append(IF Len(event_log) < LogSize THEN event_log ELSE Tail(event_log), f)

\* Without a hook that listens the event is done at once.
FireBegins(f, event) ==
  LET matching == Matching(event)
  IN  /\ fired[f] = "idle"
      /\ todo' = [todo EXCEPT ![f] = matching]
      /\ present' = [present EXCEPT ![f] = matching]
      /\ fired' = [fired EXCEPT ![f] = IF matching = {} THEN "done" ELSE "firing"]
      /\ IF matching = {} THEN Logged(f) ELSE UNCHANGED event_log
      /\ UNCHANGED <<hooks, made, fire_count, ran>>

\* The hooks an event has still to run are run in the order they were added.
Upcoming(f) == {h \in todo[f] : \A k \in todo[f] : h <= k}

\* Mutant: an action that fails leaves the loop, and the rest does not run.
HookEnds_Aborts(f) ==
  \E h \in Upcoming(f) :
    /\ fired[f] = "firing"
    /\ fire_count' = [fire_count EXCEPT ![h] = @ + 1]
    /\ ran' = [ran EXCEPT ![f] = Append(@, h)]
    /\ todo' = [todo EXCEPT ![f] = {}]
    /\ fired' = [fired EXCEPT ![f] = "done"]
    /\ Logged(f)
    /\ UNCHANGED <<hooks, made, present>>

\* The action of the first hook ends, well or badly: it is counted, and the
\* next one has its turn; after the last, the event is logged.
HookEnds(f) ==
  \E h \in Upcoming(f) :
    /\ fired[f] = "firing"
    /\ fire_count' = [fire_count EXCEPT ![h] = @ + 1]
    /\ ran' = [ran EXCEPT ![f] = Append(@, h)]
    /\ todo' = [todo EXCEPT ![f] = @ \ {h}]
    /\ fired' = [fired EXCEPT ![f] = IF todo[f] = {h} THEN "done" ELSE @]
    /\ IF todo[f] = {h} THEN Logged(f) ELSE UNCHANGED event_log
    /\ UNCHANGED <<hooks, made, present>>

ClearHistory ==
  /\ event_log' = << >>
  /\ UNCHANGED <<hooks, made, fire_count, todo, fired, ran, present>>

HooksNext ==
  \/ \E n \in HookNames : \/ \E event \in Events, enabled \in BOOLEAN : AddHook(n, event, enabled)
                          \/ RemoveHook(n)
  \/ \E f \in Fires : HookEnds(f) \/ \E event \in Events : FireBegins(f, event)
  \/ ClearHistory

HooksSpec == HooksInit /\ [][HooksNext]_hookVars

-----------------------------------------------------------------------------
HooksTypeOK ==
  /\ made \in Seq([event : Events, enabled : BOOLEAN]) /\ Len(made) <= MaxHooks
  /\ hooks \in [HookNames -> 0..Len(made)]
  /\ fire_count \in Seq(Nat) /\ Len(fire_count) = Len(made)
  /\ fired \in [Fires -> {"idle", "firing", "done"}]
  /\ todo \in [Fires -> SUBSET (1..Len(made))]
  /\ present \in [Fires -> SUBSET (1..Len(made))]
  /\ ran \in [Fires -> Seq(1..Len(made))]
  /\ event_log \in Seq(Fires) /\ Len(event_log) <= LogSize

\* An event that is done has run each hook that listened as it began exactly
\* once, in the order they were added, and no other: not one added or enabled
\* under the same name since, and also those removed meanwhile.  What the
\* hooks count is what was run, of all events together.
EventReachesHooks ==
  /\ \A f \in Fires :
       fired[f] = "done" =>
         /\ {ran[f][i] : i \in DOMAIN ran[f]} = present[f]
         /\ \A i, j \in DOMAIN ran[f] : i < j => ran[f][i] < ran[f][j]
  /\ \A h \in DOMAIN fire_count :
       fire_count[h] = Cardinality({f \in Fires : \E i \in DOMAIN ran[f] : ran[f][i] = h})
=============================================================================
