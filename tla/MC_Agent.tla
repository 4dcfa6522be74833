-------------------------------- MODULE MC_Agent --------------------------------
(* Five parts of the agent that share no state, each checked by itself: the    *)
(* way of a request, the hooks of events, the event bus, the session history,  *)
(* the editors of configuration sections.                                      *)
EXTENDS RequestPipeline, EventHooks, EventBus, SessionHistory, SectionEditors, TLC

CONSTANTS view, oper, primary,  \* keys
          a, b                  \* names

VARIABLE part  \* the one that runs

vars == <<part, pipelineVars, hookVars, busVars, historyVars, editorVars>>

\* Endpoints are told apart by what the way of a request depends on.
Class(e) == [e EXCEPT !.name = "", !.refuses = {},
                      !.method = IF @ = "GET" THEN "GET" ELSE "POST",
                      !.clauses = {<<c[1], IF c[2] = 200 THEN 200 ELSE 500>> :
                                     c \in {d \in e.clauses : d[1] = "Exception"}}]
Classes == {Class(e) : e \in Api}

ASSUME ApiAssumption == \A e \in Api : WellFormed(e)

KeyRoles == [k \in {view, oper} |-> IF k = view THEN "viewer" ELSE "operator"]

Header(section) == <<"[", section>>
SomeFiles ==
  {<< Header("pppoe"), <<"interface", a>>, <<"#", 1>>, Header("ip-pool"), <<"pool", a>> >>,
   << <<"verbose", 1>>, Header("pppoe"), <<"verbose", 1>>, <<"interface", a>>, <<"verbose", 2>>,
      Header("log"), <<"verbose", 1>>, <<"pool", b>>, Header("pppoe"), <<"max-sessions", 1>> >>,
   << Header("ip-pool"), Header("pppoe"), <<"pado-delay-sessions", 1>>,
      Header("ip-pool"), <<"pool", a>> >>,
   << Header("log"), <<"verbose", 2>> >>,
   << Header("log"), <<"verbose", 2>>, Header("pppoe") >>}

Init ==
  /\ part \in {"requests", "hooks", "bus", "history", "editors"}
  /\ \/ part = "requests"
     \/ /\ part # "requests"
        /\ endpoint = [r \in Callers |-> CHOOSE e \in Kinds : TRUE]
        /\ key = [r \in Callers |-> primary]
  /\ \/ part = "editors"
     \/ part # "editors" /\ lines = << Header("log"), <<"verbose", 2>> >>
  /\ PipelineInit /\ HooksInit /\ BusInit /\ HistoryInit /\ EditorsInit

Next ==
  \/ /\ part = "requests" /\ PipelineNext
     /\ UNCHANGED <<part, hookVars, busVars, historyVars, editorVars>>
  \/ /\ part = "hooks" /\ HooksNext
     /\ UNCHANGED <<part, pipelineVars, busVars, historyVars, editorVars>>
  \/ /\ part = "bus" /\ BusNext
     /\ UNCHANGED <<part, pipelineVars, hookVars, historyVars, editorVars>>
  \/ /\ part = "history" /\ HistoryNext
     /\ UNCHANGED <<part, pipelineVars, hookVars, busVars, editorVars>>
  \/ /\ part = "editors" /\ EditorsNext
     /\ UNCHANGED <<part, pipelineVars, hookVars, busVars, historyVars>>

Spec == Init /\ [][Next]_vars

Symmetry ==
  Permutations(Callers) \cup Permutations(Fires) \cup Permutations(Snapshots)
    \cup Permutations(Clients)
=============================================================================
