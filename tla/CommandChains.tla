---------------------------- MODULE CommandChains ----------------------------
(***************************************************************************)
(* The services that change the host are chains of commands, one child     *)
(* process after another; between two of them every other request may run  *)
(* its own.  A command succeeds or not, and the service raises, reports or *)
(* passes over its exit code.                                              *)
(*                                                                         *)
(* The host is a set of facts <<kind, value>>: a chain exists, a switch    *)
(* has a value, a file has a content, a daemon is up.                      *)
(***************************************************************************)
EXTENDS Naturals, Sequences, FiniteSets, SequencesExt

CONSTANTS Handlers,    \* the requests that may arrive
          Requests,    \* what a request may ask for
          Hosts,       \* the states the host may start in
          Spontaneous, \* what the host does by itself, as commands
          Fragile,     \* requests that cannot be repeated when cut short
          Settings     \* sets of kinds that several commands set together

VARIABLES host,     \* the facts that hold
          asks,     \* the service each request calls
          at,       \* the command a request is at; 0 before it arrives
          answer,   \* "none", "success", "unsuccessful", "error" or "lost"
          touched,  \* history: what others changed of a request's goals since it arrived
          alone,    \* history: the request that no other step has overlapped, if any
          could,    \* history: the requests that would have succeeded undisturbed
          calm      \* history: the settings of which no command failed, or was
                    \* cut short, or came between two of another request

vars == <<host, asks, at, answer, touched, alone, could, calm>>

-----------------------------------------------------------------------------
(* Commands.                                                               *)

\* A command that only looks: it needs nothing, changes nothing, and a
\* non-zero exit code raises.
Look == [needs |-> {}, clash |-> {}, clears |-> {}, drops |-> {}, adds |-> {},
         loads |-> {}, good |-> "next", bad |-> "raises", lossy |-> FALSE]

\* What the service makes of a non-zero exit code: it never looks at it, or
\* it answers with success False.
Ignored(c)  == [c EXCEPT !.bad = "next"]
Reported(c) == [c EXCEPT !.bad = "reports"]

Check(facts)       == [Look EXCEPT !.needs = facts]
Assign(kind, v)    == [Look EXCEPT !.clears = {kind}, !.adds = {<<kind, v>>}]
Add(need, facts)   == [Look EXCEPT !.needs = need, !.adds = facts]
New(need, facts)   == [Look EXCEPT !.needs = need, !.clash = facts, !.adds = facts]
Delete(fact, with) == [Look EXCEPT !.needs = {fact}, !.clears = with, !.drops = {fact}]

\* A daemon started again, which reads its file.
Restart(daemon, file, runs) ==
  [Look EXCEPT !.clears = {runs}, !.adds = {<<"up", daemon>>}, !.loads = {<<file, runs>>}]

\* A command of accel-cmd, whose answer may get lost.
AccelCmd(c) == [c EXCEPT !.needs = @ \cup {<<"up", "accel-ppp">>}, !.lossy = TRUE]

Optional(wanted, commands) == IF wanted THEN commands ELSE << >>

\* What a service does, what is to hold and to be gone when it answers
\* success, what of it the service does not make sure of, and whether it
\* holds up the event loop until it is done.
Service(commands, there, away) ==
  [does |-> commands, holds |-> there, gone |-> away, unsure |-> {}, blocks |-> FALSE]
Hoping(service, facts) == [service EXCEPT !.holds = @ \cup facts, !.unsure = facts]
Blocking(service)      == [service EXCEPT !.blocks = TRUE]

\* Whether a command can succeed on a host with the facts F, and what it
\* makes of them.
Possible(c, F) == c.needs \subseteq F /\ c.clash \cap F = {}

Obeyed(c, F) ==
  {f \in F : f[1] \notin c.clears /\ f \notin c.drops}
    \cup c.adds
    \cup UNION {{<<load[2], f[2]>> : f \in {g \in F : g[1] = load[1]}} : load \in c.loads}

\* Mutant: an exit code that raises is not looked at.
Verdict_Unchecked(c, ok) == IF ok \/ c.bad = "raises" THEN c.good ELSE c.bad

Verdict(c, ok) == IF ok THEN c.good ELSE c.bad

\* The service run from its start by nobody else's side.
ReplayStep(r, c) ==
  LET ok == Possible(c, r.facts)
      v  == Verdict(c, ok)
  IN  IF r.answer # "none" THEN r
      ELSE IF r.skips THEN [r EXCEPT !.skips = FALSE]
      ELSE [facts  |-> IF ok THEN Obeyed(c, r.facts) ELSE r.facts,
            skips  |-> v = "skip",
            answer |-> CASE v \in {"raises", "reports"} -> "error"
                         [] v = "done"                  -> "success"
                         [] OTHER                       -> "none"]

Replay(F, service) ==
  FoldLeft(LAMBDA r, c : ReplayStep(r, c),
           [facts |-> F, skips |-> FALSE, answer |-> "none"], service.does)

Goals(service) == service.holds \cup service.gone
Sure(service)  == service.holds \ service.unsure
Reached(service, F) == Sure(service) \subseteq F /\ service.gone \cap F = {}

-----------------------------------------------------------------------------
(* A service is thorough when each of its goals that it is sure of is the  *)
(* work of a command whose failure it notices, which is always run, and    *)
(* which no later command undoes; and no goal that it is unsure of is.     *)

Makes(c, f)     == f \in c.adds
Keeps(c, f)     == f \in c.adds \/ (f[1] \notin c.clears /\ f \notin c.drops)
Removes(c, f)   == /\ f[1] \in c.clears \/ f \in c.drops
                   /\ f \notin c.adds /\ \A load \in c.loads : load[2] # f[1]
StaysAway(c, f) == f \notin c.adds /\ \A load \in c.loads : load[2] # f[1]

Noticed(service, i) ==
  /\ \A j \in 1..i : service.does[j].good = "next"
                   /\ service.does[j].bad \in {"next", "raises", "reports"}
  /\ service.does[i].bad # "next"

Ensures(service, f, i) ==
  Makes(service.does[i], f) /\ \A j \in DOMAIN service.does : j > i => Keeps(service.does[j], f)
Prevents(service, f, i) ==
  Removes(service.does[i], f)
    /\ \A j \in DOMAIN service.does : j > i => StaysAway(service.does[j], f)

Thorough(service) ==
  /\ \A f \in Sure(service) :
       \E i \in DOMAIN service.does : Noticed(service, i) /\ Ensures(service, f, i)
  /\ \A f \in service.gone :
       \E i \in DOMAIN service.does : Noticed(service, i) /\ Prevents(service, f, i)

Candid(service) ==
  \A f \in service.unsure :
    ~\E i \in DOMAIN service.does : Noticed(service, i) /\ Ensures(service, f, i)

ASSUME ChainsAssumption ==
  \A q \in Requests : q.does \in Seq({q.does[i] : i \in DOMAIN q.does})
ASSUME ThoroughAssumption == \A q \in Requests : Thorough(q) /\ Candid(q)

-----------------------------------------------------------------------------
Init ==
  /\ host \in Hosts
  /\ asks \in [Handlers -> Requests]
  /\ at = [h \in Handlers |-> 0]
  /\ answer = [h \in Handlers |-> "none"]
  /\ touched = [h \in Handlers |-> {}]
  /\ alone = {} /\ could = {} /\ calm = Settings

Begun(h)   == at[h] # 0
Running(h) == Begun(h) /\ answer[h] = "none"
Command(h) == asks[h].does[at[h]]

\* A service that blocks the event loop lets no other request move.
Turn(h) == \A o \in Handlers \ {h} : ~(Running(o) /\ asks[o].blocks)

\* A command that changes something of a setting; a request that is between
\* two of those.
Bears(c, setting) ==
  \/ c.clears \cap setting # {}
  \/ \E f \in c.drops \cup c.adds : f[1] \in setting
  \/ \E load \in c.loads : load[2] \in setting
Midway(h, setting) ==
  /\ Running(h) /\ at[h] > 1
  /\ Bears(asks[h].does[at[h] - 1], setting) /\ Bears(Command(h), setting)

\* What the step to F by one of the requests `who` does to the histories.
Changed(F) == (host \ F) \cup (F \ host)
Touch(who, F) ==
  touched' = [o \in Handlers |->
                IF o \in who \/ ~Begun(o) THEN touched[o]
                ELSE touched[o] \cup (Changed(F) \cap Goals(asks[o]))]

Arrives(h) ==
  /\ ~Begun(h) /\ Turn(h)
  /\ at' = [at EXCEPT ![h] = 1]
  /\ answer' = [answer EXCEPT ![h] = IF asks[h].does = << >> THEN "success" ELSE "none"]
  /\ alone' = {h}
  /\ could' = IF Replay(host, asks[h]).answer # "error" THEN could \cup {h} ELSE could
  /\ UNCHANGED <<host, asks, touched, calm>>

\* Mutant: one command too many.
GoesOn_PastTheEnd(h, v) ==
  IF v = "next" /\ at[h] <= Len(asks[h].does)
  THEN at' = [at EXCEPT ![h] = @ + 1] /\ UNCHANGED answer
  ELSE answer' = [answer EXCEPT ![h] = "error"] /\ UNCHANGED at

\* The request goes on as its service makes of the exit code; when nothing
\* is left it answers in the same step.
GoesOn(h, v) ==
  LET next == IF v = "skip" THEN at[h] + 2 ELSE at[h] + 1
  IN  \/ /\ v \in {"next", "skip"} /\ next <= Len(asks[h].does)
         /\ at' = [at EXCEPT ![h] = next] /\ UNCHANGED answer
      \/ /\ v = "done" \/ (v \in {"next", "skip"} /\ next > Len(asks[h].does))
         /\ answer' = [answer EXCEPT ![h] = "success"] /\ UNCHANGED at
      \/ /\ v = "raises"
         /\ answer' = [answer EXCEPT ![h] = "error"] /\ UNCHANGED at
      \/ /\ v = "reports"
         /\ answer' = [answer EXCEPT ![h] = "unsuccessful"] /\ UNCHANGED at

\* The command of h ends with the exit code ok, having taken effect or not.
Ends(h, ok, effect) ==
  LET F == IF effect THEN Obeyed(Command(h), host) ELSE host
  IN  /\ Running(h) /\ Turn(h)
      /\ effect => Possible(Command(h), host)
      /\ host' = F
      /\ GoesOn(h, Verdict(Command(h), ok))
      /\ Touch({h}, F)
      /\ alone' = alone \cap {h}
      /\ calm' = {k \in calm : Bears(Command(h), k) =>
                                ok /\ \A o \in Handlers \ {h} : ~Midway(o, k)}
      /\ UNCHANGED <<asks, could>>

Succeeds(h)    == Ends(h, TRUE, TRUE)
Fails(h)       == Ends(h, FALSE, FALSE)
LosesAnswer(h) == Running(h) /\ Command(h).lossy /\ Ends(h, FALSE, TRUE)

\* The agent is killed: the requests under way get no answer; one command
\* may still come to its end.
Crash ==
  /\ \E h \in Handlers : Running(h)
  /\ \E F \in {host} \cup {Obeyed(Command(h), host) : h \in
                 {o \in Handlers : Running(o) /\ Possible(Command(o), host)}} :
       host' = F /\ Touch({o \in Handlers : Running(o)}, F)
  /\ answer' = [h \in Handlers |-> IF Running(h) THEN "lost" ELSE answer[h]]
  /\ alone' = {h \in alone : \A o \in Handlers \ {h} : ~Running(o)}
  /\ calm' = {k \in calm : \A h \in Handlers :
                  Running(h) => ~Midway(h, k) /\ ~Bears(Command(h), k)}
  /\ UNCHANGED <<asks, at, could>>

HostMoves ==
  \E c \in Spontaneous :
    /\ Possible(c, host)
    /\ host' = Obeyed(c, host)
    /\ Touch({}, Obeyed(c, host))
    /\ alone' = {}
    /\ UNCHANGED <<asks, at, answer, could, calm>>

Next ==
  \/ \E h \in Handlers : Arrives(h) \/ Succeeds(h) \/ Fails(h) \/ LosesAnswer(h)
  \/ Crash
  \/ HostMoves

Spec == Init /\ [][Next]_vars

-----------------------------------------------------------------------------
TypeOK ==
  /\ asks \in [Handlers -> Requests]
  /\ at \in [Handlers -> Nat]
  /\ answer \in [Handlers -> {"none", "success", "unsuccessful", "error", "lost"}]
  /\ touched \in [Handlers -> SUBSET UNION {Goals(q) : q \in Requests}]
  /\ alone \subseteq Handlers /\ could \subseteq Handlers /\ calm \subseteq Settings
  /\ \A h \in Handlers : Running(h) => at[h] \in 1..Len(asks[h].does)

\* A request that was answered with success has established what it was
\* asked for, but for what its service is not sure of, and for what others
\* have changed meanwhile.
SuccessHolds ==
  \A h \in Handlers :
    answer[h] = "success" => /\ Sure(asks[h]) \ touched[h] \subseteq host
                             /\ (asks[h].gone \ touched[h]) \cap host = {}

\* A request that met nobody, could have succeeded, and was cut short by a
\* failing command or by the death of the agent, leaves the host as asked,
\* or in a state from which the same request, made again, gets there; all
\* this for what its service is sure of.
RetryHeals ==
  \A h \in alone \cap could :
    answer[h] \in {"unsuccessful", "error", "lost"} /\ asks[h] \notin Fragile =>
      \/ Reached(asks[h], host)
      \/ LET again == Replay(host, asks[h])
         IN  again.answer # "error" /\ Reached(asks[h], again.facts)
=============================================================================
