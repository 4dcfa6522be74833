------------------------ MODULE HostServices_proofs ------------------------
(***************************************************************************)
(* The answer "success" can be believed for the goals that a service is    *)
(* sure of, whatever the chains of commands: shown by following every      *)
(* command that establishes a goal from the step that ran it to the        *)
(* answer.  The services of the agent are sure of exactly what they check: *)
(* thorough and candid.  The files that outlive a boot follow what runs,   *)
(* setting by setting, as long as no command of the setting failed, was    *)
(* cut short or came between two of another request.  A request that was   *)
(* cut short heals when it is made again: shown by running the chain once  *)
(* more, in thought, from every state it can be cut short in.  The         *)
(* services of the agent can be resumed.                                   *)
(***************************************************************************)
EXTENDS HostServices, FoldLemmas, SequenceTheorems, TLAPS

LEMMA ChainLength ==
  ASSUME NEW q \in Requests
  PROVE  /\ Len(q.does) \in Nat
         /\ DOMAIN q.does = 1..Len(q.does)
         /\ q.does # << >> => 1 <= Len(q.does)
<1> DEFINE S == {q.does[i] : i \in DOMAIN q.does}
<1>1. q.does \in Seq(S)
  BY ChainsAssumption
<1> HIDE DEF S
<1>2. Len(q.does) \in Nat /\ DOMAIN q.does = 1..Len(q.does)
  BY <1>1
<1>3. ASSUME q.does # << >> PROVE 1 <= Len(q.does)
  BY <1>1, <1>3
<1> QED BY <1>2, <1>3

LEMMA TouchTypes ==
  ASSUME TypeOK, NEW who, NEW F, Touch(who, F)
  PROVE  touched' \in [Handlers -> SUBSET UNION {Goals(q) : q \in Requests}]
<1> DEFINE G == UNION {Goals(q) : q \in Requests}
<1>1. ASSUME NEW o \in Handlers
      PROVE  (IF o \in who \/ ~Begun(o) THEN touched[o]
              ELSE touched[o] \cup (Changed(F) \cap Goals(asks[o]))) \in SUBSET G
  <2>1. touched[o] \in SUBSET G
    BY DEF TypeOK
  <2>2. asks[o] \in Requests
    BY DEF TypeOK
  <2>3. Goals(asks[o]) \subseteq G
    BY <2>2
  <2> QED BY <2>1, <2>3
<1> HIDE DEF G
<1>2. touched' \in [Handlers -> SUBSET G]
  BY <1>1 DEF Touch
<1> QED BY <1>2 DEF G

LEMMA ArrivesTypes ==
  ASSUME TypeOK, NEW h \in Handlers, Arrives(h)
  PROVE  TypeOK'
<1>1. asks[h] \in Requests
  BY DEF TypeOK
<1>2. /\ asks' \in [Handlers -> Requests]
      /\ at' \in [Handlers -> Nat]
      /\ answer' \in [Handlers -> {"none", "success", "unsuccessful", "error", "lost"}]
  BY DEF TypeOK, Arrives
<1>3. touched' \in [Handlers -> SUBSET UNION {Goals(q) : q \in Requests}]
  BY DEF TypeOK, Arrives
<1>4. alone' \subseteq Handlers /\ calm' \subseteq Settings
  BY DEF TypeOK, Arrives
<1>5. could' \subseteq Handlers
  BY Zenon DEF TypeOK, Arrives
<1>6. ASSUME NEW o \in Handlers, Running(o)' PROVE at'[o] \in 1..Len(asks'[o].does)
  <2>1. CASE o = h
    <3>1. at'[h] = 1 /\ answer'[h] = "none" /\ asks' = asks
      BY <1>6, <2>1 DEF TypeOK, Arrives, Running
    <3>2. asks[h].does # << >>
      BY <3>1 DEF TypeOK, Arrives
    <3> QED BY <1>1, <2>1, <3>1, <3>2, ChainLength
  <2>2. CASE o # h
    <3>1. at'[o] = at[o] /\ answer'[o] = answer[o] /\ asks' = asks
      BY <2>2 DEF TypeOK, Arrives
    <3> QED BY <3>1, <1>6 DEF TypeOK, Running, Begun
  <2> QED BY <2>1, <2>2
<1> QED BY <1>2, <1>3, <1>4, <1>5, <1>6 DEF TypeOK

\* Where the request stands after a command.
LEMMA GoesOnTypes ==
  ASSUME TypeOK, NEW h \in Handlers, NEW v, Running(h), GoesOn(h, v), asks' = asks
  PROVE  /\ at' \in [Handlers -> Nat]
         /\ answer' \in [Handlers -> {"none", "success", "unsuccessful", "error", "lost"}]
         /\ \A o \in Handlers : Running(o)' => at'[o] \in 1..Len(asks'[o].does)
         /\ \A o \in Handlers \ {h} : at'[o] = at[o] /\ answer'[o] = answer[o]
<1>1. at[h] \in Nat /\ asks[h] \in Requests /\ at[h] \in 1..Len(asks[h].does)
  BY DEF TypeOK
<1>2. Len(asks[h].does) \in Nat
  BY <1>1, ChainLength
<1>3. \A o \in Handlers \ {h} : at'[o] = at[o] /\ answer'[o] = answer[o]
  BY DEF TypeOK, GoesOn
<1>4. /\ at' \in [Handlers -> Nat]
      /\ answer' \in [Handlers -> {"none", "success", "unsuccessful", "error", "lost"}]
  BY <1>1 DEF TypeOK, GoesOn
<1>5. Running(h)' => at'[h] \in 1..Len(asks[h].does)
  BY <1>1, <1>2 DEF TypeOK, GoesOn, Running, Begun
<1>6. \A o \in Handlers \ {h} : Running(o)' => at'[o] \in 1..Len(asks[o].does)
  BY <1>3 DEF TypeOK, Running, Begun
<1> QED BY <1>3, <1>4, <1>5, <1>6

LEMMA EndsTypes ==
  ASSUME TypeOK, NEW h \in Handlers, NEW ok \in BOOLEAN, NEW effect \in BOOLEAN,
         Ends(h, ok, effect)
  PROVE  TypeOK'
<1>1. /\ GoesOn(h, Verdict(Command(h), ok)) /\ asks' = asks /\ Running(h)
      /\ Touch({h}, IF effect THEN Obeyed(Command(h), host) ELSE host)
  BY Zenon DEF Ends
<1>2. /\ at' \in [Handlers -> Nat]
      /\ answer' \in [Handlers -> {"none", "success", "unsuccessful", "error", "lost"}]
      /\ \A o \in Handlers : Running(o)' => at'[o] \in 1..Len(asks'[o].does)
  BY <1>1, GoesOnTypes
<1>3. touched' \in [Handlers -> SUBSET UNION {Goals(q) : q \in Requests}]
  BY <1>1, TouchTypes
<1>4. alone' \subseteq Handlers
  BY DEF TypeOK, Ends
<1>5. could' \subseteq Handlers /\ asks' \in [Handlers -> Requests]
  BY Zenon DEF TypeOK, Ends
<1>6. calm' \subseteq Settings
  BY DEF TypeOK, Ends
<1> QED BY <1>2, <1>3, <1>4, <1>5, <1>6 DEF TypeOK

LEMMA CrashTypes == TypeOK /\ Crash => TypeOK'
<1> SUFFICES ASSUME TypeOK, Crash PROVE TypeOK'
  OBVIOUS
<1>1. touched' \in [Handlers -> SUBSET UNION {Goals(q) : q \in Requests}]
  BY TouchTypes DEF Crash
<1>2. /\ asks' \in [Handlers -> Requests] /\ at' \in [Handlers -> Nat]
      /\ could' \subseteq Handlers /\ calm' \subseteq Settings
  BY DEF TypeOK, Crash
<1>3. alone' \subseteq Handlers
  BY DEF TypeOK, Crash
<1>4. answer' \in [Handlers -> {"none", "success", "unsuccessful", "error", "lost"}]
  BY DEF TypeOK, Crash
<1>5. ASSUME NEW h \in Handlers, Running(h)' PROVE FALSE
  BY <1>5 DEF TypeOK, Crash, Running, Begun
<1> QED BY <1>1, <1>2, <1>3, <1>4, <1>5 DEF TypeOK

LEMMA HostTypes == TypeOK /\ HostMoves => TypeOK'
<1> SUFFICES ASSUME TypeOK, HostMoves PROVE TypeOK'
  OBVIOUS
<1>1. touched' \in [Handlers -> SUBSET UNION {Goals(q) : q \in Requests}]
  BY TouchTypes DEF HostMoves
<1>2. asks' = asks /\ at' = at /\ answer' = answer /\ could' = could /\ calm' = calm /\ alone' = {}
  BY DEF HostMoves
<1>3. \A h \in Handlers : Running(h)' => at'[h] \in 1..Len(asks'[h].does)
  BY <1>2 DEF TypeOK, Running, Begun
<1> QED BY <1>1, <1>2, <1>3 DEF TypeOK

\* Every step of a handler is one of these.
LEMMA Steps ==
  ASSUME Next
  PROVE  \/ \E h \in Handlers : Arrives(h)
         \/ \E h \in Handlers, ok, effect \in BOOLEAN : Ends(h, ok, effect) /\ (ok => effect)
         \/ Crash \/ HostMoves
<1>1. ASSUME NEW h \in Handlers, Succeeds(h) \/ Fails(h) \/ LosesAnswer(h)
      PROVE  \E ok, effect \in BOOLEAN : Ends(h, ok, effect) /\ (ok => effect)
  BY <1>1, Zenon DEF Succeeds, Fails, LosesAnswer
<1> QED BY <1>1, Zenon DEF Next

\* The state of the requests is well typed: in particular a request under
\* way is at one of the commands of its chain.
THEOREM TypeCorrect == Spec => []TypeOK
<1>1. Init => TypeOK
  BY DEF Init, TypeOK, Running, Begun
<1>2. TypeOK /\ [Next]_vars => TypeOK'
  <2> SUFFICES ASSUME TypeOK, [Next]_vars PROVE TypeOK'
    OBVIOUS
  <2>1. CASE Next
    <3>1. ASSUME NEW h \in Handlers, Arrives(h) PROVE TypeOK'
      BY <3>1, ArrivesTypes
    <3>2. ASSUME NEW h \in Handlers, NEW ok \in BOOLEAN, NEW effect \in BOOLEAN,
                 Ends(h, ok, effect)
          PROVE  TypeOK'
      BY <3>2, EndsTypes
    <3> QED BY <2>1, <3>1, <3>2, Steps, CrashTypes, HostTypes
  <2>2. CASE UNCHANGED vars
    BY <2>2 DEF vars, TypeOK, Running, Begun
  <2> QED BY <2>1, <2>2
<1> QED BY <1>1, <1>2, PTL DEF Spec

-----------------------------------------------------------------------------
(* What a request under way has established so far.  It is stronger than   *)
(* SuccessHolds, which says nothing of a request that is not done.         *)

Followed(h) ==
  \A i \in DOMAIN asks[h].does :
    Noticed(asks[h], i) /\ (answer[h] = "success" \/ (answer[h] = "none" /\ i < at[h])) =>
      /\ \A f \in asks[h].holds :
           Ensures(asks[h], f, i) => f \in host \/ f \in touched[h]
      /\ \A f \in asks[h].gone :
           Prevents(asks[h], f, i) => f \notin host \/ f \in touched[h]

AnswersBegun == \A h \in Handlers : answer[h] # "none" => Begun(h)

IInv == TypeOK /\ AnswersBegun /\ \A h \in Handlers : Followed(h)

\* A step by others leaves a goal as it is, or it is noted as touched.
LEMMA OthersKeep ==
  ASSUME TypeOK, NEW who, NEW F, host' = F, Touch(who, F), asks' = asks,
         NEW o \in Handlers \ who, Begun(o), Followed(o),
         answer'[o] = answer[o], at'[o] = at[o]
  PROVE  Followed(o)'
<1>1. touched'[o] = touched[o] \cup (Changed(F) \cap Goals(asks[o]))
  BY DEF Touch
<1>2. ASSUME NEW f \in Goals(asks[o]), f \in host \/ f \in touched[o]
      PROVE  f \in host' \/ f \in touched'[o]
  BY <1>1, <1>2 DEF Changed
<1>3. ASSUME NEW f \in Goals(asks[o]), f \notin host \/ f \in touched[o]
      PROVE  f \notin host' \/ f \in touched'[o]
  BY <1>1, <1>3 DEF Changed
<1>4. asks[o].holds \subseteq Goals(asks[o]) /\ asks[o].gone \subseteq Goals(asks[o])
  BY DEF Goals
<1> QED BY <1>2, <1>3, <1>4, Zenon DEF Followed

\* A request that has not arrived, or that is answered with a failure, has
\* nothing to show.
LEMMA NothingToShow ==
  ASSUME TypeOK', NEW o \in Handlers,
         \/ answer'[o] \in {"unsuccessful", "error", "lost"}
         \/ answer'[o] = "none" /\ at'[o] = 0
         \/ answer'[o] = "none" /\ at'[o] = 1
         \/ asks'[o].does = << >>
  PROVE  Followed(o)'
<1>1. asks'[o] \in Requests
  BY DEF TypeOK
<1>2. DOMAIN asks'[o].does = 1..Len(asks'[o].does) /\ Len(asks'[o].does) \in Nat
  BY <1>1, ChainLength
<1>3. asks'[o].does = << >> => DOMAIN asks'[o].does = {}
  BY <1>2
<1>4. \A i \in DOMAIN asks'[o].does : i >= 1 /\ i \in Nat
  BY <1>2
<1>5. \A i \in DOMAIN asks'[o].does :
        ~(answer'[o] = "success" \/ (answer'[o] = "none" /\ i < at'[o]))
  BY <1>3, <1>4
<1> QED BY <1>5, Zenon DEF Followed

\* What a command does to the facts.
LEMMA ObeyedFacts ==
  ASSUME NEW c, NEW F, NEW f
  PROVE  /\ Makes(c, f) => f \in Obeyed(c, F)
         /\ Keeps(c, f) /\ f \in F => f \in Obeyed(c, F)
         /\ Removes(c, f) => f \notin Obeyed(c, F)
         /\ StaysAway(c, f) /\ f \notin F => f \notin Obeyed(c, F)
<1> DEFINE Loaded == UNION {{<<load[2], g[2]>> : g \in {k \in F : k[1] = load[1]}} : load \in c.loads}
<1>1. ASSUME f \in Loaded, \A load \in c.loads : load[2] # f[1] PROVE FALSE
  <2>1. PICK load \in c.loads : f \in {<<load[2], g[2]>> : g \in {k \in F : k[1] = load[1]}}
    BY <1>1
  <2>2. PICK g \in {k \in F : k[1] = load[1]} : f = <<load[2], g[2]>>
    BY <2>1
  <2>3. f[1] = load[2]
    BY <2>2
  <2> QED BY <2>3, <1>1
<1>2. Obeyed(c, F) = {g \in F : g[1] \notin c.clears /\ g \notin c.drops} \cup c.adds \cup Loaded
  BY DEF Obeyed
<1> HIDE DEF Loaded
<1> QED BY <1>1, <1>2 DEF Makes, Keeps, Removes, StaysAway

\* The step of a request itself: what the commands before have established
\* is kept, and the goal of a noticed command is reached if it goes on.
LEMMA OwnStep ==
  ASSUME TypeOK, TypeOK', NEW h \in Handlers, Followed(h),
         NEW ok \in BOOLEAN, NEW effect \in BOOLEAN, ok => effect, Ends(h, ok, effect)
  PROVE  Followed(h)'
<1> DEFINE s == asks[h]
           n == at[h]
           c == s.does[n]
           v == Verdict(c, ok)
<1>1. /\ asks' = asks /\ touched'[h] = touched[h] /\ Running(h)
      /\ host' = IF effect THEN Obeyed(c, host) ELSE host
      /\ GoesOn(h, v)
  <2>1. Touch({h}, IF effect THEN Obeyed(c, host) ELSE host)
    BY Zenon DEF Ends, Command
  <2>2. touched'[h] = touched[h]
    BY <2>1 DEF Touch
  <2> QED BY <2>2, Zenon DEF Ends, Command
<1>2. /\ s \in Requests /\ n \in Nat /\ n \in DOMAIN s.does
      /\ DOMAIN s.does = 1..Len(s.does) /\ Len(s.does) \in Nat
  BY <1>1, ChainLength DEF TypeOK
<1> SUFFICES ASSUME NEW i \in DOMAIN s.does, Noticed(s, i),
                    answer'[h] = "success" \/ (answer'[h] = "none" /\ i < at'[h])
             PROVE  /\ \A f \in s.holds : Ensures(s, f, i) => f \in host' \/ f \in touched[h]
                    /\ \A f \in s.gone : Prevents(s, f, i) => f \notin host' \/ f \in touched[h]
  BY <1>1, Zenon DEF Followed
<1>3. i \in Nat /\ i >= 1 /\ i <= Len(s.does)
  BY <1>2
<1>4. n <= i => /\ c.good = "next" /\ c.bad \in {"next", "raises", "reports"}
                /\ v \in {"next", "raises", "reports"}
  BY <1>2, <1>3 DEF Noticed, Verdict
<1>5. v \in {"raises", "reports"} => answer'[h] \in {"error", "unsuccessful"}
  BY <1>1 DEF GoesOn, TypeOK
<1>6. i <= n
  <2>1. SUFFICES ASSUME n < i PROVE FALSE
    BY <1>2, <1>3
  <2>2. v = "next"
    BY <1>2, <1>3, <1>4, <1>5, <2>1
  <2>3. n + 1 <= Len(s.does) /\ at'[h] = n + 1 /\ answer'[h] = "none"
    BY <1>1, <1>2, <1>3, <2>1, <2>2 DEF GoesOn, TypeOK, Running
  <2> QED BY <1>2, <1>3, <2>1, <2>3
<1>7. CASE i < n
  <2>1. answer[h] = "none"
    BY <1>1 DEF Running
  <2>2. ASSUME NEW f \in s.holds, Ensures(s, f, i) PROVE f \in host' \/ f \in touched[h]
    <3>1. f \in host \/ f \in touched[h]
      BY <1>7, <2>1, <2>2, Zenon DEF Followed
    <3>2. Keeps(c, f)
      BY <1>2, <1>3, <1>7, <2>2 DEF Ensures
    <3> QED BY <1>1, <3>1, <3>2, ObeyedFacts, Zenon
  <2>3. ASSUME NEW f \in s.gone, Prevents(s, f, i) PROVE f \notin host' \/ f \in touched[h]
    <3>1. f \notin host \/ f \in touched[h]
      BY <1>7, <2>1, <2>3, Zenon DEF Followed
    <3>2. StaysAway(c, f)
      BY <1>2, <1>3, <1>7, <2>3 DEF Prevents
    <3>3. f \notin host => f \notin Obeyed(c, host)
      BY <3>2, ObeyedFacts, Zenon
    <3>4. f \notin host => f \notin host'
      BY <1>1, <3>3
    <3> QED BY <3>1, <3>4
  <2> QED BY <2>2, <2>3
<1>8. CASE i = n
  <2>1. ok
    <3>1. SUFFICES ASSUME ~ok PROVE FALSE
      OBVIOUS
    <3>2. v = c.bad /\ c.bad # "next"
      BY <1>8, <3>1 DEF Verdict, Noticed
    <3> QED BY <1>2, <1>4, <1>5, <1>8, <3>2
  <2>2. host' = Obeyed(c, host)
    BY <1>1, <2>1
  <2>3. ASSUME NEW f \in s.holds, Ensures(s, f, i) PROVE f \in host'
    BY <1>8, <2>2, <2>3, ObeyedFacts, Zenon DEF Ensures
  <2>4. ASSUME NEW f \in s.gone, Prevents(s, f, i) PROVE f \notin host'
    BY <1>8, <2>2, <2>4, ObeyedFacts, Zenon DEF Prevents
  <2> QED BY <2>3, <2>4
<1> QED BY <1>2, <1>3, <1>6, <1>7, <1>8

LEMMA InitInvariant == Init => IInv
<1> SUFFICES ASSUME Init PROVE IInv
  OBVIOUS
<1>1. TypeOK /\ AnswersBegun
  BY DEF Init, TypeOK, Running, Begun, AnswersBegun
<1>2. ASSUME NEW h \in Handlers PROVE Followed(h)
  <2>1. asks[h] \in Requests /\ answer[h] = "none" /\ at[h] = 0
    BY DEF Init
  <2>2. \A i \in DOMAIN asks[h].does : i >= 1 /\ i \in Nat
    BY <2>1, ChainLength
  <2>3. \A i \in DOMAIN asks[h].does :
          ~(answer[h] = "success" \/ (answer[h] = "none" /\ i < at[h]))
    BY <2>1, <2>2
  <2> QED BY <2>3, Zenon DEF Followed
<1> QED BY <1>1, <1>2 DEF IInv

LEMMA StepInvariant == IInv /\ [Next]_vars => IInv'
<1> SUFFICES ASSUME IInv, [Next]_vars PROVE IInv'
  OBVIOUS
<1>0. TypeOK /\ AnswersBegun /\ \A h \in Handlers : Followed(h)
  BY DEF IInv
<1>1. ASSUME NEW h \in Handlers, Arrives(h) PROVE IInv'
  <2>1. TypeOK'
    BY <1>0, <1>1, ArrivesTypes
  <2>2. /\ \A o \in Handlers \ {h} : at'[o] = at[o] /\ answer'[o] = answer[o]
        /\ at'[h] = 1 /\ asks' = asks /\ host' = host /\ touched' = touched
        /\ answer'[h] = IF asks[h].does = << >> THEN "success" ELSE "none"
    BY <1>0, <1>1 DEF Arrives, TypeOK
  <2>3. AnswersBegun'
    BY <1>0, <2>2 DEF AnswersBegun, Begun
  <2>4. Followed(h)'
    BY <2>1, <2>2, NothingToShow
  <2>5. ASSUME NEW o \in Handlers \ {h} PROVE Followed(o)'
    <3>1. Followed(o)
      BY <1>0
    <3> QED BY <2>2, <3>1, Zenon DEF Followed
  <2> QED BY <2>1, <2>3, <2>4, <2>5, Zenon DEF IInv
<1>2. ASSUME NEW h \in Handlers, NEW ok \in BOOLEAN, NEW effect \in BOOLEAN,
             Ends(h, ok, effect), ok => effect
      PROVE  IInv'
  <2> DEFINE F == IF effect THEN Obeyed(Command(h), host) ELSE host
  <2>1. TypeOK'
    BY <1>0, <1>2, EndsTypes
  <2>2. /\ host' = F /\ Touch({h}, F) /\ asks' = asks /\ Running(h)
        /\ GoesOn(h, Verdict(Command(h), ok))
    BY <1>2, Zenon DEF Ends
  <2> HIDE DEF F
  <2>3. \A o \in Handlers \ {h} : at'[o] = at[o] /\ answer'[o] = answer[o]
    BY <1>0, <2>2, GoesOnTypes
  <2>4. at'[h] # 0
    BY <1>0, <2>2 DEF GoesOn, TypeOK, Running, Begun
  <2>5. AnswersBegun'
    BY <1>0, <2>3, <2>4 DEF AnswersBegun, Begun
  <2>6. Followed(h)'
    BY <1>0, <1>2, <2>1, OwnStep
  <2>7. ASSUME NEW o \in Handlers \ {h} PROVE Followed(o)'
    <3>1. CASE Begun(o)
      BY <1>0, <2>2, <2>3, <3>1, OthersKeep
    <3>2. CASE ~Begun(o)
      <4>1. at'[o] = 0 /\ answer'[o] = "none"
        BY <1>0, <2>3, <3>2 DEF Begun, AnswersBegun
      <4> QED BY <2>1, <4>1, NothingToShow
    <3> QED BY <3>1, <3>2
  <2> QED BY <2>1, <2>5, <2>6, <2>7, Zenon DEF IInv
<1>3. ASSUME Crash PROVE IInv'
  <2> DEFINE who == {o \in Handlers : Running(o)}
  <2>1. TypeOK'
    BY <1>0, <1>3, CrashTypes
  <2>2. PICK F : host' = F /\ Touch(who, F)
    BY <1>3, Zenon DEF Crash
  <2>3. asks' = asks /\ at' = at
    BY <1>3 DEF Crash
  <2>4. \A h \in Handlers : answer'[h] = IF Running(h) THEN "lost" ELSE answer[h]
    BY <1>3 DEF Crash
  <2>5. AnswersBegun'
    BY <1>0, <2>3, <2>4 DEF AnswersBegun, Begun, Running
  <2>6. ASSUME NEW o \in Handlers PROVE Followed(o)'
    <3>1. CASE Running(o)
      BY <2>1, <2>4, <3>1, NothingToShow
    <3>2. CASE ~Running(o) /\ Begun(o)
      <4>1. o \in Handlers \ who /\ answer'[o] = answer[o] /\ at'[o] = at[o]
        BY <2>3, <2>4, <3>2
      <4> HIDE DEF who
      <4> QED BY <1>0, <2>2, <2>3, <3>2, <4>1, OthersKeep
    <3>3. CASE ~Begun(o)
      <4>1. at'[o] = 0 /\ answer'[o] = "none"
        BY <1>0, <2>3, <2>4, <3>3 DEF Begun, AnswersBegun, Running
      <4> QED BY <2>1, <4>1, NothingToShow
    <3> QED BY <3>1, <3>2, <3>3
  <2> QED BY <2>1, <2>5, <2>6, Zenon DEF IInv
<1>4. ASSUME HostMoves PROVE IInv'
  <2>1. TypeOK'
    BY <1>0, <1>4, HostTypes
  <2>2. PICK F : host' = F /\ Touch({}, F)
    BY <1>4, Zenon DEF HostMoves
  <2>3. asks' = asks /\ at' = at /\ answer' = answer
    BY <1>4 DEF HostMoves
  <2>4. AnswersBegun'
    BY <1>0, <2>3 DEF AnswersBegun, Begun
  <2>5. ASSUME NEW o \in Handlers PROVE Followed(o)'
    <3>1. CASE Begun(o)
      BY <1>0, <2>2, <2>3, <3>1, OthersKeep
    <3>2. CASE ~Begun(o)
      <4>1. at'[o] = 0 /\ answer'[o] = "none"
        BY <1>0, <2>3, <3>2 DEF Begun, AnswersBegun
      <4> QED BY <2>1, <4>1, NothingToShow
    <3> QED BY <3>1, <3>2
  <2> QED BY <2>1, <2>4, <2>5, Zenon DEF IInv
<1>5. CASE UNCHANGED vars
  <2>1. TypeOK'
    BY <1>0, <1>5 DEF vars, TypeOK, Running, Begun
  <2>2. AnswersBegun' /\ \A h \in Handlers : Followed(h)'
    BY <1>0, <1>5 DEF vars, AnswersBegun, Begun, Followed
  <2> QED BY <2>1, <2>2 DEF IInv
<1>6. CASE Next
  BY <1>1, <1>2, <1>3, <1>4, <1>6, Steps, Zenon
<1> QED BY <1>5, <1>6

\* A request answered with success has what it was asked for established,
\* but for what others have changed since: the argument from the followed
\* commands, each goal being the work of a noticed one.
LEMMA FollowedSuccess == IInv => SuccessHolds
<1> SUFFICES ASSUME IInv, NEW h \in Handlers, answer[h] = "success"
             PROVE  /\ Sure(asks[h]) \ touched[h] \subseteq host
                    /\ (asks[h].gone \ touched[h]) \cap host = {}
  BY Zenon DEF SuccessHolds
<1>1. Followed(h) /\ asks[h] \in Requests
  BY DEF IInv, TypeOK
<1>2. Thorough(asks[h])
  BY <1>1, ThoroughAssumption
<1>3. ASSUME NEW f \in Sure(asks[h]) PROVE f \in host \/ f \in touched[h]
  <2>1. f \in asks[h].holds
    BY <1>3 DEF Sure
  <2> QED BY <1>1, <1>2, <1>3, <2>1, Zenon DEF Thorough, Followed
<1>4. ASSUME NEW f \in asks[h].gone PROVE f \notin host \/ f \in touched[h]
  BY <1>1, <1>2, Zenon DEF Thorough, Followed
<1> QED BY <1>3, <1>4

\* Whatever the chains of commands, as long as they are thorough, however
\* many requests, and however their commands interleave, fail or are cut
\* short: an answer of success can be believed.
THEOREM SuccessIsTrue == Spec => []SuccessHolds
<1> QED BY InitInvariant, StepInvariant, FollowedSuccess, PTL DEF Spec

-----------------------------------------------------------------------------
(* The files and what they tell.  Only five services touch either: what    *)
(* all the others do is quiet.                                             *)

FileKinds == {"ip_forward", "ip6_forward", "90-dawos.conf", "resolved drop-in", "resolved runs",
              "conntrack_max", "90-conntrack.conf", "91-dawos-conntrack.conf"}

\* A command after which the chain goes on, unless its exit code ends it.
Plain(c) == c.good = "next" /\ c.bad \in {"next", "raises", "reports"}

\* A command that leaves these kinds of facts alone.
Quiet(c) ==
  /\ DOMAIN Look \subseteq DOMAIN c
  /\ c.clears \cap FileKinds = {}
  /\ \A f \in c.drops \cup c.adds : f[1] \notin FileKinds
  /\ \A load \in c.loads : load[2] \notin FileKinds

Quietly(s) == s \in Seq({c \in {s[i] : i \in DOMAIN s} : Quiet(c)})

\* The commands that the services are made of.
LEMMA QuietCommands ==
  /\ Quiet(Look)
  /\ \A facts : Quiet(Check(facts))
  /\ \A kind, v : kind \notin FileKinds => Quiet(Assign(kind, v))
  /\ \A need, facts : (\A f \in facts : f[1] \notin FileKinds) =>
       Quiet(Add(need, facts)) /\ Quiet(New(need, facts))
  /\ \A f, with : f[1] \notin FileKinds /\ with \cap FileKinds = {} => Quiet(Delete(f, with))
<1>1. Quiet(Look) /\ \A facts : Quiet(Check(facts))
  BY DEF Quiet, Look, Check
<1>2. \A kind, v : kind \notin FileKinds => Quiet(Assign(kind, v))
  BY DEF Quiet, Look, Assign
<1>3. \A need, facts : (\A f \in facts : f[1] \notin FileKinds) => Quiet(Add(need, facts))
  BY DEF Quiet, Look, Add
<1>4. \A need, facts : (\A f \in facts : f[1] \notin FileKinds) => Quiet(New(need, facts))
  BY DEF Quiet, Look, New
<1>5. \A f, with : f[1] \notin FileKinds /\ with \cap FileKinds = {} => Quiet(Delete(f, with))
  BY DEF Quiet, Look, Delete
<1> QED BY <1>1, <1>2, <1>3, <1>4, <1>5

\* ... and the same for a single fact, or two.
LEMMA QuietFact ==
  ASSUME NEW kind, kind \notin FileKinds, NEW v
  PROVE  /\ \A need : Quiet(Add(need, {<<kind, v>>})) /\ Quiet(New(need, {<<kind, v>>}))
         /\ Quiet(Delete(<<kind, v>>, {}))
         /\ Quiet([Look EXCEPT !.drops = {<<kind, v>>}])
<1>1. \A f \in {<<kind, v>>} : f[1] \notin FileKinds
  OBVIOUS
<1>2. \A need : Quiet(Add(need, {<<kind, v>>})) /\ Quiet(New(need, {<<kind, v>>}))
  BY <1>1, QuietCommands
<1>3. Quiet(Delete(<<kind, v>>, {}))
  <2>1. <<kind, v>>[1] \notin FileKinds /\ {} \cap FileKinds = {}
    OBVIOUS
  <2> QED BY <2>1, QuietCommands
<1>4. Quiet([Look EXCEPT !.drops = {<<kind, v>>}])
  BY <1>1 DEF Quiet, Look
<1> QED BY <1>2, <1>3, <1>4

LEMMA QuietFacts ==
  ASSUME NEW kind, kind \notin FileKinds, NEW v, NEW other, other \notin FileKinds
  PROVE  /\ \A need, w : Quiet(Add(need, {<<kind, v>>, <<other, w>>}))
         /\ Quiet(Delete(<<kind, v>>, {other}))
         /\ \A w : Quiet([Look EXCEPT !.drops = {<<kind, v>>, <<other, w>>}])
<1>1. \A w : \A f \in {<<kind, v>>, <<other, w>>} : f[1] \notin FileKinds
  OBVIOUS
<1>2. \A need, w : Quiet(Add(need, {<<kind, v>>, <<other, w>>}))
  BY <1>1, QuietCommands
<1>3. Quiet(Delete(<<kind, v>>, {other}))
  <2>1. <<kind, v>>[1] \notin FileKinds /\ {other} \cap FileKinds = {}
    OBVIOUS
  <2> QED BY <2>1, QuietCommands
<1>4. \A w : Quiet([Look EXCEPT !.drops = {<<kind, v>>, <<other, w>>}])
  BY <1>1 DEF Quiet, Look
<1> QED BY <1>2, <1>3, <1>4

LEMMA QuietWays ==
  ASSUME NEW c, Quiet(c)
  PROVE  /\ Quiet(Ignored(c)) /\ Quiet(Reported(c)) /\ Quiet(AccelCmd(c))
         /\ \A way : Quiet([c EXCEPT !.bad = way]) /\ Quiet([c EXCEPT !.good = way])
         /\ \A facts : Quiet([c EXCEPT !.clash = facts]) /\ Quiet([c EXCEPT !.needs = facts])
         /\ \A kinds : kinds \cap FileKinds = {} => Quiet([c EXCEPT !.clears = kinds])
         /\ \A facts : (\A f \in facts : f[1] \notin FileKinds) => Quiet([c EXCEPT !.drops = facts])
<1>1. Quiet(Ignored(c)) /\ Quiet(Reported(c))
  BY DEF Quiet, Look, Ignored, Reported
<1>2. Quiet(AccelCmd(c))
  BY DEF Quiet, Look, AccelCmd
<1>3. \A way : Quiet([c EXCEPT !.bad = way]) /\ Quiet([c EXCEPT !.good = way])
  BY DEF Quiet, Look
<1>4. \A facts : Quiet([c EXCEPT !.clash = facts]) /\ Quiet([c EXCEPT !.needs = facts])
  BY DEF Quiet, Look
<1>5. \A kinds : kinds \cap FileKinds = {} => Quiet([c EXCEPT !.clears = kinds])
  BY DEF Quiet, Look
<1>6. \A facts : (\A f \in facts : f[1] \notin FileKinds) => Quiet([c EXCEPT !.drops = facts])
  BY DEF Quiet, Look
<1> QED BY <1>1, <1>2, <1>3, <1>4, <1>5, <1>6

\* Chains of quiet commands.
LEMMA QuietChain ==
  ASSUME NEW S, NEW s \in Seq(S), \A i \in DOMAIN s : Quiet(s[i])
  PROVE  Quietly(s)
BY DEF Quietly

LEMMA QuietTuples ==
  /\ Quietly(<< >>)
  /\ \A a : Quiet(a) => Quietly(<<a>>)
  /\ \A a, b : Quiet(a) /\ Quiet(b) => Quietly(<<a, b>>)
  /\ \A a, b, c : Quiet(a) /\ Quiet(b) /\ Quiet(c) => Quietly(<<a, b, c>>)
  /\ \A a, b, c, d : Quiet(a) /\ Quiet(b) /\ Quiet(c) /\ Quiet(d) => Quietly(<<a, b, c, d>>)
<1>1. Quietly(<< >>)
  BY DEF Quietly
<1>2. \A a : Quiet(a) => Quietly(<<a>>)
  BY DEF Quietly
<1>3. \A a, b : Quiet(a) /\ Quiet(b) => Quietly(<<a, b>>)
  BY DEF Quietly
<1>4. \A a, b, c : Quiet(a) /\ Quiet(b) /\ Quiet(c) => Quietly(<<a, b, c>>)
  BY DEF Quietly
<1>5. \A a, b, c, d : Quiet(a) /\ Quiet(b) /\ Quiet(c) /\ Quiet(d) => Quietly(<<a, b, c, d>>)
  BY DEF Quietly
<1> QED BY <1>1, <1>2, <1>3, <1>4, <1>5

LEMMA QuietJoin ==
  ASSUME NEW s, NEW t, Quietly(s), Quietly(t)
  PROVE  Quietly(s \o t)
<1> DEFINE S == {c \in {s[i] : i \in DOMAIN s} : Quiet(c)}
           T == {c \in {t[i] : i \in DOMAIN t} : Quiet(c)}
           U == S \cup T
<1>1. s \in Seq(S) /\ t \in Seq(T) /\ (\A c \in U : Quiet(c))
  BY DEF Quietly
<1> HIDE DEF S, T
<1>2. s \in Seq(U) /\ t \in Seq(U)
  BY <1>1
<1> HIDE DEF U
<1>3. s \o t \in Seq(U) /\ \A i \in DOMAIN (s \o t) : (s \o t)[i] \in U
  BY <1>2
<1> QED BY <1>1, <1>3, QuietChain

\* One lemma per group of services: none of their commands touches a file
\* of these or what it tells.
LEMMA QuietFirewall ==
  /\ Quietly(remove_masquerade.does) /\ Quietly(save_ruleset.does)
  /\ \A t, e : Quietly(create_group(t, e).does)
  /\ \A t : Quietly(delete_group(t).does) /\ Quietly(add_members(t).does)
  /\ Quietly(create_zone.does) /\ Quietly(delete_zone.does)
<1>1. Quietly(remove_masquerade.does)
  <2>1. Quiet(DeleteNatTable)
    BY QuietCommands, QuietFact, QuietFacts DEF DeleteNatTable, NatTable, FileKinds
  <2> QED BY <2>1, QuietTuples DEF remove_masquerade, Service
<1>2. Quietly(save_ruleset.does)
  BY QuietCommands, QuietTuples DEF save_ruleset, Service
<1>3. ASSUME NEW t, NEW e PROVE Quietly(create_group(t, e).does)
  <2> DEFINE table == Add({}, {FilterTable})
             set   == [Add({FilterTable}, {<<"set", t>>})
                         EXCEPT !.clash = {<<"set", x>> : x \in GroupTypes \ {t}}]
             rest  == Optional(e, <<Add({<<"set", t>>}, {<<"element", t>>})>>)
  <2>1. Quiet(table)
    BY QuietCommands, QuietFact, QuietFacts DEF FilterTable, FileKinds
  <2>2. Quiet(set)
    <3>1. Quiet(Add({FilterTable}, {<<"set", t>>}))
      BY QuietCommands, QuietFact, QuietFacts DEF FileKinds
    <3> QED BY <3>1, QuietWays
  <2>3. Quietly(rest)
    <3>1. Quiet(Add({<<"set", t>>}, {<<"element", t>>}))
      BY QuietCommands, QuietFact, QuietFacts DEF FileKinds
    <3> QED BY <3>1, QuietTuples DEF Optional
  <2>4. create_group(t, e).does = <<table, set>> \o rest
    BY DEF create_group, Service
  <2> HIDE DEF table, set, rest
  <2> QED BY <2>1, <2>2, <2>3, <2>4, QuietTuples, QuietJoin
<1>4. ASSUME NEW t PROVE Quietly(delete_group(t).does) /\ Quietly(add_members(t).does)
  <2>1. Quiet(Delete(<<"set", t>>, {"element"})) /\ Quiet(Add({<<"set", t>>}, {<<"element", t>>}))
    BY QuietCommands, QuietFact, QuietFacts DEF FileKinds
  <2> QED BY <2>1, QuietTuples DEF delete_group, add_members, Service
<1>5. Quietly(create_zone.does)
  <2> DEFINE hooks == [i \in 1..3 |-> Ignored(Add({Zone}, {<<"zone chain", Hooks[i]>>}))]
  <2>1. Quiet(Reported(Add({}, {Zone})))
    <3>1. Quiet(Add({}, {Zone}))
      BY QuietCommands, QuietFact, QuietFacts DEF Zone, FileKinds
    <3> QED BY <3>1, QuietWays
  <2>2. \A i \in 1..3 : Quiet(hooks[i])
    <3>1. \A i \in 1..3 : Quiet(Add({Zone}, {<<"zone chain", Hooks[i]>>}))
      BY QuietCommands, QuietFact, QuietFacts DEF FileKinds
    <3> QED BY <3>1, QuietWays
  <2>3. Quietly(hooks)
    <3>1. hooks \in Seq({hooks[i] : i \in 1..3}) /\ DOMAIN hooks = 1..3
      OBVIOUS
    <3> HIDE DEF hooks
    <3> QED BY <2>2, <3>1, QuietChain
  <2>4. create_zone.does = <<Reported(Add({}, {Zone}))>> \o hooks
    BY DEF create_zone, Hoping, Service
  <2> HIDE DEF hooks
  <2> QED BY <2>1, <2>3, <2>4, QuietTuples, QuietJoin
<1>6. Quietly(delete_zone.does)
  <2>1. Quiet(Delete(Zone, {"zone chain"}))
    BY QuietCommands, QuietFact, QuietFacts DEF Zone, FileKinds
  <2> QED BY <2>1, QuietWays, QuietTuples DEF delete_zone, Service
<1> QED BY <1>1, <1>2, <1>3, <1>4, <1>5, <1>6

LEMMA QuietTracking ==
  /\ \A k, v : Quietly(set_timeout(k, v).does)
  /\ \A v : Quietly(apply_profile(v).does)
  /\ Quietly(flush_table.does)
<1>2. ASSUME NEW k, NEW v PROVE Quietly(set_timeout(k, v).does)
  <2>1. k \in Timeouts => Quiet(Assign(k, v))
    BY QuietCommands, QuietFact, QuietFacts DEF Timeouts, FileKinds
  <2>2. Quiet(Ignored(Look)) /\ Quiet(Check({<<"known", k>>}))
    BY QuietCommands, QuietWays
  <2> QED BY <2>1, <2>2, QuietTuples DEF set_timeout, Service
<1>3. ASSUME NEW v PROVE Quietly(apply_profile(v).does)
  <2> DEFINE both == [i \in 1..2 |-> Assign(ProfileOrder[i], v)]
  <2>1. \A i \in 1..2 : Quiet(both[i])
    <3>1. ProfileOrder[1] \notin FileKinds /\ ProfileOrder[2] \notin FileKinds
      BY DEF ProfileOrder, FileKinds
    <3> QED BY <3>1, QuietCommands
  <2>2. Quietly(both)
    <3>1. both \in Seq({both[i] : i \in 1..2}) /\ DOMAIN both = 1..2
      OBVIOUS
    <3> HIDE DEF both
    <3> QED BY <2>1, <3>1, QuietChain
  <2>3. apply_profile(v).does = both \o <<Ignored(Look)>>
    BY DEF apply_profile, Service
  <2>4. Quiet(Ignored(Look))
    BY QuietCommands, QuietWays
  <2> HIDE DEF both
  <2> QED BY <2>2, <2>3, <2>4, QuietTuples, QuietJoin
<1>4. Quietly(flush_table.does)
  <2>1. Quiet(Ignored(Look)) /\ Quiet([Look EXCEPT !.clears = {"tracked"}])
    BY QuietCommands, QuietFact, QuietFacts, QuietWays DEF FileKinds
  <2> QED BY <2>1, QuietTuples DEF flush_table, Service
<1> QED BY <1>2, <1>3, <1>4

LEMMA QuietNetwork ==
  /\ \A parts : Quietly(configure_interface(parts).does)
  /\ \A address : Quietly(create_vlan(address).does)
  /\ \A state : Quietly(set_vlan_state(state).does)
  /\ Quietly(delete_vlan.does) /\ Quietly(add_route.does) /\ Quietly(delete_route.does)
  /\ \A v : Quietly(set_dns(v, FALSE).does)
<1>1. ASSUME NEW parts PROVE Quietly(configure_interface(parts).does)
  <2> DEFINE p == Optional("address" \in parts, <<New({}, {<<"address", "a">>})>>)
             q == Optional("remove_address" \in parts, <<Delete(<<"address", "b">>, {})>>)
             r == Optional("mtu" \in parts, <<Assign("mtu", 1)>>)
             s == Optional("state" \in parts, <<Assign("link", "down")>>)
  <2>1. /\ Quiet(New({}, {<<"address", "a">>})) /\ Quiet(Delete(<<"address", "b">>, {}))
        /\ Quiet(Assign("mtu", 1)) /\ Quiet(Assign("link", "down"))
    BY QuietCommands, QuietFact, QuietFacts DEF FileKinds
  <2>2. Quietly(p) /\ Quietly(q) /\ Quietly(r) /\ Quietly(s)
    BY <2>1, QuietTuples DEF Optional
  <2>3. configure_interface(parts).does = p \o q \o r \o s
    BY DEF configure_interface, Service
  <2> HIDE DEF p, q, r, s
  <2> QED BY <2>2, <2>3, QuietJoin
<1>2. \A state : Quiet(VlanUp(state))
  <2>1. \A state : Quiet(Assign("vlan link", state))
    BY QuietCommands, QuietFact, QuietFacts DEF FileKinds
  <2> QED BY <2>1, QuietWays DEF VlanUp
<1>3. ASSUME NEW address PROVE Quietly(create_vlan(address).does)
  <2> DEFINE rest == Optional(address, <<New({Vlan}, {<<"vlan address", "a">>})>>)
  <2>1. Quiet(New({}, {Vlan})) /\ Quiet(New({Vlan}, {<<"vlan address", "a">>}))
    BY QuietCommands, QuietFact, QuietFacts DEF Vlan, FileKinds
  <2>2. Quietly(rest)
    BY <2>1, QuietTuples DEF Optional
  <2>3. create_vlan(address).does = <<New({}, {Vlan}), VlanUp("up")>> \o rest
    BY DEF create_vlan, Service
  <2> HIDE DEF rest
  <2> QED BY <1>2, <2>1, <2>2, <2>3, QuietTuples, QuietJoin
<1>4. \A state : Quietly(set_vlan_state(state).does)
  BY <1>2, QuietTuples DEF set_vlan_state, Service
<1>5. Quietly(delete_vlan.does) /\ Quietly(add_route.does) /\ Quietly(delete_route.does)
  <2>1. /\ Quiet(Delete(Vlan, {"vlan link", "vlan address"}))
        /\ Quiet(New({}, {Route})) /\ Quiet(Delete(Route, {}))
    BY QuietCommands, QuietFact, QuietFacts DEF Vlan, Route, FileKinds
  <2> QED BY <2>1, QuietTuples DEF delete_vlan, add_route, delete_route, Service
<1>6. ASSUME NEW v PROVE Quietly(set_dns(v, FALSE).does)
  <2>1. Quiet(Assign("resolv.conf", v))
    BY QuietCommands, QuietFact, QuietFacts DEF FileKinds
  <2>2. set_dns(v, FALSE).does = <<Assign("resolv.conf", v)>>
    BY DEF set_dns, Blocking, Service
  <2> QED BY <2>1, <2>2, QuietTuples
<1> QED BY <1>1, <1>3, <1>4, <1>5, <1>6

LEMMA QuietDaemons ==
  /\ \A v : Quietly(set_forwarders(v).does)
  /\ Quietly(flush_cache.does) /\ Quietly(dhcp_restart.does) /\ Quietly(relay_restart.does)
  /\ Quietly(vrrp_failover.does) /\ Quietly(vrrp_restart.does)
  /\ Quietly(flow_restart.does) /\ Quietly(exporter_restart.does)
  /\ \A e : Quietly(configure_exporter(e).does)
<1>1. Quiet(Hangup) /\ Quiet(Check({DnsmasqUp}))
  <2>1. Quiet([Look EXCEPT !.needs = {DnsmasqUp}])
    BY QuietCommands, QuietWays
  <2>2. Hangup = [[Look EXCEPT !.needs = {DnsmasqUp}] EXCEPT !.clears = {"cached"}]
    BY DEF Hangup, Look
  <2> QED BY <2>1, <2>2, QuietCommands, QuietWays DEF FileKinds
<1>2. ASSUME NEW v PROVE Quietly(set_forwarders(v).does)
  <2>1. Quiet(Ignored(Assign("dawos-forwarding.conf", v)))
    BY QuietCommands, QuietFact, QuietFacts, QuietWays DEF FileKinds
  <2> QED BY <1>1, <2>1, QuietTuples DEF set_forwarders, Hoping, Service
<1>3. \A daemon : Quiet(Add({}, {<<"up", daemon>>})) /\ Quiet(Reported(Add({}, {<<"up", daemon>>})))
  <2>1. \A daemon : Quiet(Add({}, {<<"up", daemon>>}))
    BY QuietCommands, QuietFact, QuietFacts DEF FileKinds
  <2> QED BY <2>1, QuietWays
<1>4. Quietly(flush_cache.does) /\ Quietly(relay_restart.does) /\ Quietly(exporter_restart.does)
  BY <1>1, <1>3, QuietTuples DEF flush_cache, relay_restart, exporter_restart, Exporter, Service
<1>5. Quietly(dhcp_restart.does)
  <2>1. /\ DnsmasqRestart.clears = {"cached", "dnsmasq runs"} /\ DnsmasqRestart.drops = {}
        /\ DnsmasqRestart.adds = {<<"up", "dnsmasq">>}
        /\ DnsmasqRestart.loads = {<<"dawos-forwarding.conf", "dnsmasq runs">>}
        /\ DOMAIN Look \subseteq DOMAIN DnsmasqRestart
    BY DEF DnsmasqRestart, Restart, Look
  <2>2. <<"up", "dnsmasq">>[1] = "up" /\ <<"dawos-forwarding.conf", "dnsmasq runs">>[2] = "dnsmasq runs"
    OBVIOUS
  <2>3. Quiet(DnsmasqRestart)
    BY <2>1, <2>2 DEF Quiet, FileKinds
  <2> QED BY <2>3, QuietWays, QuietTuples DEF dhcp_restart, Service
<1>6. Quietly(vrrp_failover.does)
  <2>1. Quiet(Check({KeepalivedUp})) /\ Quiet(Add({KeepalivedUp}, {<<"vrrp", "signalled">>}))
    BY QuietCommands, QuietFact, QuietFacts DEF FileKinds
  <2> QED BY <2>1, QuietWays, QuietTuples DEF vrrp_failover, Service
<1>7. Quietly(vrrp_restart.does)
  <2>1. Quiet([Add({}, {KeepalivedUp}) EXCEPT !.clears = {"vrrp"}])
    BY <1>3, QuietWays DEF KeepalivedUp, FileKinds
  <2> QED BY <2>1, QuietWays, QuietTuples DEF vrrp_restart, Service
<1>8. Quietly(flow_restart.does)
  <2>1. /\ Quiet([Check({<<"up", "pmacctd">>}) EXCEPT !.bad = "skip"])
        /\ Quiet([Reported(Add({}, {<<"up", "pmacctd">>})) EXCEPT !.good = "done"])
        /\ Quiet(Ignored(Check({<<"up", "softflowd">>})))
        /\ Quiet(Reported(Add({}, {<<"up", "softflowd">>})))
    BY <1>3, QuietCommands, QuietWays
  <2> QED BY <2>1, QuietTuples DEF flow_restart, Service
<1>9. ASSUME NEW e PROVE Quietly(configure_exporter(e).does)
  <2>1. Quiet(Reported(Add({}, {Exporter, AtBoot})))
    <3>1. Quiet(Add({}, {Exporter, AtBoot}))
      BY QuietCommands, QuietFact, QuietFacts DEF Exporter, AtBoot, FileKinds
    <3> QED BY <3>1, QuietWays
  <2>2. Quiet(Reported([Look EXCEPT !.drops = {Exporter, AtBoot}]))
    <3>1. Quiet([Look EXCEPT !.drops = {Exporter, AtBoot}])
      BY QuietCommands, QuietFact, QuietFacts, QuietWays DEF Exporter, AtBoot, FileKinds
    <3> QED BY <3>1, QuietWays
  <2> QED BY <2>1, <2>2, QuietTuples DEF configure_exporter, Service
<1> QED BY <1>2, <1>4, <1>5, <1>6, <1>7, <1>8, <1>9

LEMMA QuietAccel ==
  /\ \A m : Quietly(initiate_shutdown(m).does)
  /\ Quietly(cancel_shutdown.does)
  /\ \A a : Quietly(service_action(a).does)
  /\ \A a : Quietly(mac_filter(a).does)
  /\ Quiet(Drained)
<1>1. /\ \A f : f[1] \notin FileKinds => Quiet([Look EXCEPT !.drops = {f}])
      /\ \A f : f[1] \notin FileKinds => Quiet(AccelCmd([Look EXCEPT !.drops = {f}]))
      /\ Quiet(AccelCmd(Look)) /\ Quiet(Ignored(AccelCmd(Look)))
  BY QuietCommands, QuietWays
<1>2. ASSUME NEW m PROVE Quietly(initiate_shutdown(m).does)
  <2>1. Quiet(Add({}, {Draining})) /\ Quiet(Delete(AccelUp, {"accel-ppp"}))
    BY QuietCommands, QuietFact, QuietFacts DEF Draining, AccelUp, FileKinds
  <2>2. Quiet(AccelCmd(Add({}, {Draining}))) /\ Quiet(AccelCmd(Delete(AccelUp, {"accel-ppp"})))
    BY <2>1, QuietWays
  <2> QED BY <1>1, <2>2, QuietTuples DEF initiate_shutdown, Service
<1>3. Quietly(cancel_shutdown.does)
  <2>1. Quiet(AccelCmd([Look EXCEPT !.drops = {Draining}]))
    BY <1>1 DEF Draining, FileKinds
  <2> QED BY <1>1, <2>1, QuietTuples DEF cancel_shutdown, Service
<1>4. ASSUME NEW a PROVE Quietly(service_action(a).does)
  <2> DEFINE stop  == [Look EXCEPT !.clears = {"accel-ppp"}, !.drops = {AccelUp}]
             start == [Add({}, {AccelUp}) EXCEPT
                         !.clears = IF a = "restart" THEN {"accel-ppp"} ELSE {}]
  <2>1. Quiet(stop)
    <3>1. Quiet([Look EXCEPT !.clears = {"accel-ppp"}])
      BY QuietCommands, QuietWays DEF FileKinds
    <3>2. stop = [[Look EXCEPT !.clears = {"accel-ppp"}] EXCEPT !.drops = {AccelUp}]
      OBVIOUS
    <3>3. \A f \in {AccelUp} : f[1] \notin FileKinds
      <4>1. AccelUp[1] = "up" /\ "up" \notin FileKinds
        BY DEF AccelUp, FileKinds
      <4> QED BY <4>1
    <3> HIDE DEF stop
    <3> QED BY <3>1, <3>2, <3>3, QuietWays
  <2>2. Quiet(start)
    <3>1. Quiet(Add({}, {AccelUp}))
      BY QuietCommands, QuietFact, QuietFacts DEF AccelUp, FileKinds
    <3>2. (IF a = "restart" THEN {"accel-ppp"} ELSE {}) \cap FileKinds = {}
      BY DEF FileKinds
    <3> QED BY <3>1, <3>2, QuietWays
  <2>3. Quietly(<<AccelCmd(Look)>>) /\ Quietly(<<stop>>) /\ Quietly(<<start>>)
    BY <1>1, <2>1, <2>2, QuietTuples
  <2>4. service_action(a).does \in {<<AccelCmd(Look)>>, <<stop>>, <<start>>}
    BY DEF service_action, Service
  <2> HIDE DEF stop, start
  <2> QED BY <2>3, <2>4
<1>5. ASSUME NEW a PROVE Quietly(mac_filter(a).does)
  <2>1. Quiet(AccelCmd(Add({}, {Filtered})))
    <3>1. Quiet(Add({}, {Filtered}))
      BY QuietCommands, QuietFact, QuietFacts DEF Filtered, FileKinds
    <3> QED BY <3>1, QuietWays
  <2>2. Quiet(AccelCmd([Look EXCEPT !.drops = {Filtered}]))
    BY <1>1 DEF Filtered, FileKinds
  <2> QED BY <2>1, <2>2, QuietTuples DEF mac_filter, Service
<1>6. Quiet(Drained)
  <2>1. Quiet(Delete(AccelUp, {"accel-ppp"}))
    BY QuietCommands, QuietFact, QuietFacts DEF AccelUp, FileKinds
  <2> QED BY <2>1, QuietWays DEF Drained
<1> QED BY <1>2, <1>3, <1>4, <1>5, <1>6

\* The services that write the files.
IsWriter(q) ==
  \/ \E v4, v6 \in Levels : q = set_sysctl(v4, v6)
  \/ \E l \in Links : q = setup_masquerade(l)
  \/ \E v \in Levels : q = set_dns(v, TRUE)
  \/ \E n \in Levels : q = set_table_size(n) \/ q = set_conntrack(n)

LEMMA OnlyWriters ==
  ASSUME NEW q \in HostRequests, ~IsWriter(q)
  PROVE  Quietly(q.does)
<1>1. CASE q \in FirewallRequests
  <2>1. ASSUME NEW a \in Levels, NEW b \in Levels PROVE q # set_sysctl(a, b)
    BY Zenon DEF IsWriter
  <2>2. ASSUME NEW l \in Links PROVE q # setup_masquerade(l)
    BY Zenon DEF IsWriter
  <2> QED BY <1>1, <2>1, <2>2, QuietFirewall DEF FirewallRequests
<1>2. CASE q \in TrackingRequests
  <2>1. ASSUME NEW n \in Levels PROVE q # set_table_size(n) /\ q # set_conntrack(n)
    BY Zenon DEF IsWriter
  <2> QED BY <1>2, <2>1, QuietTracking DEF TrackingRequests
<1>3. CASE q \in NetworkRequests
  <2>1. ASSUME NEW v \in Levels, NEW l \in BOOLEAN, q = set_dns(v, l) PROVE Quietly(q.does)
    <3>1. q # set_dns(v, TRUE)
      BY Zenon DEF IsWriter
    <3>2. q = set_dns(v, FALSE)
      BY <2>1, <3>1, Zenon
    <3> QED BY <3>2, QuietNetwork
  <2>2. q \in {set_dns(v, l) : v \in Levels, l \in BOOLEAN} => Quietly(q.does)
    BY <2>1
  <2> QED BY <1>3, <2>2, QuietNetwork DEF NetworkRequests
<1>4. CASE q \in DaemonRequests
  BY <1>4, QuietDaemons DEF DaemonRequests
<1>5. CASE q \in AccelRequests
  BY <1>5, QuietAccel DEF AccelRequests
<1> QED BY <1>1, <1>2, <1>3, <1>4, <1>5 DEF HostRequests

-----------------------------------------------------------------------------
(* The chains of the writers, command by command.                          *)

\* The three commands of set_sysctl(v4, v6) follow k quiet ones.
Forwards(q, k, v4, v6) ==
  /\ Len(q.does) = k + 3
  /\ \A i \in 1..k : Quiet(q.does[i]) /\ Plain(q.does[i])
  /\ q.does[k + 1] = Assign("ip_forward", v4) /\ q.does[k + 2] = Assign("ip6_forward", v6)
  /\ q.does[k + 3] = Ignored(Assign("90-dawos.conf", <<v4, v6>>))

Resolves(q, v) ==
  /\ Len(q.does) = 3
  /\ q.does[1] = Look /\ q.does[2] = Assign("resolved drop-in", v)
  /\ q.does[3] = Ignored(Restart("resolved", "resolved drop-in", "resolved runs"))

Tracks(q, v) ==
  /\ Len(q.does) = 3
  /\ \/ /\ q.does[1] = Assign("conntrack_max", v)
        /\ q.does[2] = Assign("91-dawos-conntrack.conf", v)
     \/ /\ q.does[1] = Ignored(Assign("conntrack_max", v))
        /\ q.does[2] = Ignored(Assign("90-conntrack.conf", v))
  /\ q.does[3] = Ignored(Look)

LEMMA SysctlChain == ASSUME NEW v4, NEW v6 PROVE Forwards(set_sysctl(v4, v6), 0, v4, v6)
<1> DEFINE a == Assign("ip_forward", v4)
           b == Assign("ip6_forward", v6)
           c == Ignored(Assign("90-dawos.conf", <<v4, v6>>))
           q == set_sysctl(v4, v6)
<1>1. q.does = <<a, b, c>>
  BY DEF set_sysctl, Hoping, Service, SetSysctl
<1> HIDE DEF a, b, c, q
<1>2. Len(q.does) = 0 + 3 /\ q.does[0 + 1] = a /\ q.does[0 + 2] = b /\ q.does[0 + 3] = c
  BY <1>1
<1>3. \A i \in 1..0 : Quiet(q.does[i]) /\ Plain(q.does[i])
  OBVIOUS
<1>4. Forwards(q, 0, v4, v6)
  BY <1>2, <1>3 DEF Forwards, a, b, c
<1> QED BY <1>4 DEF q

LEMMA MasqueradeChain == ASSUME NEW l PROVE Forwards(setup_masquerade(l), 4, 1, 0)
<1> DEFINE a == Ignored(DeleteNatTable)
           b == Add({}, {NatTable})
           c == Add({NatTable}, {NatChain})
           d == Add({NatTable, NatChain}, {<<"masquerade", l>>})
           x == Assign("ip_forward", 1)
           y == Assign("ip6_forward", 0)
           z == Ignored(Assign("90-dawos.conf", <<1, 0>>))
<1>1. setup_masquerade(l).does = <<a, b, c, d>> \o <<x, y, z>>
  BY DEF setup_masquerade, Hoping, Service, SetSysctl
<1>2. Quiet(a) /\ Quiet(b) /\ Quiet(c) /\ Quiet(d)
  <2>1. Quiet(DeleteNatTable)
    BY QuietCommands, QuietFacts DEF DeleteNatTable, NatTable, FileKinds
  <2>2. Quiet(b) /\ Quiet(c) /\ Quiet(d)
    BY QuietFact DEF NatTable, NatChain, FileKinds
  <2> QED BY <2>1, <2>2, QuietWays
<1>3. Plain(a) /\ Plain(b) /\ Plain(c) /\ Plain(d)
  BY DEF Plain, Ignored, DeleteNatTable, Delete, Add, Look
<1> HIDE DEF a, b, c, d, x, y, z
<1> DEFINE p == <<a, b, c, d>>
           q == <<x, y, z>>
           U == {a, b, c, d, x, y, z}
<1>4. /\ p \in Seq(U) /\ Len(p) = 4 /\ p[1] = a /\ p[2] = b /\ p[3] = c /\ p[4] = d
      /\ q \in Seq(U) /\ Len(q) = 3 /\ q[1] = x /\ q[2] = y /\ q[3] = z
  OBVIOUS
<1> DEFINE j == p \o q
<1>5. /\ Len(j) = 7 /\ \A i \in 1..4 : j[i] = p[i]
      /\ j[5] = q[1] /\ j[6] = q[2] /\ j[7] = q[3]
  <2> HIDE DEF p, q, U
  <2>1. /\ Len(j) = Len(p) + Len(q)
        /\ \A i \in 1..(Len(p) + Len(q)) : j[i] = IF i <= Len(p) THEN p[i] ELSE q[i - Len(p)]
    BY <1>4, ConcatProperties, Zenon
  <2> HIDE DEF j
  <2>2. Len(j) = 7 /\ \A i \in 1..7 : j[i] = IF i <= 4 THEN p[i] ELSE q[i - 4]
    BY <1>4, <2>1
  <2>3. j[5] = q[5 - 4] /\ j[6] = q[6 - 4] /\ j[7] = q[7 - 4]
    BY <2>2
  <2> QED BY <2>2, <2>3
<1>6. \A i \in 1..4 : Quiet(p[i]) /\ Plain(p[i])
  <2> HIDE DEF p
  <2> QED BY <1>2, <1>3, <1>4
<1>7. setup_masquerade(l).does = j
  BY <1>1
<1> DEFINE s == setup_masquerade(l)
<1> HIDE DEF p, q, j, s
<1>8. /\ Len(s.does) = 4 + 3 /\ \A i \in 1..4 : Quiet(s.does[i]) /\ Plain(s.does[i])
      /\ s.does[4 + 1] = x /\ s.does[4 + 2] = y /\ s.does[4 + 3] = z
  BY <1>4, <1>5, <1>6, <1>7 DEF s
<1>9. Forwards(s, 4, 1, 0)
  BY <1>8 DEF Forwards, x, y, z
<1> QED BY <1>9 DEF s

LEMMA ResolverChain == ASSUME NEW v PROVE Resolves(set_dns(v, TRUE), v)
<1> DEFINE a == Assign("resolved drop-in", v)
           b == Ignored(Restart("resolved", "resolved drop-in", "resolved runs"))
           q == set_dns(v, TRUE)
<1>1. q.does = <<Look, a, b>>
  BY DEF set_dns, Blocking, Hoping, Service
<1> HIDE DEF a, b, q
<1>2. Len(q.does) = 3 /\ q.does[1] = Look /\ q.does[2] = a /\ q.does[3] = b
  BY <1>1
<1>3. Resolves(q, v)
  BY <1>2 DEF Resolves, a, b
<1> QED BY <1>3 DEF q

LEMMA TrackingChain ==
  ASSUME NEW v
  PROVE  Tracks(set_table_size(v), v) /\ Tracks(set_conntrack(v), v)
<1> DEFINE a == Assign("conntrack_max", v)
           b == Assign("91-dawos-conntrack.conf", v)
           c == Ignored(Assign("conntrack_max", v))
           d == Ignored(Assign("90-conntrack.conf", v))
           e == Ignored(Look)
           p == set_table_size(v)
           q == set_conntrack(v)
<1>1. p.does = <<a, b, e>> /\ q.does = <<c, d, e>>
  BY DEF set_table_size, set_conntrack, Hoping, Service
<1> HIDE DEF a, b, c, d, e, p, q
<1>2. /\ Len(p.does) = 3 /\ p.does[1] = a /\ p.does[2] = b /\ p.does[3] = e
      /\ Len(q.does) = 3 /\ q.does[1] = c /\ q.does[2] = d /\ q.does[3] = e
  BY <1>1
<1>3. Tracks(p, v)
  BY <1>2 DEF Tracks, a, b, e
<1>4. Tracks(q, v)
  BY <1>2 DEF Tracks, c, d, e
<1> QED BY <1>3, <1>4 DEF p, q

LEMMA WriterShapes ==
  ASSUME NEW q, IsWriter(q)
  PROVE  \/ \E v4, v6 \in Levels, k \in {0, 4} : Forwards(q, k, v4, v6)
         \/ \E v \in Levels : Resolves(q, v)
         \/ \E v \in Levels : Tracks(q, v)
<1>1. ASSUME NEW v4 \in Levels, NEW v6 \in Levels, q = set_sysctl(v4, v6)
      PROVE  \E k \in {0, 4} : Forwards(q, k, v4, v6)
  BY <1>1, SysctlChain
<1>2. ASSUME NEW l \in Links, q = setup_masquerade(l)
      PROVE  \E k \in {0, 4} : Forwards(q, k, 1, 0)
  BY <1>2, MasqueradeChain
<1>3. 0 \in Levels /\ 1 \in Levels
  BY LevelsAssumption
<1>4. ASSUME NEW v \in Levels, q = set_dns(v, TRUE) PROVE Resolves(q, v)
  BY <1>4, ResolverChain
<1>5. ASSUME NEW v \in Levels, q = set_table_size(v) \/ q = set_conntrack(v) PROVE Tracks(q, v)
  BY <1>5, TrackingChain
<1> QED BY <1>1, <1>2, <1>3, <1>4, <1>5, Zenon DEF IsWriter

-----------------------------------------------------------------------------
(* What bears on a setting, and what does not.                             *)

Files == {ForwardingKinds, ResolverKinds, TrackingKinds}

LEMMA QuietBears ==
  ASSUME NEW c, Quiet(c), NEW K \in Files
  PROVE  ~Bears(c, K)
<1>1. K \subseteq FileKinds
  BY DEF Files, FileKinds, ForwardingKinds, ResolverKinds, TrackingKinds
<1> QED BY <1>1 DEF Quiet, Bears

LEMMA AssignBears ==
  ASSUME NEW kind, NEW v, NEW K
  PROVE  /\ Bears(Assign(kind, v), K) <=> kind \in K
         /\ Bears(Ignored(Assign(kind, v)), K) <=> kind \in K
<1>1. /\ Assign(kind, v).clears = {kind} /\ Assign(kind, v).drops = {}
      /\ Assign(kind, v).adds = {<<kind, v>>} /\ Assign(kind, v).loads = {}
  BY DEF Assign, Look
<1>2. /\ Ignored(Assign(kind, v)).clears = {kind} /\ Ignored(Assign(kind, v)).drops = {}
      /\ Ignored(Assign(kind, v)).adds = {<<kind, v>>} /\ Ignored(Assign(kind, v)).loads = {}
  BY DEF Ignored, Assign, Look
<1>3. <<kind, v>>[1] = kind
  OBVIOUS
<1>4. Bears(Assign(kind, v), K) <=> kind \in K
  BY <1>1, <1>3 DEF Bears
<1>5. Bears(Ignored(Assign(kind, v)), K) <=> kind \in K
  BY <1>2, <1>3 DEF Bears
<1> QED BY <1>4, <1>5

ReadDropIn == Ignored(Restart("resolved", "resolved drop-in", "resolved runs"))

LEMMA RestartBears ==
  /\ Bears(ReadDropIn, ResolverKinds)
  /\ ~Bears(ReadDropIn, ForwardingKinds) /\ ~Bears(ReadDropIn, TrackingKinds)
<1>1. /\ ReadDropIn.clears = {"resolved runs"} /\ ReadDropIn.drops = {}
      /\ ReadDropIn.adds = {<<"up", "resolved">>}
      /\ ReadDropIn.loads = {<<"resolved drop-in", "resolved runs">>}
  BY DEF ReadDropIn, Ignored, Restart, Look
<1>2. <<"up", "resolved">>[1] = "up" /\ <<"resolved drop-in", "resolved runs">>[2] = "resolved runs"
  OBVIOUS
<1> QED BY <1>1, <1>2 DEF Bears, ForwardingKinds, ResolverKinds, TrackingKinds

\* A command that does not bear on a setting leaves its facts alone.
LEMMA UnbornObeyed ==
  ASSUME NEW c, NEW K, ~Bears(c, K), NEW F, NEW f, f[1] \in K
  PROVE  f \in Obeyed(c, F) <=> f \in F
<1> DEFINE Loaded == UNION {{<<load[2], g[2]>> : g \in {k \in F : k[1] = load[1]}} : load \in c.loads}
<1>1. f[1] \notin c.clears /\ f \notin c.drops /\ f \notin c.adds
  BY DEF Bears
<1>2. ASSUME f \in Loaded PROVE FALSE
  <2>1. PICK load \in c.loads : f \in {<<load[2], g[2]>> : g \in {k \in F : k[1] = load[1]}}
    BY <1>2
  <2>2. PICK g \in {k \in F : k[1] = load[1]} : f = <<load[2], g[2]>>
    BY <2>1
  <2>3. f[1] = load[2]
    BY <2>2
  <2> QED BY <2>3 DEF Bears
<1>3. Obeyed(c, F) = {g \in F : g[1] \notin c.clears /\ g \notin c.drops} \cup c.adds \cup Loaded
  BY DEF Obeyed
<1> HIDE DEF Loaded
<1> QED BY <1>1, <1>2, <1>3

-----------------------------------------------------------------------------
(* What the facts of a setting must be between requests, and between two   *)
(* commands of one.                                                        *)

\* Of a kind, F has the fact with the value v and no other.
Told(F, kind, v) == \A w \in Levels : <<kind, w>> \in F <=> w = v

\* What is in the drop-in can be read from it.
DropInsArePairs(F) == \A f \in F : f[1] = "resolved drop-in" => f = <<f[1], f[2]>>

Agree(K, F) ==
  /\ K = ForwardingKinds => Forwarding(F)
  /\ K = ResolverKinds => Resolution(F) /\ DropInsArePairs(F)
  /\ K = TrackingKinds => Tracking(F)

Midst(q, n, k, v4, v6, F) ==
  /\ n = k + 2 => Told(F, "ip_forward", v4)
  /\ n = k + 3 => Told(F, "ip_forward", v4) /\ Told(F, "ip6_forward", v6)

Stage(K, q, n, F) ==
  /\ K = ForwardingKinds =>
       \A v4, v6 \in Levels, k \in {0, 4} : Forwards(q, k, v4, v6) => Midst(q, n, k, v4, v6, F)
  /\ K = ResolverKinds => DropInsArePairs(F)
  /\ K = TrackingKinds =>
       \A v \in Levels : Tracks(q, v) /\ n = 2 => Told(F, "conntrack_max", v)

LEMMA SameFacts ==
  ASSUME NEW K \in Files, NEW F, NEW G, \A f : f[1] \in K => (f \in G <=> f \in F)
  PROVE  /\ Agree(K, F) => Agree(K, G)
         /\ \A q, n : Stage(K, q, n, F) => Stage(K, q, n, G)
<1>1. ASSUME NEW kind \in K, NEW v PROVE <<kind, v>> \in G <=> <<kind, v>> \in F
  <2>1. <<kind, v>>[1] \in K
    OBVIOUS
  <2> QED BY <2>1
<1>2. \A kind \in K : \A v : Told(F, kind, v) => Told(G, kind, v)
  BY <1>1 DEF Told
<1>3. CASE K = ForwardingKinds
  <2>1. K # ResolverKinds /\ K # TrackingKinds
    <3>1. "ip_forward" \in K /\ "ip_forward" \notin ResolverKinds /\ "ip_forward" \notin TrackingKinds
      BY <1>3 DEF ForwardingKinds, ResolverKinds, TrackingKinds
    <3> QED BY <3>1
  <2>2. /\ \A w : <<"90-dawos.conf", w>> \in G <=> <<"90-dawos.conf", w>> \in F
        /\ \A v : <<"ip_forward", v>> \in G <=> <<"ip_forward", v>> \in F
        /\ \A v : <<"ip6_forward", v>> \in G <=> <<"ip6_forward", v>> \in F
        /\ "ip_forward" \in K /\ "ip6_forward" \in K
    BY <1>1, <1>3 DEF ForwardingKinds
  <2>3. Forwarding(F) => Forwarding(G)
    BY <2>2 DEF Forwarding
  <2>4. \A q, n, k, v4, v6 : Midst(q, n, k, v4, v6, F) => Midst(q, n, k, v4, v6, G)
    BY <1>2, <2>2 DEF Midst
  <2>5. \A q, n : Stage(K, q, n, F) => Stage(K, q, n, G)
    BY <1>3, <2>1, <2>4, Zenon DEF Stage
  <2> QED BY <2>1, <2>3, <2>5 DEF Agree
<1>4. CASE K = ResolverKinds
  <2>1. K # ForwardingKinds /\ K # TrackingKinds
    <3>1. "resolved runs" \in K /\ "resolved runs" \notin ForwardingKinds
            /\ "resolved runs" \notin TrackingKinds
      BY <1>4 DEF ForwardingKinds, ResolverKinds, TrackingKinds
    <3> QED BY <3>1
  <2>2. /\ \A v : <<"resolved drop-in", v>> \in G <=> <<"resolved drop-in", v>> \in F
        /\ \A v : <<"resolved runs", v>> \in G <=> <<"resolved runs", v>> \in F
        /\ \A f : f[1] = "resolved drop-in" => (f \in G <=> f \in F)
    BY <1>1, <1>4 DEF ResolverKinds
  <2>3. Resolution(F) => Resolution(G)
    BY <2>2 DEF Resolution
  <2>4. DropInsArePairs(F) => DropInsArePairs(G)
    BY <2>2 DEF DropInsArePairs
  <2>5. \A q, n : Stage(K, q, n, F) => Stage(K, q, n, G)
    BY <1>4, <2>1, <2>4, Zenon DEF Stage
  <2> QED BY <2>1, <2>3, <2>4, <2>5 DEF Agree
<1>5. CASE K = TrackingKinds
  <2>1. K # ForwardingKinds /\ K # ResolverKinds
    <3>1. "conntrack_max" \in K /\ "conntrack_max" \notin ForwardingKinds
            /\ "conntrack_max" \notin ResolverKinds
      BY <1>5 DEF ForwardingKinds, ResolverKinds, TrackingKinds
    <3> QED BY <3>1
  <2>2. /\ \A v : <<"conntrack_max", v>> \in G <=> <<"conntrack_max", v>> \in F
        /\ \A v : <<"90-conntrack.conf", v>> \in G <=> <<"90-conntrack.conf", v>> \in F
        /\ \A v : <<"91-dawos-conntrack.conf", v>> \in G <=> <<"91-dawos-conntrack.conf", v>> \in F
        /\ "conntrack_max" \in K
    BY <1>1, <1>5 DEF TrackingKinds
  <2>3. Tracking(F) => Tracking(G)
    BY <2>2 DEF Tracking
  <2>4. \A v : Told(F, "conntrack_max", v) => Told(G, "conntrack_max", v)
    BY <1>2, <2>2
  <2>5. \A q, n : Stage(K, q, n, F) => Stage(K, q, n, G)
    BY <1>5, <2>1, <2>4, Zenon DEF Stage
  <2> QED BY <2>1, <2>3, <2>5 DEF Agree
<1> QED BY <1>3, <1>4, <1>5 DEF Files

LEMMA UnbornKeeps ==
  ASSUME NEW c, NEW K \in Files, ~Bears(c, K), NEW F
  PROVE  /\ Agree(K, F) => Agree(K, Obeyed(c, F))
         /\ \A q, n : Stage(K, q, n, F) => Stage(K, q, n, Obeyed(c, F))
<1>1. \A f : f[1] \in K => (f \in Obeyed(c, F) <=> f \in F)
  BY UnbornObeyed
<1> QED BY <1>1, SameFacts

LEMMA AssignObeyed ==
  ASSUME NEW kind, NEW v, NEW F, NEW f
  PROVE  /\ f \in Obeyed(Assign(kind, v), F) <=> (f \in F /\ f[1] # kind) \/ f = <<kind, v>>
         /\ Obeyed(Ignored(Assign(kind, v)), F) = Obeyed(Assign(kind, v), F)
<1>1. /\ Assign(kind, v).clears = {kind} /\ Assign(kind, v).drops = {}
      /\ Assign(kind, v).adds = {<<kind, v>>} /\ Assign(kind, v).loads = {}
  BY DEF Assign, Look
<1>2. /\ Ignored(Assign(kind, v)).clears = {kind} /\ Ignored(Assign(kind, v)).drops = {}
      /\ Ignored(Assign(kind, v)).adds = {<<kind, v>>} /\ Ignored(Assign(kind, v)).loads = {}
  BY DEF Ignored, Assign, Look
<1>3. f \in Obeyed(Assign(kind, v), F) <=> (f \in F /\ f[1] # kind) \/ f = <<kind, v>>
  BY <1>1 DEF Obeyed
<1>4. Obeyed(Ignored(Assign(kind, v)), F) = Obeyed(Assign(kind, v), F)
  BY <1>1, <1>2 DEF Obeyed
<1> QED BY <1>3, <1>4

\* A value of one kind leaves those of every other kind alone.
LEMMA AssignTells ==
  ASSUME NEW kind, NEW v, NEW F
  PROVE  /\ \A w : <<kind, w>> \in Obeyed(Assign(kind, v), F) <=> w = v
         /\ \A other, w : other # kind =>
              (<<other, w>> \in Obeyed(Assign(kind, v), F) <=> <<other, w>> \in F)
         /\ DropInsArePairs(F) => DropInsArePairs(Obeyed(Assign(kind, v), F))
<1> DEFINE G == Obeyed(Assign(kind, v), F)
<1>1. \A f : f \in G <=> (f \in F /\ f[1] # kind) \/ f = <<kind, v>>
  BY AssignObeyed
<1> HIDE DEF G
<1>2. \A w : <<kind, w>> \in G <=> w = v
  <2>1. \A w : <<kind, w>>[1] = kind /\ (<<kind, w>> = <<kind, v>> <=> w = v)
    OBVIOUS
  <2> QED BY <1>1, <2>1
<1>3. \A other, w : other # kind => (<<other, w>> \in G <=> <<other, w>> \in F)
  <2>1. \A other, w : <<other, w>>[1] = other /\ (other # kind => <<other, w>> # <<kind, v>>)
    OBVIOUS
  <2> QED BY <1>1, <2>1
<1>4. DropInsArePairs(F) => DropInsArePairs(G)
  <2>1. <<kind, v>> = <<<<kind, v>>[1], <<kind, v>>[2]>>
    OBVIOUS
  <2> QED BY <1>1, <2>1 DEF DropInsArePairs
<1> QED BY <1>2, <1>3, <1>4 DEF G

\* A value told, and told still after a command about another.
LEMMA AssignTold ==
  ASSUME NEW kind, NEW v, NEW F
  PROVE  /\ Told(Obeyed(Assign(kind, v), F), kind, v)
         /\ \A other, w : other # kind /\ Told(F, other, w) =>
              Told(Obeyed(Assign(kind, v), F), other, w)
<1> DEFINE G == Obeyed(Assign(kind, v), F)
<1>1. /\ \A w : <<kind, w>> \in G <=> w = v
      /\ \A other, w : other # kind => (<<other, w>> \in G <=> <<other, w>> \in F)
  BY AssignTells
<1> HIDE DEF G
<1>2. Told(G, kind, v) /\ \A other, w : other # kind /\ Told(F, other, w) => Told(G, other, w)
  BY <1>1 DEF Told
<1> QED BY <1>2 DEF G

\* The last command of each writer brings its setting into agreement.
LEMMA ForwardingAgrees ==
  ASSUME NEW v4, NEW v6, NEW F, Told(F, "ip_forward", v4), Told(F, "ip6_forward", v6)
  PROVE  Forwarding(Obeyed(Ignored(Assign("90-dawos.conf", <<v4, v6>>)), F))
<1> DEFINE c == Assign("90-dawos.conf", <<v4, v6>>)
           G == Obeyed(c, F)
<1>1. /\ \A w : <<"90-dawos.conf", w>> \in G <=> w = <<v4, v6>>
      /\ \A v : <<"ip_forward", v>> \in G <=> <<"ip_forward", v>> \in F
      /\ \A v : <<"ip6_forward", v>> \in G <=> <<"ip6_forward", v>> \in F
  BY AssignTells
<1>2. Obeyed(Ignored(c), F) = G
  BY AssignObeyed
<1> HIDE DEF c, G
<1>3. \A v, w : <<v, w>> = <<v4, v6>> <=> v = v4 /\ w = v6
  OBVIOUS
<1>4. Forwarding(G)
  BY <1>1, <1>3 DEF Told, Forwarding
<1> QED BY <1>2, <1>4 DEF c

LEMMA TrackingAgrees ==
  ASSUME NEW v, NEW F, Told(F, "conntrack_max", v),
         NEW file \in {"90-conntrack.conf", "91-dawos-conntrack.conf"}
  PROVE  Tracking(Obeyed(Assign(file, v), F))
<1> DEFINE G == Obeyed(Assign(file, v), F)
<1>1. /\ \A w : <<file, w>> \in G <=> w = v
      /\ \A w : <<"conntrack_max", w>> \in G <=> <<"conntrack_max", w>> \in F
  BY AssignTells
<1> HIDE DEF G
<1>2. Tracking(G)
  BY <1>1 DEF Told, Tracking
<1> QED BY <1>2 DEF G

LEMMA ResolutionAgrees ==
  ASSUME NEW F, DropInsArePairs(F)
  PROVE  LET G == Obeyed(ReadDropIn, F) IN Resolution(G) /\ DropInsArePairs(G)
<1> DEFINE r == ReadDropIn
           G == Obeyed(r, F)
           read == {<<"resolved runs", f[2]>> : f \in {g \in F : g[1] = "resolved drop-in"}}
<1>1. /\ r.clears = {"resolved runs"} /\ r.drops = {} /\ r.adds = {<<"up", "resolved">>}
      /\ r.loads = {<<"resolved drop-in", "resolved runs">>}
  BY DEF ReadDropIn, Ignored, Restart, Look
<1>2. \A f : f \in G <=> \/ f \in F /\ f[1] # "resolved runs"
                         \/ f = <<"up", "resolved">>
                         \/ f \in read
  <2> DEFINE load == <<"resolved drop-in", "resolved runs">>
             from(l) == {<<l[2], f[2]>> : f \in {g \in F : g[1] = l[1]}}
  <2>1. from(load) = read
    OBVIOUS
  <2> HIDE DEF from
  <2>2. UNION {from(l) : l \in {load}} = from(load)
    OBVIOUS
  <2>3. G = {f \in F : f[1] \notin {"resolved runs"} /\ f \notin {}} \cup {<<"up", "resolved">>}
              \cup UNION {from(l) : l \in {load}}
    <3> HIDE DEF r
    <3> QED BY <1>1 DEF Obeyed, from
  <2> HIDE DEF load, G, read
  <2> QED BY <2>1, <2>2, <2>3
<1>3. ASSUME NEW f \in read PROVE f[1] = "resolved runs"
  <2>1. PICK g \in F : f = <<"resolved runs", g[2]>>
    BY <1>3
  <2> QED BY <2>1
<1>4. \A w : <<"resolved runs", w>> \in read <=> <<"resolved drop-in", w>> \in F
  <2> SUFFICES ASSUME NEW w
               PROVE  <<"resolved runs", w>> \in read <=> <<"resolved drop-in", w>> \in F
    OBVIOUS
  <2>1. ASSUME <<"resolved runs", w>> \in read PROVE <<"resolved drop-in", w>> \in F
    <3>1. PICK f \in F : f[1] = "resolved drop-in" /\ <<"resolved runs", w>> = <<"resolved runs", f[2]>>
      BY <2>1
    <3>2. f[2] = w /\ f = <<f[1], f[2]>>
      BY <3>1 DEF DropInsArePairs
    <3> QED BY <3>1, <3>2
  <2>2. ASSUME <<"resolved drop-in", w>> \in F PROVE <<"resolved runs", w>> \in read
    <3>1. <<"resolved drop-in", w>>[1] = "resolved drop-in" /\ <<"resolved drop-in", w>>[2] = w
      OBVIOUS
    <3> QED BY <2>2, <3>1
  <2> QED BY <2>1, <2>2
<1> HIDE DEF r, G, read
<1>5. /\ \A kind, w : kind \notin {"resolved runs", "up"} =>
           (<<kind, w>> \in G <=> <<kind, w>> \in F)
      /\ \A w : <<"resolved runs", w>> \in G <=> <<"resolved runs", w>> \in read
  <2>1. \A kind, w : <<kind, w>>[1] = kind /\ (kind # "up" => <<kind, w>> # <<"up", "resolved">>)
    OBVIOUS
  <2> QED BY <1>2, <1>3, <2>1
<1>6. Resolution(G)
  BY <1>4, <1>5 DEF Resolution
<1>7. DropInsArePairs(G)
  <2>1. <<"up", "resolved">>[1] # "resolved drop-in"
    OBVIOUS
  <2> QED BY <1>2, <1>3, <2>1 DEF DropInsArePairs
<1> QED BY <1>6, <1>7 DEF G, r

\* Whether F is what the n-th command of q finds of a setting it bears on.
InMidst(K, q, n) == n > 1 /\ Bears(q.does[n - 1], K)
Fits(K, q, n, F) ==
  /\ InMidst(K, q, n) => Stage(K, q, n, F)
  /\ ~InMidst(K, q, n) => Agree(K, F)
Leaves(K, q, n, F) ==
  /\ n < Len(q.does) /\ Bears(q.does[n + 1], K) => Stage(K, q, n + 1, F)
  /\ ~(n < Len(q.does) /\ Bears(q.does[n + 1], K)) => Agree(K, F)

LEMMA KindsOfFiles ==
  /\ ForwardingKinds # ResolverKinds /\ ForwardingKinds # TrackingKinds
  /\ ResolverKinds # TrackingKinds
<1>1. /\ "ip_forward" \in ForwardingKinds /\ "ip_forward" \notin ResolverKinds
      /\ "ip_forward" \notin TrackingKinds
      /\ "resolved runs" \in ResolverKinds /\ "resolved runs" \notin TrackingKinds
  BY DEF ForwardingKinds, ResolverKinds, TrackingKinds
<1> QED BY <1>1

LEMMA GoodIsNext ==
  /\ Look.good = "next"
  /\ \A kind, v : Assign(kind, v).good = "next" /\ Ignored(Assign(kind, v)).good = "next"
  /\ \A daemon, file, runs : Ignored(Restart(daemon, file, runs)).good = "next"
BY DEF Look, Assign, Ignored, Restart

\* What the commands of each shape bear on.
LEMMA ForwardsBear ==
  ASSUME NEW q, NEW v4, NEW v6, NEW k \in {0, 4}, Forwards(q, k, v4, v6), NEW K \in Files
  PROVE  /\ \A n \in 1..k : ~Bears(q.does[n], K)
         /\ \A n \in {k + 1, k + 2, k + 3} :
              q.does[n].good = "next" /\ (Bears(q.does[n], K) <=> K = ForwardingKinds)
<1>1. \A n \in 1..k : ~Bears(q.does[n], K)
  BY QuietBears DEF Forwards
<1>2. /\ "ip_forward" \in K <=> K = ForwardingKinds
      /\ "ip6_forward" \in K <=> K = ForwardingKinds
      /\ "90-dawos.conf" \in K <=> K = ForwardingKinds
  BY DEF Files, ForwardingKinds, ResolverKinds, TrackingKinds
<1>3. /\ Bears(q.does[k + 1], K) <=> K = ForwardingKinds
      /\ Bears(q.does[k + 2], K) <=> K = ForwardingKinds
      /\ Bears(q.does[k + 3], K) <=> K = ForwardingKinds
  <2>1. /\ Bears(Assign("ip_forward", v4), K) <=> K = ForwardingKinds
        /\ Bears(Assign("ip6_forward", v6), K) <=> K = ForwardingKinds
        /\ Bears(Ignored(Assign("90-dawos.conf", <<v4, v6>>)), K) <=> K = ForwardingKinds
    BY <1>2, AssignBears
  <2> QED BY <2>1 DEF Forwards
<1>4. /\ q.does[k + 1].good = "next" /\ q.does[k + 2].good = "next" /\ q.does[k + 3].good = "next"
  BY GoodIsNext, Zenon DEF Forwards
<1> QED BY <1>1, <1>3, <1>4

LEMMA ResolvesBear ==
  ASSUME NEW q, NEW v, Resolves(q, v), NEW K \in Files
  PROVE  /\ ~Bears(q.does[1], K)
         /\ \A n \in {2, 3} :
              q.does[n].good = "next" /\ (Bears(q.does[n], K) <=> K = ResolverKinds)
<1>1. ~Bears(q.does[1], K)
  BY QuietBears, QuietCommands DEF Resolves
<1>2. "resolved drop-in" \in K <=> K = ResolverKinds
  BY DEF Files, ForwardingKinds, ResolverKinds, TrackingKinds
<1>3. Bears(q.does[2], K) <=> K = ResolverKinds
  BY <1>2, AssignBears, Zenon DEF Resolves
<1>4. Bears(q.does[3], K) <=> K = ResolverKinds
  <2>1. q.does[3] = ReadDropIn
    BY DEF Resolves, ReadDropIn
  <2> QED BY <2>1, RestartBears, KindsOfFiles, Zenon DEF Files
<1>5. q.does[2].good = "next" /\ q.does[3].good = "next"
  BY GoodIsNext, Zenon DEF Resolves
<1> QED BY <1>1, <1>3, <1>4, <1>5

LEMMA TracksBear ==
  ASSUME NEW q, NEW v, Tracks(q, v), NEW K \in Files
  PROVE  /\ ~Bears(q.does[3], K)
         /\ \A n \in {1, 2} :
              q.does[n].good = "next" /\ (Bears(q.does[n], K) <=> K = TrackingKinds)
<1>1. ~Bears(q.does[3], K)
  <2>1. Quiet(Ignored(Look))
    BY QuietCommands, QuietWays
  <2> QED BY <2>1, QuietBears DEF Tracks
<1>2. /\ "conntrack_max" \in K <=> K = TrackingKinds
      /\ "90-conntrack.conf" \in K <=> K = TrackingKinds
      /\ "91-dawos-conntrack.conf" \in K <=> K = TrackingKinds
  BY DEF Files, ForwardingKinds, ResolverKinds, TrackingKinds
<1>3. /\ Bears(q.does[1], K) <=> K = TrackingKinds
      /\ Bears(q.does[2], K) <=> K = TrackingKinds
  <2>1. /\ Bears(Assign("conntrack_max", v), K) <=> K = TrackingKinds
        /\ Bears(Ignored(Assign("conntrack_max", v)), K) <=> K = TrackingKinds
        /\ Bears(Assign("91-dawos-conntrack.conf", v), K) <=> K = TrackingKinds
        /\ Bears(Ignored(Assign("90-conntrack.conf", v)), K) <=> K = TrackingKinds
    BY <1>2, AssignBears
  <2> QED BY <2>1 DEF Tracks
<1>4. q.does[1].good = "next" /\ q.does[2].good = "next"
  BY GoodIsNext, Zenon DEF Tracks
<1> QED BY <1>1, <1>3, <1>4

LEMMA ForwardsStep ==
  ASSUME NEW q, NEW n \in Nat \ {0}, NEW F, Bears(q.does[n], ForwardingKinds),
         NEW v4 \in Levels, NEW v6 \in Levels, NEW k \in {0, 4}, Forwards(q, k, v4, v6), n <= k + 3,
         Fits(ForwardingKinds, q, n, F)
  PROVE  q.does[n].good = "next" /\ Leaves(ForwardingKinds, q, n, Obeyed(q.does[n], F))
<1> DEFINE K == ForwardingKinds
           G == Obeyed(q.does[n], F)
<1>0. K \in Files /\ K # ResolverKinds /\ K # TrackingKinds
  BY KindsOfFiles DEF Files
<1>1. n \in {k + 1, k + 2, k + 3} /\ Len(q.does) = k + 3
  <2>1. ~(n \in 1..k)
    BY <1>0, ForwardsBear
  <2> QED BY <2>1 DEF Forwards
<1>2. /\ q.does[n].good = "next"
      /\ Bears(q.does[k + 1], K) /\ Bears(q.does[k + 2], K) /\ Bears(q.does[k + 3], K)
  BY <1>0, <1>1, ForwardsBear
<1>3. CASE n = k + 3
  <2>1. InMidst(K, q, n)
    <3>1. n > 1 /\ n - 1 = k + 2
      BY <1>3
    <3> QED BY <1>2, <3>1 DEF InMidst
  <2>2. Midst(q, n, k, v4, v6, F)
    BY <2>1 DEF Fits, Stage
  <2>3. Forwarding(G)
    BY <1>3, <2>2, ForwardingAgrees DEF Midst, Forwards
  <2>4. Agree(K, G)
    BY <1>0, <2>3 DEF Agree
  <2>5. ~(n < Len(q.does))
    BY <1>1, <1>3
  <2> QED BY <1>2, <2>4, <2>5 DEF Leaves
<1>4. CASE n \in {k + 1, k + 2}
  <2>1. n < Len(q.does) /\ Bears(q.does[n + 1], K)
    <3>1. n + 1 = k + 2 \/ n + 1 = k + 3
      BY <1>4
    <3> QED BY <1>1, <1>2, <1>4, <3>1
  <2>2. ASSUME NEW w4 \in Levels, NEW w6 \in Levels, NEW m \in {0, 4}, Forwards(q, m, w4, w6)
        PROVE  Midst(q, n + 1, m, w4, w6, G)
    <3>1. m = k
      BY <2>2 DEF Forwards
    <3>2. CASE n = k + 1
      <4>1. Told(G, "ip_forward", w4)
        BY <2>2, <3>1, <3>2, AssignTold DEF Forwards
      <4>2. n + 1 = m + 2 /\ n + 1 # m + 3
        BY <3>1, <3>2
      <4> QED BY <4>1, <4>2 DEF Midst
    <3>3. CASE n = k + 2
      <4>1. InMidst(K, q, n)
        <5>1. n > 1 /\ n - 1 = k + 1
          BY <3>3
        <5> QED BY <1>2, <5>1 DEF InMidst
      <4>2. Midst(q, n, m, w4, w6, F)
        BY <2>2, <4>1 DEF Fits, Stage
      <4>3. Told(F, "ip_forward", w4)
        BY <3>1, <3>3, <4>2 DEF Midst
      <4>4. Told(G, "ip_forward", w4) /\ Told(G, "ip6_forward", w6)
        BY <2>2, <3>1, <3>3, <4>3, AssignTold DEF Forwards
      <4> QED BY <4>4 DEF Midst
    <3> QED BY <1>4, <3>2, <3>3
  <2>3. Stage(K, q, n + 1, G)
    BY <1>0, <2>2 DEF Stage
  <2> QED BY <1>2, <2>1, <2>3 DEF Leaves
<1> QED BY <1>1, <1>3, <1>4

LEMMA ResolvesStep ==
  ASSUME NEW q, NEW n \in Nat \ {0}, NEW F, Bears(q.does[n], ResolverKinds),
         NEW v \in Levels, Resolves(q, v), n <= 3, Fits(ResolverKinds, q, n, F)
  PROVE  q.does[n].good = "next" /\ Leaves(ResolverKinds, q, n, Obeyed(q.does[n], F))
<1> DEFINE K == ResolverKinds
           G == Obeyed(q.does[n], F)
<1>0. K \in Files /\ K # ForwardingKinds /\ K # TrackingKinds
  BY KindsOfFiles DEF Files
<1>1. n \in {2, 3} /\ Len(q.does) = 3
  <2>1. n # 1
    BY <1>0, ResolvesBear
  <2>2. n \in {2, 3}
    BY <2>1
  <2>3. Len(q.does) = 3
    BY DEF Resolves
  <2> QED BY <2>2, <2>3
<1>2. q.does[n].good = "next" /\ Bears(q.does[2], K) /\ Bears(q.does[3], K)
  BY <1>0, <1>1, ResolvesBear
<1>3. DropInsArePairs(F)
  BY DEF Fits, Stage, Agree
<1>4. CASE n = 3
  <2>1. q.does[n] = ReadDropIn
    BY <1>4 DEF Resolves, ReadDropIn
  <2>2. Resolution(G) /\ DropInsArePairs(G)
    BY <1>3, <2>1, ResolutionAgrees
  <2>3. Agree(K, G)
    BY <1>0, <2>2 DEF Agree
  <2>4. ~(n < Len(q.does))
    BY <1>1, <1>4
  <2> QED BY <1>2, <2>3, <2>4 DEF Leaves
<1>5. CASE n = 2
  <2>1. DropInsArePairs(G)
    BY <1>3, <1>5, AssignTells DEF Resolves
  <2>2. Stage(K, q, n + 1, G)
    BY <1>0, <2>1 DEF Stage
  <2>3. n < Len(q.does) /\ Bears(q.does[n + 1], K)
    BY <1>1, <1>2, <1>5
  <2> QED BY <1>2, <2>2, <2>3 DEF Leaves
<1> QED BY <1>1, <1>4, <1>5

LEMMA TracksStep ==
  ASSUME NEW q, NEW n \in Nat \ {0}, NEW F, Bears(q.does[n], TrackingKinds),
         NEW v \in Levels, Tracks(q, v), n <= 3, Fits(TrackingKinds, q, n, F)
  PROVE  q.does[n].good = "next" /\ Leaves(TrackingKinds, q, n, Obeyed(q.does[n], F))
<1> DEFINE K == TrackingKinds
           G == Obeyed(q.does[n], F)
<1>0. K \in Files /\ K # ForwardingKinds /\ K # ResolverKinds
  BY KindsOfFiles DEF Files
<1>1. n \in {1, 2} /\ Len(q.does) = 3
  <2>1. n # 3
    BY <1>0, TracksBear
  <2> QED BY <2>1 DEF Tracks
<1>2. q.does[n].good = "next" /\ Bears(q.does[1], K) /\ Bears(q.does[2], K) /\ ~Bears(q.does[3], K)
  BY <1>0, <1>1, TracksBear
<1>3. CASE n = 2
  <2>1. InMidst(K, q, n)
    BY <1>2, <1>3 DEF InMidst
  <2>2. Told(F, "conntrack_max", v)
    BY <1>3, <2>1 DEF Fits, Stage
  <2>3. \E file \in {"90-conntrack.conf", "91-dawos-conntrack.conf"} : G = Obeyed(Assign(file, v), F)
    BY <1>3, AssignObeyed DEF Tracks
  <2>4. Tracking(G)
    BY <2>2, <2>3, TrackingAgrees
  <2>5. Agree(K, G)
    BY <1>0, <2>4 DEF Agree
  <2>6. ~(n < Len(q.does) /\ Bears(q.does[n + 1], K))
    BY <1>2, <1>3
  <2> QED BY <1>2, <2>5, <2>6 DEF Leaves
<1>4. CASE n = 1
  <2>1. ASSUME NEW w \in Levels, Tracks(q, w) PROVE Told(G, "conntrack_max", w)
    <3>1. G = Obeyed(Assign("conntrack_max", w), F)
      BY <1>4, <2>1, AssignObeyed DEF Tracks
    <3> QED BY <3>1, AssignTold
  <2>2. Stage(K, q, n + 1, G)
    BY <1>0, <2>1 DEF Stage
  <2>3. n < Len(q.does) /\ Bears(q.does[n + 1], K)
    BY <1>1, <1>2, <1>4
  <2> QED BY <1>2, <2>2, <2>3 DEF Leaves
<1> QED BY <1>1, <1>3, <1>4

\* A command that bears on a setting, finding of it what it should, leaves
\* of it what the next command should find.
LEMMA BearingStep ==
  ASSUME NEW q \in HostRequests, NEW n \in 1..Len(q.does), Len(q.does) \in Nat,
         NEW K \in Files, Bears(q.does[n], K), n \in DOMAIN q.does,
         NEW F, Fits(K, q, n, F)
  PROVE  q.does[n].good = "next" /\ Leaves(K, q, n, Obeyed(q.does[n], F))
<1>0. n \in Nat \ {0} /\ n <= Len(q.does)
  OBVIOUS
<1>1. IsWriter(q)
  <2>1. SUFFICES ASSUME ~IsWriter(q) PROVE FALSE
    OBVIOUS
  <2>2. Quietly(q.does)
    BY <2>1, OnlyWriters
  <2>3. Quiet(q.does[n])
    BY <2>2 DEF Quietly
  <2> QED BY <2>3, QuietBears
<1>2. ASSUME NEW v4 \in Levels, NEW v6 \in Levels, NEW k \in {0, 4}, Forwards(q, k, v4, v6)
      PROVE  q.does[n].good = "next" /\ Leaves(K, q, n, Obeyed(q.does[n], F))
  <2>1. n <= k + 3
    BY <1>0, <1>2 DEF Forwards
  <2>2. n \in 1..k \/ n \in {k + 1, k + 2, k + 3}
    BY <1>0, <2>1
  <2>3. K = ForwardingKinds
    BY <1>2, <2>2, ForwardsBear
  <2> QED BY <1>0, <1>2, <2>1, <2>3, ForwardsStep
<1>3. ASSUME NEW v \in Levels, Resolves(q, v)
      PROVE  q.does[n].good = "next" /\ Leaves(K, q, n, Obeyed(q.does[n], F))
  <2>1. n <= 3
    BY <1>0, <1>3 DEF Resolves
  <2>2. n = 1 \/ n \in {2, 3}
    BY <1>0, <2>1
  <2>3. K = ResolverKinds
    BY <1>3, <2>2, ResolvesBear
  <2> QED BY <1>0, <1>3, <2>1, <2>3, ResolvesStep
<1>4. ASSUME NEW v \in Levels, Tracks(q, v)
      PROVE  q.does[n].good = "next" /\ Leaves(K, q, n, Obeyed(q.does[n], F))
  <2>1. n <= 3
    BY <1>0, <1>4 DEF Tracks
  <2>2. n = 3 \/ n \in {1, 2}
    BY <1>0, <2>1
  <2>3. K = TrackingKinds
    BY <1>4, <2>2, TracksBear
  <2> QED BY <1>0, <1>4, <2>1, <2>3, TracksStep
<1> QED BY <1>1, <1>2, <1>3, <1>4, WriterShapes, Zenon

\* A chain that bears on a setting has no command that skips.
LEMMA WritersPlain ==
  ASSUME NEW q, IsWriter(q), NEW n \in 1..Len(q.does), Len(q.does) \in Nat
  PROVE  Plain(q.does[n])
<1>1. /\ Plain(Look) /\ Plain(Ignored(Look))
      /\ Plain(Ignored(Restart("resolved", "resolved drop-in", "resolved runs")))
  BY DEF Plain, Look, Ignored, Restart
<1>2. \A kind, v : Plain(Assign(kind, v)) /\ Plain(Ignored(Assign(kind, v)))
  BY DEF Plain, Look, Ignored, Assign
<1>3. ASSUME NEW v4, NEW v6, NEW k \in {0, 4}, Forwards(q, k, v4, v6) PROVE Plain(q.does[n])
  <2>1. n \in 1..k \/ n = k + 1 \/ n = k + 2 \/ n = k + 3
    BY <1>3 DEF Forwards
  <2> QED BY <1>2, <1>3, <2>1 DEF Forwards
<1>4. ASSUME NEW v, Resolves(q, v) PROVE Plain(q.does[n])
  <2>0. Len(q.does) = 3
    BY <1>4 DEF Resolves
  <2>1. n = 1 \/ n = 2 \/ n = 3
    BY <2>0
  <2> QED BY <1>1, <1>2, <1>4, <2>1, Zenon DEF Resolves
<1>5. ASSUME NEW v, Tracks(q, v) PROVE Plain(q.does[n])
  <2>1. n = 1 \/ n = 2 \/ n = 3
    BY <1>5 DEF Tracks
  <2> QED BY <1>1, <1>2, <1>5, <2>1, Zenon DEF Tracks
<1> QED BY <1>3, <1>4, <1>5, WriterShapes, Zenon

\* A command whose exit code is as hoped for leads to the next, or to the
\* answer.
LEMMA GoesOnNext ==
  ASSUME TypeOK, NEW h \in Handlers, Running(h), GoesOn(h, "next"), asks' = asks
  PROVE  \/ /\ at[h] < Len(asks[h].does) /\ at'[h] = at[h] + 1 /\ Running(h)'
         \/ /\ at[h] = Len(asks[h].does) /\ ~Running(h)'
<1>1. at[h] \in Nat /\ asks[h] \in Requests /\ at[h] \in 1..Len(asks[h].does)
  BY DEF TypeOK
<1>2. Len(asks[h].does) \in Nat
  BY <1>1, ChainLength
<1> QED BY <1>1, <1>2 DEF TypeOK, GoesOn, Running, Begun

-----------------------------------------------------------------------------
(* The settings, while requests come and go.                               *)

Steady(K) ==
  /\ \A g, h \in Handlers : Midway(g, K) /\ Midway(h, K) => g = h
  /\ \A h \in Handlers : Midway(h, K) => Stage(K, asks[h], at[h], host)
  /\ (\A h \in Handlers : ~Midway(h, K)) => Agree(K, host)

\* What a setting is while no command of it has failed, been cut short, or
\* come between two of another request: in agreement, but for the one
\* request that is between two commands of it.
FilesIInv == TypeOK /\ \A K \in calm : Steady(K)

LEMMA CalmFiles == ASSUME TypeOK, NEW K \in calm PROVE K \in Files
BY SettingsAssumption DEF TypeOK, Files

LEMMA StaysSteady ==
  ASSUME NEW K \in Files, Steady(K), asks' = asks,
         Agree(K, host) => Agree(K, host'),
         \A q, n : Stage(K, q, n, host) => Stage(K, q, n, host'),
         \A o \in Handlers : Midway(o, K)' <=> Midway(o, K),
         \A o \in Handlers : Midway(o, K) => at'[o] = at[o]
  PROVE  Steady(K)'
<1>1. ASSUME NEW o \in Handlers, Midway(o, K)' PROVE Stage(K, asks'[o], at'[o], host')
  <2>1. Stage(K, asks[o], at[o], host) /\ at'[o] = at[o]
    BY <1>1 DEF Steady
  <2> QED BY <2>1
<1>2. (\A h \in Handlers : ~Midway(h, K)') => Agree(K, host')
  BY DEF Steady
<1>3. \A g, h \in Handlers : Midway(g, K)' /\ Midway(h, K)' => g = h
  BY DEF Steady
<1> QED BY <1>1, <1>2, <1>3, Zenon DEF Steady

LEMMA SameMidway ==
  ASSUME NEW o \in Handlers, asks' = asks, at'[o] = at[o], answer'[o] = answer[o], NEW K
  PROVE  Midway(o, K)' <=> Midway(o, K)
BY DEF Midway, Running, Begun, Command

LEMMA FilesArrive ==
  ASSUME TypeOK, NEW h \in Handlers, Arrives(h), NEW K \in calm, Steady(K)
  PROVE  Steady(K)'
<1>1. K \in Files
  BY CalmFiles
<1>2. /\ host' = host /\ asks' = asks /\ ~Running(h) /\ at'[h] = 1
      /\ \A o \in Handlers \ {h} : at'[o] = at[o] /\ answer'[o] = answer[o]
  BY DEF Arrives, TypeOK, Running
<1>3. ~Midway(h, K) /\ ~Midway(h, K)'
  BY <1>2 DEF Midway
<1>4. \A o \in Handlers : Midway(o, K)' <=> Midway(o, K)
  BY <1>2, <1>3, SameMidway
<1>5. \A o \in Handlers : Midway(o, K) => at'[o] = at[o]
  BY <1>2, <1>3
<1> QED BY <1>1, <1>2, <1>4, <1>5, StaysSteady

\* A command that does not bear on the setting.
LEMMA FilesSpared ==
  ASSUME TypeOK, TypeOK', NEW h \in Handlers, NEW ok \in BOOLEAN, NEW effect \in BOOLEAN,
         Ends(h, ok, effect), NEW K \in calm, Steady(K), ~Bears(Command(h), K)
  PROVE  Steady(K)'
<1> DEFINE s == asks[h].does
           n == at[h]
           c == s[n]
<1>1. /\ Running(h) /\ asks' = asks /\ GoesOn(h, Verdict(c, ok))
      /\ host' = IF effect THEN Obeyed(c, host) ELSE host
  BY Zenon DEF Ends, Command
<1>2. /\ asks[h] \in Requests /\ asks[h] \in HostRequests /\ n \in Nat /\ n \in 1..Len(s)
      /\ Len(s) \in Nat /\ DOMAIN s = 1..Len(s) /\ ~Bears(c, K) /\ K \in Files
  BY <1>1, RequestsAssumption, ChainLength, CalmFiles DEF TypeOK, Command
<1>3. \A o \in Handlers \ {h} : at'[o] = at[o] /\ answer'[o] = answer[o]
  BY <1>1, GoesOnTypes
<1> HIDE DEF c
<1>4. ~Midway(h, K)
  BY <1>2 DEF Midway, Command, c
<1>5. ~Midway(h, K)'
  <2>1. CASE \A m \in DOMAIN s : ~Bears(s[m], K)
    <3>1. SUFFICES ASSUME Running(h)' PROVE ~Bears(s[at'[h]], K)
      BY <1>1 DEF Midway, Command
    <3>2. at'[h] \in DOMAIN s
      BY <1>1, <1>2, <3>1 DEF TypeOK
    <3> QED BY <2>1, <3>2
  <2>2. CASE IsWriter(asks[h])
    <3>1. Plain(c)
      BY <1>2, <2>2, WritersPlain DEF c
    <3>2. Verdict(c, ok) \in {"next", "raises", "reports"}
      BY <3>1 DEF Plain, Verdict
    <3>3. CASE Verdict(c, ok) = "next"
      <4>1. at'[h] = n + 1 \/ ~Running(h)'
        BY <1>1, <3>3, GoesOnNext
      <4>2. at'[h] = n + 1 => at'[h] - 1 = n
        BY <1>2
      <4> QED BY <1>1, <1>2, <4>1, <4>2 DEF Midway, c
    <3>4. CASE Verdict(c, ok) \in {"raises", "reports"}
      <4>1. ~Running(h)'
        BY <1>1, <3>4 DEF GoesOn, Running, TypeOK
      <4> QED BY <4>1 DEF Midway
    <3> QED BY <3>2, <3>3, <3>4
  <2>3. IsWriter(asks[h]) \/ \A m \in DOMAIN s : ~Bears(s[m], K)
    <3>1. SUFFICES ASSUME ~IsWriter(asks[h]), NEW m \in DOMAIN s PROVE ~Bears(s[m], K)
      OBVIOUS
    <3>2. Quietly(s)
      BY <1>2, <3>1, OnlyWriters
    <3>3. Quiet(s[m])
      BY <3>1, <3>2 DEF Quietly
    <3> QED BY <1>2, <3>3, QuietBears
  <2> QED BY <2>1, <2>2, <2>3
<1>6. \A o \in Handlers : Midway(o, K)' <=> Midway(o, K)
  BY <1>1, <1>3, <1>4, <1>5, SameMidway
<1>7. \A o \in Handlers : Midway(o, K) => at'[o] = at[o]
  BY <1>3, <1>4
<1>8. /\ Agree(K, host) => Agree(K, host')
      /\ \A q, m : Stage(K, q, m, host) => Stage(K, q, m, host')
  BY <1>1, <1>2, UnbornKeeps
<1> QED BY <1>1, <1>2, <1>6, <1>7, <1>8, StaysSteady

\* A command that does, and succeeds, with no other request in between.
LEMMA FilesBorn ==
  ASSUME TypeOK, TypeOK', NEW h \in Handlers, Ends(h, TRUE, TRUE), NEW K \in calm, Steady(K),
         Bears(Command(h), K), \A o \in Handlers \ {h} : ~Midway(o, K)
  PROVE  Steady(K)'
<1> DEFINE q == asks[h]
           s == q.does
           n == at[h]
           c == s[n]
<1>1. /\ Running(h) /\ asks' = asks /\ GoesOn(h, c.good) /\ host' = Obeyed(c, host)
  BY Zenon DEF Ends, Command, Verdict
<1>2. /\ q \in Requests /\ q \in HostRequests /\ n \in Nat /\ n \in 1..Len(s)
      /\ Len(s) \in Nat /\ DOMAIN s = 1..Len(s) /\ Bears(c, K) /\ K \in Files
  BY <1>1, RequestsAssumption, ChainLength, CalmFiles DEF TypeOK, Command
<1>3. \A o \in Handlers \ {h} : at'[o] = at[o] /\ answer'[o] = answer[o]
  BY <1>1, GoesOnTypes
<1>4. Midway(h, K) <=> InMidst(K, q, n)
  BY <1>1, <1>2 DEF Midway, InMidst, Command
<1>5. Fits(K, q, n, host)
  BY <1>4, Zenon DEF Fits, Steady
<1>6. c.good = "next" /\ Leaves(K, q, n, host')
  BY <1>1, <1>2, <1>5, BearingStep
<1>7. \/ /\ n < Len(s) /\ at'[h] = n + 1 /\ Running(h)'
      \/ /\ n = Len(s) /\ ~Running(h)'
  BY <1>1, <1>6, GoesOnNext
<1>8. \A o \in Handlers \ {h} : ~Midway(o, K)'
  BY <1>1, <1>3, SameMidway
<1> HIDE DEF c
<1>9. CASE n < Len(s) /\ at'[h] = n + 1 /\ Running(h)'
  <2>1. at'[h] > 1 /\ at'[h] - 1 = n
    BY <1>2, <1>9
  <2>2. Midway(h, K)' <=> Bears(s[n + 1], K)
    BY <1>1, <1>2, <1>9, <2>1 DEF Midway, Command, c
  <2> HIDE DEF s, q, n
  <2>3. Midway(h, K)' => Stage(K, asks'[h], at'[h], host')
    BY <1>1, <1>6, <1>9, <2>2 DEF Leaves, s, q
  <2>4. ~Midway(h, K)' => Agree(K, host')
    BY <1>6, <1>9, <2>2 DEF Leaves, s
  <2> QED BY <1>8, <2>3, <2>4, Zenon DEF Steady
<1>10. CASE n = Len(s) /\ ~Running(h)'
  <2>1. ~Midway(h, K)'
    BY <1>10 DEF Midway
  <2>2. ~(n < Len(s))
    BY <1>2, <1>10
  <2>3. Agree(K, host')
    BY <1>6, <2>2 DEF Leaves
  <2> QED BY <1>8, <2>1, <2>3, Zenon DEF Steady
<1> QED BY <1>7, <1>9, <1>10

LEMMA FilesCrash ==
  ASSUME TypeOK, Crash, NEW K \in calm', Steady(K)
  PROVE  Steady(K)'
<1>1. K \in calm /\ \A h \in Handlers : Running(h) => ~Midway(h, K) /\ ~Bears(Command(h), K)
  BY DEF Crash
<1>2. \A h \in Handlers : ~Midway(h, K)
  BY <1>1 DEF Midway
<1>3. Agree(K, host) /\ K \in Files
  BY <1>1, <1>2, CalmFiles DEF Steady
<1>4. host' = host \/ \E h \in Handlers : Running(h) /\ host' = Obeyed(Command(h), host)
  BY DEF Crash
<1>5. Agree(K, host')
  BY <1>1, <1>3, <1>4, UnbornKeeps
<1>6. \A h \in Handlers : ~Midway(h, K)'
  <2>1. \A h \in Handlers : ~Running(h)'
    BY DEF TypeOK, Crash, Running, Begun
  <2> QED BY <2>1 DEF Midway
<1> QED BY <1>5, <1>6, Zenon DEF Steady

LEMMA FilesHost ==
  ASSUME TypeOK, HostMoves, NEW K \in calm, Steady(K)
  PROVE  Steady(K)'
<1>1. PICK c \in Spontaneous : host' = Obeyed(c, host)
  BY Zenon DEF HostMoves
<1>2. asks' = asks /\ at' = at /\ answer' = answer
  BY DEF HostMoves
<1>3. Quiet(c) /\ K \in Files
  BY QuietAccel, RequestsAssumption, CalmFiles
<1>4. ~Bears(c, K)
  BY <1>3, QuietBears
<1>5. \A o \in Handlers : (Midway(o, K)' <=> Midway(o, K)) /\ at'[o] = at[o]
  BY <1>2, SameMidway
<1>6. /\ Agree(K, host) => Agree(K, host')
      /\ \A q, m : Stage(K, q, m, host) => Stage(K, q, m, host')
  BY <1>1, <1>3, <1>4, UnbornKeeps
<1> QED BY <1>2, <1>3, <1>5, <1>6, StaysSteady

LEMMA FilesInit == Init => FilesIInv
<1> SUFFICES ASSUME Init PROVE FilesIInv
  OBVIOUS
<1>1. TypeOK /\ \A h \in Handlers : ~Running(h)
  BY DEF Init, TypeOK, Running, Begun
<1>2. Forwarding(host) /\ Resolution(host) /\ Tracking(host) /\ DropInsArePairs(host)
  BY HostsAssumption DEF Init, DropInsArePairs
<1>3. \A K : Agree(K, host)
  BY <1>2 DEF Agree
<1>4. \A K : \A h \in Handlers : ~Midway(h, K)
  BY <1>1 DEF Midway
<1> QED BY <1>1, <1>3, <1>4 DEF FilesIInv, Steady

LEMMA FilesStep ==
  ASSUME FilesIInv, TypeOK', [Next]_vars, NEW K \in calm'
  PROVE  Steady(K)'
<1>0. TypeOK /\ \A k \in calm : Steady(k)
  BY DEF FilesIInv
<1>1. ASSUME NEW h \in Handlers, Arrives(h) PROVE Steady(K)'
  <2>1. K \in calm
    BY <1>1 DEF Arrives
  <2> QED BY <1>0, <1>1, <2>1, FilesArrive
<1>2. ASSUME NEW h \in Handlers, NEW ok \in BOOLEAN, NEW effect \in BOOLEAN,
             Ends(h, ok, effect), ok => effect
      PROVE  Steady(K)'
  <2>1. /\ K \in calm
        /\ Bears(Command(h), K) => ok /\ \A o \in Handlers \ {h} : ~Midway(o, K)
    BY <1>2 DEF Ends
  <2>2. CASE Bears(Command(h), K)
    <3>1. ok = TRUE /\ effect = TRUE
      BY <1>2, <2>1, <2>2
    <3>2. Ends(h, TRUE, TRUE)
      BY <1>2, <3>1
    <3> QED BY <1>0, <2>1, <2>2, <3>2, FilesBorn
  <2>3. CASE ~Bears(Command(h), K)
    BY <1>0, <1>2, <2>1, <2>3, FilesSpared
  <2> QED BY <2>2, <2>3
<1>3. CASE Crash
  <2>1. K \in calm
    BY <1>3 DEF Crash
  <2> QED BY <1>0, <1>3, <2>1, FilesCrash
<1>4. CASE HostMoves
  <2>1. K \in calm
    BY <1>4 DEF HostMoves
  <2> QED BY <1>0, <1>4, <2>1, FilesHost
<1>5. CASE UNCHANGED vars
  <2>1. host' = host /\ asks' = asks /\ at' = at /\ answer' = answer /\ K \in calm
    BY <1>5 DEF vars
  <2>2. \A o \in Handlers : Midway(o, K)' <=> Midway(o, K)
    BY <2>1, SameMidway
  <2>3. K \in Files /\ Steady(K)
    BY <1>0, <2>1, CalmFiles
  <2> QED BY <2>1, <2>2, <2>3, StaysSteady
<1>6. CASE Next
  BY <1>1, <1>2, <1>3, <1>4, <1>6, Steps, Zenon
<1> QED BY <1>5, <1>6

\* Whatever is asked for, fails, overlaps or is cut short: of each setting of
\* which no command failed, was cut short, or came between two of another
\* request, the file says what runs whenever no request is between two
\* commands of it.  Of the two files with the size of the table, one does.
THEOREM FilesTellWhatRuns == Spec => []FilesFollow
<1>1. FilesIInv => FilesFollow
  <2> SUFFICES ASSUME FilesIInv, NEW K, Settled(K) PROVE Agree(K, host)
    BY Zenon DEF Agree, FilesFollow
  <2>1. K \in calm /\ \A h \in Handlers : ~Midway(h, K)
    BY DEF Settled
  <2> QED BY <2>1, Zenon DEF FilesIInv, Steady
<1>2. FilesIInv /\ TypeOK' /\ [Next]_vars => FilesIInv'
  BY FilesStep, Zenon DEF FilesIInv
<1> QED BY <1>1, <1>2, FilesInit, TypeCorrect, PTL DEF Spec

-----------------------------------------------------------------------------
(* Every service of the agent is thorough, whatever the settings.          *)

Plainly(s) == s \in Seq({c \in {s[i] : i \in DOMAIN s} : Plain(c)})

\* Commands that leave the goals there and away as they are.
Spares(c, there, away) == (\A f \in there : Keeps(c, f)) /\ (\A f \in away : StaysAway(c, f))

LEMMA PlainElements ==
  ASSUME NEW s, Plainly(s)
  PROVE  /\ Len(s) \in Nat /\ DOMAIN s = 1..Len(s)
         /\ \A i \in 1..Len(s) : Plain(s[i])
<1> DEFINE S == {c \in {s[i] : i \in DOMAIN s} : Plain(c)}
<1>1. s \in Seq(S) /\ \A c \in S : Plain(c)
  BY DEF Plainly
<1> HIDE DEF S
<1> QED BY <1>1

LEMMA PlainChain ==
  ASSUME NEW S, NEW s \in Seq(S), \A i \in DOMAIN s : Plain(s[i])
  PROVE  Plainly(s)
BY DEF Plainly

LEMMA PlainNoticed ==
  ASSUME NEW s, Plainly(s), NEW there, NEW away, NEW i \in DOMAIN s
  PROVE  Noticed(Service(s, there, away), i) <=> s[i].bad # "next"
<1> DEFINE q == Service(s, there, away)
<1>1. q.does = s
  BY DEF Service
<1> HIDE DEF q
<1>2. \A j \in 1..i : Plain(s[j])
  BY PlainElements
<1> QED BY <1>1, <1>2 DEF Noticed, Plain, q

LEMMA ThoroughChain ==
  ASSUME NEW s, Plainly(s), NEW there, NEW away,
         \A f \in there : \E i \in DOMAIN s :
            s[i].bad # "next" /\ Makes(s[i], f) /\ \A j \in DOMAIN s : j > i => Keeps(s[j], f),
         \A f \in away : \E i \in DOMAIN s :
            s[i].bad # "next" /\ Removes(s[i], f) /\ \A j \in DOMAIN s : j > i => StaysAway(s[j], f)
  PROVE  Thorough(Service(s, there, away))
<1> DEFINE q == Service(s, there, away)
<1>1. q.does = s /\ Sure(q) = there /\ q.gone = away
  BY DEF Service, Sure
<1>2. \A i \in DOMAIN s : s[i].bad # "next" => Noticed(q, i)
  BY PlainNoticed
<1> HIDE DEF q
<1>3. \A f \in there : \E i \in DOMAIN s : Noticed(q, i) /\ Ensures(q, f, i)
  BY <1>1, <1>2 DEF Ensures
<1>4. \A f \in away : \E i \in DOMAIN s : Noticed(q, i) /\ Prevents(q, f, i)
  BY <1>1, <1>2 DEF Prevents
<1> QED BY <1>1, <1>3, <1>4 DEF Thorough, q

LEMMA ThoroughNothing == ASSUME NEW s PROVE Thorough(Service(s, {}, {}))
BY DEF Service, Sure, Thorough

\* What is only hoped for takes nothing away from what is sure, and is not
\* sure itself as long as no command whose failure is noticed makes it.
LEMMA HopingThorough ==
  ASSUME NEW s, NEW there, NEW away, NEW facts, Thorough(Service(s, there, away))
  PROVE  Thorough(Hoping(Service(s, there, away), facts))
<1> DEFINE q == Service(s, there, away)
           r == Hoping(q, facts)
<1>1. r.does = q.does /\ r.gone = q.gone /\ Sure(r) \subseteq Sure(q) /\ Thorough(q)
  BY DEF Service, Hoping, Sure
<1> HIDE DEF q, r
<1>2. \A i : Noticed(r, i) <=> Noticed(q, i)
  BY <1>1 DEF Noticed
<1>3. \A f, i : (Ensures(r, f, i) <=> Ensures(q, f, i)) /\ (Prevents(r, f, i) <=> Prevents(q, f, i))
  BY <1>1 DEF Ensures, Prevents
<1>4. Thorough(r)
  BY <1>1, <1>2, <1>3 DEF Thorough
<1> QED BY <1>4 DEF r, q

LEMMA HopingCandid ==
  ASSUME NEW s, NEW there, NEW away, NEW facts,
         \A i \in DOMAIN s : s[i].bad # "next" => \A f \in facts : ~Makes(s[i], f)
  PROVE  Candid(Hoping(Service(s, there, away), facts))
<1> DEFINE r == Hoping(Service(s, there, away), facts)
<1>1. r.does = s /\ r.unsure = facts
  BY DEF Service, Hoping
<1> HIDE DEF r
<1>2. \A i \in DOMAIN s : Noticed(r, i) => s[i].bad # "next"
  BY <1>1 DEF Noticed
<1>3. \A i \in DOMAIN s : \A f : Ensures(r, f, i) => Makes(s[i], f)
  BY <1>1 DEF Ensures
<1>4. Candid(r)
  BY <1>1, <1>2, <1>3 DEF Candid
<1> QED BY <1>4 DEF r

LEMMA SureCandid == ASSUME NEW q, q.unsure = {} PROVE Candid(q)
BY DEF Candid

LEMMA PlainTuples ==
  /\ Plainly(<< >>)
  /\ \A a : Plain(a) => Plainly(<<a>>)
  /\ \A a, b : Plain(a) /\ Plain(b) => Plainly(<<a, b>>)
  /\ \A a, b, c : Plain(a) /\ Plain(b) /\ Plain(c) => Plainly(<<a, b, c>>)
<1>1. Plainly(<< >>)
  BY DEF Plainly
<1>2. \A a : Plain(a) => Plainly(<<a>>)
  BY DEF Plainly
<1>3. \A a, b : Plain(a) /\ Plain(b) => Plainly(<<a, b>>)
  BY DEF Plainly
<1>4. \A a, b, c : Plain(a) /\ Plain(b) /\ Plain(c) => Plainly(<<a, b, c>>)
  BY DEF Plainly
<1> QED BY <1>1, <1>2, <1>3, <1>4

\* What a command makes or removes, if its failure is noticed.
Gives(c, there, away) ==
  /\ Plain(c) /\ c.bad # "next"
  /\ \A f \in there : Makes(c, f)
  /\ \A f \in away : Removes(c, f)

LEMMA ThoroughOne ==
  ASSUME NEW a, NEW there, NEW away, Gives(a, there, away)
  PROVE  Thorough(Service(<<a>>, there, away))
<1> DEFINE s == <<a>>
<1>1. Plainly(s) /\ DOMAIN s = {1} /\ s[1] = a
  BY PlainTuples DEF Gives
<1> HIDE DEF s
<1>2. Thorough(Service(s, there, away))
  BY <1>1, ThoroughChain DEF Gives
<1> QED BY <1>2 DEF s

LEMMA ThoroughLast ==
  ASSUME NEW a, NEW b, NEW there, NEW away, Plain(a), Gives(b, there, away)
  PROVE  Thorough(Service(<<a, b>>, there, away))
<1> DEFINE s == <<a, b>>
<1>1. Plainly(s) /\ DOMAIN s = {1, 2} /\ s[2] = b
  BY PlainTuples DEF Gives
<1> HIDE DEF s
<1>2. Thorough(Service(s, there, away))
  BY <1>1, ThoroughChain DEF Gives
<1> QED BY <1>2 DEF s

\* Two chains, one after the other.
LEMMA ThoroughJoin ==
  ASSUME NEW s, NEW t, Plainly(s), Plainly(t), NEW A, NEW B, NEW C, NEW D,
         Thorough(Service(s, A, B)), Thorough(Service(t, C, D)),
         \A i \in DOMAIN t : Spares(t[i], A, B)
  PROVE  /\ Plainly(s \o t)
         /\ Thorough(Service(s \o t, A \cup C, B \cup D))
<1> DEFINE S == {c \in {s[i] : i \in DOMAIN s} : Plain(c)}
           T == {c \in {t[i] : i \in DOMAIN t} : Plain(c)}
           U == S \cup T
           j == s \o t
           m == Len(s)
<1>1. s \in Seq(S) /\ t \in Seq(T) /\ (\A c \in U : Plain(c))
  BY DEF Plainly
<1>2. m \in Nat /\ Len(t) \in Nat /\ DOMAIN s = 1..m /\ DOMAIN t = 1..Len(t)
  BY PlainElements
<1>3. /\ j \in Seq(U) /\ DOMAIN j = 1..(m + Len(t))
      /\ \A i \in 1..(m + Len(t)) : j[i] = IF i <= m THEN s[i] ELSE t[i - m]
  <2> HIDE DEF S, T
  <2>1. s \in Seq(U) /\ t \in Seq(U)
    BY <1>1
  <2> HIDE DEF U
  <2>2. /\ j \in Seq(U) /\ Len(j) = m + Len(t)
        /\ \A i \in 1..(m + Len(t)) : j[i] = IF i <= m THEN s[i] ELSE t[i - m]
    BY <2>1, ConcatProperties, Zenon
  <2> HIDE DEF j
  <2> QED BY <2>2
<1> HIDE DEF S, T, j, m
<1>4. Plainly(j)
  <2>1. ASSUME NEW i \in DOMAIN j PROVE Plain(j[i])
    <3>1. CASE i <= m
      BY <1>2, <1>3, <3>1, PlainElements
    <3>2. CASE ~(i <= m)
      <4>1. i \in 1..(m + Len(t))
        BY <1>3
      <4>2. i - m \in 1..Len(t) /\ j[i] = t[i - m]
        <5> HIDE DEF U
        <5> QED BY <1>2, <1>3, <3>2, <4>1
      <4> QED BY <4>2, PlainElements
    <3> QED BY <3>1, <3>2
  <2> HIDE DEF U
  <2> QED BY <1>3, <2>1, PlainChain
<1>5. /\ \A i \in 1..m : i \in DOMAIN j /\ j[i] = s[i]
      /\ \A i \in 1..Len(t) : i + m \in DOMAIN j /\ j[i + m] = t[i]
      /\ \A i \in DOMAIN j : i \in 1..m \/ (i - m \in 1..Len(t) /\ j[i] = t[i - m])
  <2> DEFINE n == Len(t)
  <2>1. n \in Nat /\ DOMAIN j = 1..(m + n) /\ \A i \in 1..(m + n) : j[i] = IF i <= m THEN s[i] ELSE t[i - m]
    BY <1>2, <1>3
  <2> HIDE DEF n
  <2>2. ASSUME NEW i \in 1..m PROVE i \in DOMAIN j /\ j[i] = s[i]
    <3>1. i \in 1..(m + n) /\ i <= m
      BY <1>2, <2>1, <2>2
    <3> QED BY <2>1, <3>1
  <2>3. ASSUME NEW i \in 1..n PROVE i + m \in DOMAIN j /\ j[i + m] = t[i]
    <3> DEFINE k == i + m
    <3>1. k \in 1..(m + n) /\ ~(k <= m) /\ k - m = i
      BY <1>2, <2>1, <2>3
    <3> HIDE DEF k
    <3>2. k \in DOMAIN j /\ j[k] = t[i]
      BY <2>1, <3>1
    <3> QED BY <3>2 DEF k
  <2>4. ASSUME NEW i \in DOMAIN j, i \notin 1..m PROVE i - m \in 1..n /\ j[i] = t[i - m]
    <3>1. i \in 1..(m + n) /\ ~(i <= m) /\ i - m \in 1..n
      BY <1>2, <2>1, <2>4
    <3> QED BY <2>1, <3>1
  <2> QED BY <2>2, <2>3, <2>4 DEF n
<1>6. ASSUME NEW f, NEW i \in DOMAIN s, s[i].bad # "next"
      PROVE  /\ f \in A /\ Makes(s[i], f) /\ (\A k \in DOMAIN s : k > i => Keeps(s[k], f)) =>
                  /\ j[i].bad # "next" /\ Makes(j[i], f)
                  /\ \A k \in DOMAIN j : k > i => Keeps(j[k], f)
             /\ f \in B /\ Removes(s[i], f) /\ (\A k \in DOMAIN s : k > i => StaysAway(s[k], f)) =>
                  /\ j[i].bad # "next" /\ Removes(j[i], f)
                  /\ \A k \in DOMAIN j : k > i => StaysAway(j[k], f)
  BY <1>2, <1>5, <1>6 DEF Spares
<1>7. ASSUME NEW f, NEW i \in DOMAIN t, t[i].bad # "next"
      PROVE  /\ Makes(t[i], f) /\ (\A k \in DOMAIN t : k > i => Keeps(t[k], f)) =>
                  /\ j[i + m].bad # "next" /\ Makes(j[i + m], f)
                  /\ \A k \in DOMAIN j : k > i + m => Keeps(j[k], f)
             /\ Removes(t[i], f) /\ (\A k \in DOMAIN t : k > i => StaysAway(t[k], f)) =>
                  /\ j[i + m].bad # "next" /\ Removes(j[i + m], f)
                  /\ \A k \in DOMAIN j : k > i + m => StaysAway(j[k], f)
  <2>1. j[i + m] = t[i]
    BY <1>2, <1>5
  <2>2. ASSUME NEW k \in DOMAIN j, k > i + m PROVE k - m \in DOMAIN t /\ k - m > i /\ j[k] = t[k - m]
    BY <1>2, <1>3, <1>5, <2>2
  <2> QED BY <1>7, <2>1, <2>2
<1>8. ASSUME NEW u, Plainly(u), NEW there, NEW away, Thorough(Service(u, there, away))
      PROVE  /\ \A f \in there : \E i \in DOMAIN u :
                  u[i].bad # "next" /\ Makes(u[i], f)
                    /\ \A k \in DOMAIN u : k > i => Keeps(u[k], f)
             /\ \A f \in away : \E i \in DOMAIN u :
                  u[i].bad # "next" /\ Removes(u[i], f)
                    /\ \A k \in DOMAIN u : k > i => StaysAway(u[k], f)
  <2> DEFINE q == Service(u, there, away)
  <2>1. q.does = u /\ Sure(q) = there /\ q.gone = away
    BY DEF Service, Sure
  <2>2. \A i \in DOMAIN u : Noticed(q, i) => u[i].bad # "next"
    BY <1>8, PlainNoticed
  <2>3. Thorough(q)
    BY <1>8
  <2> HIDE DEF q
  <2> QED BY <2>1, <2>2, <2>3 DEF Thorough, Ensures, Prevents
<1>9. ASSUME NEW f \in A \cup C
      PROVE  \E i \in DOMAIN j : j[i].bad # "next" /\ Makes(j[i], f)
                                  /\ \A k \in DOMAIN j : k > i => Keeps(j[k], f)
  <2>1. CASE f \in A
    <3>1. PICK i \in DOMAIN s : s[i].bad # "next" /\ Makes(s[i], f)
                                  /\ \A k \in DOMAIN s : k > i => Keeps(s[k], f)
      BY <1>8, <2>1
    <3> QED BY <1>2, <1>5, <1>6, <2>1, <3>1
  <2>2. CASE f \in C
    <3>1. PICK i \in DOMAIN t : t[i].bad # "next" /\ Makes(t[i], f)
                                  /\ \A k \in DOMAIN t : k > i => Keeps(t[k], f)
      BY <1>8, <2>2
    <3> QED BY <1>2, <1>5, <1>7, <3>1
  <2> QED BY <2>1, <2>2
<1>10. ASSUME NEW f \in B \cup D
       PROVE  \E i \in DOMAIN j : j[i].bad # "next" /\ Removes(j[i], f)
                                   /\ \A k \in DOMAIN j : k > i => StaysAway(j[k], f)
  <2>1. CASE f \in B
    <3>1. PICK i \in DOMAIN s : s[i].bad # "next" /\ Removes(s[i], f)
                                  /\ \A k \in DOMAIN s : k > i => StaysAway(s[k], f)
      BY <1>8, <2>1
    <3> QED BY <1>2, <1>5, <1>6, <2>1, <3>1
  <2>2. CASE f \in D
    <3>1. PICK i \in DOMAIN t : t[i].bad # "next" /\ Removes(t[i], f)
                                  /\ \A k \in DOMAIN t : k > i => StaysAway(t[k], f)
      BY <1>8, <2>2
    <3> QED BY <1>2, <1>5, <1>7, <3>1
  <2> QED BY <2>1, <2>2
<1>11. Thorough(Service(j, A \cup C, B \cup D))
  BY <1>4, <1>9, <1>10, ThoroughChain
<1> QED BY <1>4, <1>11 DEF j

\* Fewer goals.
LEMMA ThoroughLess ==
  ASSUME NEW s, NEW A, NEW B, NEW C \in SUBSET A, NEW D \in SUBSET B, Thorough(Service(s, A, B))
  PROVE  Thorough(Service(s, C, D))
<1> DEFINE q == Service(s, A, B)
           r == Service(s, C, D)
<1>1. r.does = q.does /\ Sure(r) \subseteq Sure(q) /\ r.gone \subseteq q.gone /\ Thorough(q)
  BY DEF Service, Sure
<1> HIDE DEF q, r
<1>2. \A i : Noticed(r, i) <=> Noticed(q, i)
  BY <1>1 DEF Noticed
<1>3. \A f, i : (Ensures(r, f, i) <=> Ensures(q, f, i)) /\ (Prevents(r, f, i) <=> Prevents(q, f, i))
  BY <1>1 DEF Ensures, Prevents
<1>4. Thorough(r)
  BY <1>1, <1>2, <1>3 DEF Thorough
<1> QED BY <1>4 DEF r

\* One command, if it is wanted.
LEMMA ThoroughOptional ==
  ASSUME NEW wanted \in BOOLEAN, NEW c, NEW there, NEW away, Gives(c, there, away),
         wanted \/ (there = {} /\ away = {})
  PROVE  /\ Plainly(Optional(wanted, <<c>>))
         /\ Thorough(Service(Optional(wanted, <<c>>), there, away))
         /\ \A i \in DOMAIN Optional(wanted, <<c>>) : Optional(wanted, <<c>>)[i] = c
<1>1. CASE wanted
  <2>1. Optional(wanted, <<c>>) = <<c>>
    BY <1>1 DEF Optional
  <2>2. Plainly(<<c>>) /\ Thorough(Service(<<c>>, there, away))
    BY PlainTuples, ThoroughOne DEF Gives
  <2>3. \A i \in DOMAIN <<c>> : <<c>>[i] = c
    OBVIOUS
  <2> QED BY <2>1, <2>2, <2>3
<1>2. CASE ~wanted
  <2>1. Optional(wanted, <<c>>) = << >>
    BY <1>2 DEF Optional
  <2>2. Plainly(<< >>) /\ Thorough(Service(<< >>, there, away))
    BY <1>2, PlainTuples, ThoroughNothing
  <2>3. DOMAIN << >> = {}
    OBVIOUS
  <2> QED BY <2>1, <2>2, <2>3
<1> QED BY <1>1, <1>2

LEMMA ThoroughTwo ==
  ASSUME NEW a, NEW b, Plain(a), Plain(b), NEW there, NEW away,
         \A f \in there : \/ a.bad # "next" /\ Makes(a, f) /\ Keeps(b, f)
                          \/ b.bad # "next" /\ Makes(b, f),
         \A f \in away : \/ a.bad # "next" /\ Removes(a, f) /\ StaysAway(b, f)
                         \/ b.bad # "next" /\ Removes(b, f)
  PROVE  Plainly(<<a, b>>) /\ Thorough(Service(<<a, b>>, there, away))
<1> DEFINE s == <<a, b>>
<1>1. Plainly(s) /\ DOMAIN s = {1, 2} /\ s[1] = a /\ s[2] = b
  BY PlainTuples
<1> HIDE DEF s
<1>2. Thorough(Service(s, there, away))
  BY <1>1, ThoroughChain
<1> QED BY <1>1, <1>2 DEF s

LEMMA ThoroughThree ==
  ASSUME NEW a, NEW b, NEW c, Plain(a), Plain(b), Plain(c), NEW there, NEW away,
         \A f \in there : \/ a.bad # "next" /\ Makes(a, f) /\ Keeps(b, f) /\ Keeps(c, f)
                          \/ b.bad # "next" /\ Makes(b, f) /\ Keeps(c, f)
                          \/ c.bad # "next" /\ Makes(c, f),
         \A f \in away : c.bad # "next" /\ Removes(c, f)
  PROVE  Plainly(<<a, b, c>>) /\ Thorough(Service(<<a, b, c>>, there, away))
<1> DEFINE s == <<a, b, c>>
<1>1. Plainly(s) /\ DOMAIN s = {1, 2, 3} /\ s[1] = a /\ s[2] = b /\ s[3] = c
  BY PlainTuples
<1> HIDE DEF s
<1>2. Thorough(Service(s, there, away))
  BY <1>1, ThoroughChain
<1> QED BY <1>1, <1>2 DEF s

LEMMA SetSysctlThorough ==
  ASSUME NEW v4, NEW v6
  PROVE  /\ Plainly(SetSysctl(v4, v6)) /\ Thorough(set_sysctl(v4, v6))
         /\ Thorough(Service(SetSysctl(v4, v6), {<<"ip_forward", v4>>, <<"ip6_forward", v6>>}, {}))
         /\ Candid(set_sysctl(v4, v6))
         /\ \A i \in DOMAIN SetSysctl(v4, v6) : SetSysctl(v4, v6)[i].bad # "next" =>
              ~Makes(SetSysctl(v4, v6)[i], <<"90-dawos.conf", <<v4, v6>>>>)
         /\ \A A, B : (\A f \in A \cup B : f[1] \notin {"ip_forward", "ip6_forward", "90-dawos.conf"})
                         => \A i \in DOMAIN SetSysctl(v4, v6) : Spares(SetSysctl(v4, v6)[i], A, B)
<1> DEFINE a == Assign("ip_forward", v4)
           b == Assign("ip6_forward", v6)
           c == Ignored(Assign("90-dawos.conf", <<v4, v6>>))
           there == {<<"ip_forward", v4>>, <<"ip6_forward", v6>>}
           file == <<"90-dawos.conf", <<v4, v6>>>>
<1>0. ~Makes(a, file) /\ ~Makes(b, file) /\ c.bad = "next"
  BY DEF Makes, Assign, Ignored, Look
<1>1. Plain(a) /\ Plain(b) /\ Plain(c) /\ a.bad # "next" /\ b.bad # "next"
  BY DEF Plain, Assign, Ignored, Look
<1>2. /\ Makes(a, <<"ip_forward", v4>>) /\ Keeps(b, <<"ip_forward", v4>>)
      /\ Keeps(c, <<"ip_forward", v4>>)
      /\ Makes(b, <<"ip6_forward", v6>>) /\ Keeps(c, <<"ip6_forward", v6>>)
  BY DEF Makes, Keeps, Assign, Ignored, Look
<1>3. \A f : f[1] \notin {"ip_forward", "ip6_forward", "90-dawos.conf"} =>
        /\ Keeps(a, f) /\ Keeps(b, f) /\ Keeps(c, f)
        /\ StaysAway(a, f) /\ StaysAway(b, f) /\ StaysAway(c, f)
  BY DEF Keeps, StaysAway, Assign, Ignored, Look
<1>4. SetSysctl(v4, v6) = <<a, b, c>>
  BY DEF SetSysctl
<1>5. set_sysctl(v4, v6) = Hoping(Service(SetSysctl(v4, v6), there, {}), {file})
  BY DEF set_sysctl
<1> HIDE DEF a, b, c
<1>6. Plainly(<<a, b, c>>) /\ Thorough(Service(<<a, b, c>>, there, {}))
  BY <1>1, <1>2, ThoroughThree
<1>7. \A A, B : (\A f \in A \cup B : f[1] \notin {"ip_forward", "ip6_forward", "90-dawos.conf"})
         => Spares(a, A, B) /\ Spares(b, A, B) /\ Spares(c, A, B)
  BY <1>3 DEF Spares
<1>8. DOMAIN <<a, b, c>> = {1, 2, 3}
      /\ <<a, b, c>>[1] = a /\ <<a, b, c>>[2] = b /\ <<a, b, c>>[3] = c
  OBVIOUS
<1> HIDE DEF there, file
<1>9. \A i \in DOMAIN SetSysctl(v4, v6) : SetSysctl(v4, v6)[i].bad # "next" =>
        ~Makes(SetSysctl(v4, v6)[i], file)
  BY <1>0, <1>4, <1>8
<1>10. Thorough(Service(SetSysctl(v4, v6), there, {})) /\ Plainly(SetSysctl(v4, v6))
  BY <1>4, <1>6
<1> DEFINE s == SetSysctl(v4, v6)
<1> HIDE DEF s
<1>11. Thorough(Hoping(Service(s, there, {}), {file})) /\ Candid(Hoping(Service(s, there, {}), {file}))
  <2>1. \A i \in DOMAIN s : s[i].bad # "next" => \A f \in {file} : ~Makes(s[i], f)
    BY <1>9 DEF s
  <2>2. Thorough(Service(s, there, {}))
    BY <1>10 DEF s
  <2> QED BY <2>1, <2>2, HopingThorough, HopingCandid
<1>12. \A A, B : (\A f \in A \cup B : f[1] \notin {"ip_forward", "ip6_forward", "90-dawos.conf"})
         => \A i \in DOMAIN SetSysctl(v4, v6) : Spares(SetSysctl(v4, v6)[i], A, B)
  BY <1>4, <1>7, <1>8
<1> QED BY <1>5, <1>9, <1>10, <1>11, <1>12 DEF s, there, file

LEMMA MasqueradeThorough ==
  ASSUME NEW wan
  PROVE  /\ Thorough(setup_masquerade(wan)) /\ Thorough(remove_masquerade)
         /\ Candid(setup_masquerade(wan)) /\ Candid(remove_masquerade)
<1> DEFINE p == Ignored(DeleteNatTable)
           a == Add({}, {NatTable})
           b == Add({NatTable}, {NatChain})
           c == Add({NatTable, NatChain}, {<<"masquerade", wan>>})
           there == {NatTable, NatChain, <<"masquerade", wan>>}
           s == <<p, a, b, c>>
           t == SetSysctl(1, 0)
           file == <<"90-dawos.conf", <<1, 0>>>>
<1>1. Plain(p) /\ Plain(a) /\ Plain(b) /\ Plain(c)
      /\ a.bad # "next" /\ b.bad # "next" /\ c.bad # "next"
  BY DEF Plain, Ignored, DeleteNatTable, Delete, Add, Look
<1>2. /\ Makes(a, NatTable) /\ Keeps(b, NatTable) /\ Keeps(c, NatTable)
      /\ Makes(b, NatChain) /\ Keeps(c, NatChain)
      /\ Makes(c, <<"masquerade", wan>>)
      /\ ~Makes(p, file) /\ ~Makes(a, file) /\ ~Makes(b, file) /\ ~Makes(c, file)
  BY DEF Makes, Keeps, Ignored, DeleteNatTable, Delete, Add, Look, NatTable, NatChain
<1> HIDE DEF p, a, b, c
<1>3. Plainly(s) /\ Thorough(Service(s, there, {}))
  <2>1. s \in Seq({p, a, b, c})
        /\ DOMAIN s = {1, 2, 3, 4} /\ s[1] = p /\ s[2] = a /\ s[3] = b /\ s[4] = c
    OBVIOUS
  <2> HIDE DEF s
  <2>2. Plainly(s)
    BY <1>1, <2>1, PlainChain
  <2>3. ASSUME NEW f \in there
        PROVE  \E i \in DOMAIN s : s[i].bad # "next" /\ Makes(s[i], f)
                                     /\ \A j \in DOMAIN s : j > i => Keeps(s[j], f)
    <3>1. CASE f = NatTable
      BY <1>1, <1>2, <2>1, <3>1
    <3>2. CASE f = NatChain
      BY <1>1, <1>2, <2>1, <3>2
    <3>3. CASE f = <<"masquerade", wan>>
      BY <1>1, <1>2, <2>1, <3>3
    <3> QED BY <3>1, <3>2, <3>3
  <2> HIDE DEF there
  <2> QED BY <2>2, <2>3, ThoroughChain
<1>4. /\ Plainly(t)
      /\ Thorough(Service(t, {<<"ip_forward", 1>>, <<"ip6_forward", 0>>}, {}))
  BY SetSysctlThorough
<1>5. \A i \in DOMAIN t : Spares(t[i], there, {})
  <2>1. \A f \in there \cup {} : f[1] \notin {"ip_forward", "ip6_forward", "90-dawos.conf"}
    BY DEF NatTable, NatChain
  <2> HIDE DEF there, t
  <2> QED BY <2>1, SetSysctlThorough DEF t
<1>6. Thorough(setup_masquerade(wan)) /\ Candid(setup_masquerade(wan))
  <2> DEFINE X == there \cup {<<"ip_forward", 1>>, <<"ip6_forward", 0>>}
             Y == {NatTable, NatChain, <<"masquerade", wan>>, <<"ip_forward", 1>>}
  <2>1. setup_masquerade(wan) = Hoping(Service(s \o t, Y, {}), {file})
    BY DEF setup_masquerade, p, a, b, c
  <2>2. Y \subseteq X
    OBVIOUS
  <2> HIDE DEF s, t, there, Y
  <2>3. Thorough(Service(s \o t, X, {} \cup {}))
    BY <1>3, <1>4, <1>5, ThoroughJoin
  <2> HIDE DEF X
  <2> DEFINE j == s \o t
  <2> HIDE DEF j, file
  <2>4. Thorough(Service(j, X, {} \cup {}))
    BY <2>3 DEF j
  <2>5. Thorough(Service(j, Y, {}))
    BY <2>2, <2>4, ThoroughLess
  <2>6. Thorough(Hoping(Service(j, Y, {}), {file}))
    BY <2>5, HopingThorough
  <2>7. \A i \in DOMAIN j : j[i].bad # "next" => \A f \in {file} : ~Makes(j[i], f)
    <3>1. s \in Seq({p, a, b, c}) /\ t \in Seq({t[i] : i \in DOMAIN t})
      <4>1. Plainly(t)
        BY <1>4
      <4>2. t \in Seq({x \in {t[i] : i \in DOMAIN t} : Plain(x)})
        BY <4>1 DEF Plainly
      <4> QED BY <4>2 DEF s
    <3>2. \A x \in {p, a, b, c} \cup {t[i] : i \in DOMAIN t} :
            x.bad # "next" => ~Makes(x, file)
      <4>1. \A i \in DOMAIN t : t[i].bad # "next" => ~Makes(t[i], file)
        BY SetSysctlThorough DEF t, file
      <4> QED BY <1>2, <4>1
    <3> DEFINE T == {p, a, b, c} \cup {t[i] : i \in DOMAIN t}
    <3>3. s \in Seq(T) /\ t \in Seq(T)
      BY <3>1
    <3> HIDE DEF T
    <3>4. j \in Seq(T) /\ \A i \in DOMAIN j : j[i] \in T
      BY <3>3 DEF j
    <3> QED BY <3>2, <3>4 DEF T
  <2>8. Candid(Hoping(Service(j, Y, {}), {file}))
    BY <2>7, HopingCandid
  <2> QED BY <2>1, <2>6, <2>8 DEF j
<1>7. Gives(DeleteNatTable, {}, {NatTable})
  BY DEF Gives, Plain, Removes, DeleteNatTable, Delete, Look
<1>8. Candid(remove_masquerade)
  BY SureCandid DEF remove_masquerade, Service
<1> QED BY <1>6, <1>7, <1>8, ThoroughOne DEF remove_masquerade

LEMMA GroupsThorough ==
  ASSUME NEW type, NEW elements \in BOOLEAN
  PROVE  /\ Thorough(create_group(type, elements))
         /\ Thorough(delete_group(type)) /\ Thorough(add_members(type))
<1> DEFINE a == Add({}, {FilterTable})
           b == [Add({FilterTable}, {<<"set", type>>})
                   EXCEPT !.clash = {<<"set", t>> : t \in GroupTypes \ {type}}]
           c == Add({<<"set", type>>}, {<<"element", type>>})
           s == <<a, b>>
           t == Optional(elements, <<c>>)
           A == {FilterTable, <<"set", type>>}
           C == IF elements THEN {<<"element", type>>} ELSE {}
<1>1. /\ Plain(a) /\ Plain(b) /\ a.bad # "next" /\ b.bad # "next"
      /\ Makes(a, FilterTable) /\ Keeps(b, FilterTable) /\ Makes(b, <<"set", type>>)
  BY DEF Plain, Makes, Keeps, Add, Look
<1>2. Gives(c, {<<"element", type>>}, {}) /\ Keeps(c, FilterTable) /\ Keeps(c, <<"set", type>>)
  BY DEF Gives, Plain, Makes, Keeps, Add, Look
<1>3. Gives(Delete(<<"set", type>>, {"element"}), {}, {<<"set", type>>})
  BY DEF Gives, Plain, Removes, Delete, Look
<1>4. create_group(type, elements) = Service(s \o t, A \cup C, {})
  BY DEF create_group
<1>5. add_members(type) = Service(<<c>>, {<<"element", type>>}, {})
      /\ delete_group(type) = Service(<<Delete(<<"set", type>>, {"element"})>>, {}, {<<"set", type>>})
  BY DEF add_members, delete_group
<1> HIDE DEF a, b, c
<1>6. Plainly(s) /\ Thorough(Service(s, A, {}))
  BY <1>1, ThoroughTwo
<1>7. Plainly(t) /\ Thorough(Service(t, C, {})) /\ \A i \in DOMAIN t : t[i] = c
  <2>1. Gives(c, C, {}) /\ (elements \/ C = {})
    BY <1>2 DEF Gives
  <2> QED BY <2>1, ThoroughOptional
<1>8. \A i \in DOMAIN t : Spares(t[i], A, {})
  BY <1>2, <1>7 DEF Spares
<1>9. Thorough(create_group(type, elements))
  <2> HIDE DEF s, t, A, C
  <2>1. Thorough(Service(s \o t, A \cup C, {} \cup {}))
    BY <1>6, <1>7, <1>8, ThoroughJoin
  <2> QED BY <1>4, <2>1
<1> QED BY <1>2, <1>3, <1>5, <1>9, ThoroughOne

LEMMA ZonesThorough ==
  /\ Thorough(create_zone) /\ Thorough(delete_zone)
  /\ Candid(create_zone) /\ Candid(delete_zone)
<1> DEFINE a == Reported(Add({}, {Zone}))
           s == <<a>>
           t == [i \in 1..3 |-> Ignored(Add({Zone}, {<<"zone chain", Hooks[i]>>}))]
           chains == {<<"zone chain", "input">>, <<"zone chain", "forward">>,
                      <<"zone chain", "output">>}
<1>1. Gives(a, {Zone}, {}) /\ \A f \in chains : ~Makes(a, f)
  BY DEF Gives, Plain, Makes, Reported, Add, Look, Zone
<1>2. \A i \in 1..3 : Plain(t[i]) /\ Spares(t[i], {Zone}, {}) /\ t[i].bad = "next"
  BY DEF Plain, Spares, Keeps, Ignored, Add, Look, Zone
<1>3. Gives(Reported(Delete(Zone, {"zone chain"})), {}, {Zone})
  BY DEF Gives, Plain, Removes, Reported, Delete, Look
<1>4. create_zone = Hoping(Service(s \o t, {Zone}, {}), chains)
  BY DEF create_zone
<1>5. t \in Seq({t[i] : i \in 1..3}) /\ DOMAIN t = 1..3
  OBVIOUS
<1> HIDE DEF a, t, chains
<1>6. Plainly(t) /\ Thorough(Service(t, {}, {}))
  BY <1>2, <1>5, PlainChain, ThoroughNothing
<1>7. Plainly(s) /\ Thorough(Service(s, {Zone}, {}))
  BY <1>1, PlainTuples, ThoroughOne DEF Gives
<1>8. Thorough(create_zone) /\ Candid(create_zone)
  <2>1. \A i \in DOMAIN t : Spares(t[i], {Zone}, {})
    BY <1>2, <1>5
  <2>3. s \in Seq({a} \cup {t[i] : i \in 1..3}) /\ t \in Seq({a} \cup {t[i] : i \in 1..3})
    BY <1>5
  <2> HIDE DEF s
  <2>2. Thorough(Service(s \o t, {Zone} \cup {}, {} \cup {}))
    BY <1>6, <1>7, <2>1, ThoroughJoin
  <2> DEFINE j == s \o t
             T == {a} \cup {t[i] : i \in 1..3}
  <2>4. \A x \in T : x.bad # "next" => \A f \in chains : ~Makes(x, f)
    BY <1>1, <1>2
  <2> HIDE DEF T
  <2>5. j \in Seq(T) /\ \A i \in DOMAIN j : j[i] \in T
    BY <2>3 DEF T
  <2> HIDE DEF j
  <2>6. Candid(Hoping(Service(j, {Zone}, {}), chains))
    BY <2>4, <2>5, HopingCandid
  <2>7. Thorough(Service(j, {Zone}, {}))
    BY <2>2 DEF j
  <2>8. Thorough(Hoping(Service(j, {Zone}, {}), chains))
    BY <2>7, HopingThorough
  <2> QED BY <1>4, <2>6, <2>8 DEF j
<1>9. Candid(delete_zone)
  BY SureCandid DEF delete_zone, Service
<1> QED BY <1>3, <1>8, <1>9, ThoroughOne DEF delete_zone

LEMMA TrackingThorough ==
  ASSUME NEW n, NEW key
  PROVE  /\ Thorough(set_table_size(n)) /\ Thorough(set_conntrack(n))
         /\ Thorough(set_timeout(key, n)) /\ Thorough(apply_profile(n)) /\ Thorough(flush_table)
         /\ Candid(set_table_size(n)) /\ Candid(set_conntrack(n))
         /\ Candid(set_timeout(key, n)) /\ Candid(apply_profile(n)) /\ Candid(flush_table)
<1>1. Thorough(set_table_size(n))
  <2> DEFINE a == Assign("conntrack_max", n)
             b == Assign("91-dawos-conntrack.conf", n)
             c == Ignored(Look)
  <2>1. /\ Plain(a) /\ Plain(b) /\ Plain(c) /\ a.bad # "next" /\ b.bad # "next"
        /\ Makes(a, <<"conntrack_max", n>>) /\ Keeps(b, <<"conntrack_max", n>>)
        /\ Keeps(c, <<"conntrack_max", n>>)
        /\ Makes(b, <<"91-dawos-conntrack.conf", n>>)
        /\ Keeps(c, <<"91-dawos-conntrack.conf", n>>)
    BY DEF Plain, Makes, Keeps, Assign, Ignored, Look
  <2>2. set_table_size(n) =
          Service(<<a, b, c>>, {<<"conntrack_max", n>>, <<"91-dawos-conntrack.conf", n>>}, {})
    BY DEF set_table_size
  <2> HIDE DEF a, b, c
  <2> QED BY <2>1, <2>2, ThoroughThree
<1>2. Thorough(set_conntrack(n)) /\ Candid(set_conntrack(n))
  <2> DEFINE a == Ignored(Assign("conntrack_max", n))
             b == Ignored(Assign("90-conntrack.conf", n))
             c == Ignored(Look)
             s == <<a, b, c>>
             facts == {<<"conntrack_max", n>>, <<"90-conntrack.conf", n>>}
  <2>1. set_conntrack(n) = Hoping(Service(s, {}, {}), facts)
    BY DEF set_conntrack
  <2>2. \A i \in DOMAIN s : s[i].bad = "next"
    <3>1. a.bad = "next" /\ b.bad = "next" /\ c.bad = "next"
      BY DEF Ignored, Assign, Look
    <3> HIDE DEF a, b, c
    <3>2. DOMAIN s = {1, 2, 3} /\ s[1] = a /\ s[2] = b /\ s[3] = c
      OBVIOUS
    <3> HIDE DEF s
    <3> QED BY <3>1, <3>2
  <2> HIDE DEF s, facts
  <2> QED BY <2>1, <2>2, ThoroughNothing, HopingThorough, HopingCandid
<1>3. Thorough(set_timeout(key, n))
  <2>1. CASE key \in Timeouts
    <3> DEFINE a == Assign(key, n)
               b == Ignored(Look)
    <3>1. /\ Plain(a) /\ Plain(b) /\ a.bad # "next"
          /\ Makes(a, <<key, n>>) /\ Keeps(b, <<key, n>>)
      BY DEF Plain, Makes, Keeps, Assign, Ignored, Look
    <3>2. set_timeout(key, n) = Service(<<a, b>>, {<<key, n>>}, {})
      BY <2>1 DEF set_timeout
    <3> HIDE DEF a, b
    <3> QED BY <3>1, <3>2, ThoroughTwo
  <2>2. CASE key \notin Timeouts
    BY <2>2, ThoroughNothing DEF set_timeout
  <2> QED BY <2>1, <2>2
<1>4. Thorough(apply_profile(n))
  <2> DEFINE s == [i \in 1..2 |-> Assign(ProfileOrder[i], n)]
             b == Ignored(Look)
             t == <<b>>
             there == {<<k, n>> : k \in Timeouts}
  <2>1. /\ DOMAIN s = 1..2 /\ s \in Seq({s[1], s[2]})
        /\ s[1] = Assign("tcp_timeout_established", n) /\ s[2] = Assign("udp_timeout", n)
    BY DEF ProfileOrder
  <2>2. /\ Plain(s[1]) /\ Plain(s[2]) /\ s[1].bad # "next" /\ s[2].bad # "next"
        /\ Makes(s[1], <<"tcp_timeout_established", n>>)
        /\ Keeps(s[2], <<"tcp_timeout_established", n>>)
        /\ Makes(s[2], <<"udp_timeout", n>>)
    <3> DEFINE x == Assign("tcp_timeout_established", n)
               y == Assign("udp_timeout", n)
    <3>1. /\ Plain(x) /\ Plain(y) /\ x.bad # "next" /\ y.bad # "next"
          /\ Makes(x, <<"tcp_timeout_established", n>>)
          /\ Keeps(y, <<"tcp_timeout_established", n>>)
          /\ Makes(y, <<"udp_timeout", n>>)
      BY DEF Plain, Makes, Keeps, Assign, Look
    <3> HIDE DEF x, y, s
    <3> QED BY <2>1, <3>1 DEF x, y
  <2>3. there = {<<"tcp_timeout_established", n>>, <<"udp_timeout", n>>}
    BY DEF Timeouts
  <2>4. apply_profile(n) = Service(s \o t, there, {})
    BY DEF apply_profile
  <2>5. Plain(b) /\ Spares(b, there, {})
    BY DEF Plain, Spares, Keeps, Ignored, Look
  <2> HIDE DEF s, b, there
  <2>6. Plainly(s) /\ Thorough(Service(s, there, {}))
    <3>1. Plainly(s)
      BY <2>1, <2>2, PlainChain
    <3>2. \A f \in there : \E i \in DOMAIN s : s[i].bad # "next" /\ Makes(s[i], f)
                              /\ \A j \in DOMAIN s : j > i => Keeps(s[j], f)
      BY <2>1, <2>2, <2>3
    <3> QED BY <3>1, <3>2, ThoroughChain
  <2>7. Plainly(t) /\ Thorough(Service(t, {}, {})) /\ \A i \in DOMAIN t : Spares(t[i], there, {})
    BY <2>5, PlainTuples, ThoroughNothing
  <2> HIDE DEF t
  <2>8. Thorough(Service(s \o t, there \cup {}, {} \cup {}))
    BY <2>6, <2>7, ThoroughJoin
  <2> QED BY <2>4, <2>8
<1>5. Thorough(flush_table)
  <2> DEFINE a == Ignored(Look)
             b == [Look EXCEPT !.clears = {"tracked"}]
  <2>1. Plain(a) /\ Gives(b, {}, {<<"tracked", "old">>})
    BY DEF Gives, Plain, Removes, Ignored, Look
  <2>2. flush_table = Service(<<a, b>>, {}, {<<"tracked", "old">>})
    BY DEF flush_table
  <2> HIDE DEF a, b
  <2> QED BY <2>1, <2>2, ThoroughLast
<1>6. /\ Candid(set_table_size(n)) /\ Candid(set_timeout(key, n))
      /\ Candid(apply_profile(n)) /\ Candid(flush_table)
  <2>1. /\ set_table_size(n).unsure = {} /\ apply_profile(n).unsure = {} /\ flush_table.unsure = {}
        /\ set_timeout(key, n).unsure = {}
    BY DEF set_table_size, set_timeout, apply_profile, flush_table, Service
  <2> QED BY <2>1, SureCandid
<1> QED BY <1>1, <1>2, <1>3, <1>4, <1>5, <1>6

LEMMA InterfaceThorough == ASSUME NEW parts PROVE Thorough(configure_interface(parts))
<1> DEFINE a == New({}, {<<"address", "a">>})
           b == Delete(<<"address", "b">>, {})
           c == Assign("mtu", 1)
           d == Assign("link", "down")
           A == {<<"address", "a">> : p \in parts \cap {"address"}}
           B == {<<"address", "b">> : p \in parts \cap {"remove_address"}}
           C == {<<"mtu", 1>> : p \in parts \cap {"mtu"}}
           D == {<<"link", "down">> : p \in parts \cap {"state"}}
           ta == Optional("address" \in parts, <<a>>)
           tb == Optional("remove_address" \in parts, <<b>>)
           tc == Optional("mtu" \in parts, <<c>>)
           td == Optional("state" \in parts, <<d>>)
<1>1. /\ A \subseteq {<<"address", "a">>} /\ B \subseteq {<<"address", "b">>}
      /\ C \subseteq {<<"mtu", 1>>} /\ D \subseteq {<<"link", "down">>}
  OBVIOUS
<1>2. /\ "address" \in parts \/ A = {}
      /\ "remove_address" \in parts \/ B = {}
      /\ "mtu" \in parts \/ C = {}
      /\ "state" \in parts \/ D = {}
  OBVIOUS
<1>3. configure_interface(parts) = Service(((ta \o tb) \o tc) \o td, A \cup C \cup D, B)
  BY DEF configure_interface
<1> HIDE DEF A, B, C, D
<1>4. Gives(a, A, {}) /\ Gives(b, {}, B) /\ Gives(c, C, {}) /\ Gives(d, D, {})
  BY <1>1 DEF Gives, Plain, Makes, Removes, New, Delete, Assign, Look
<1>5. Spares(b, A, {}) /\ Spares(c, A, B) /\ Spares(d, A \cup C, B)
  BY <1>1 DEF Spares, Keeps, StaysAway, Delete, Assign, Look
<1> HIDE DEF a, b, c, d
<1>6. ASSUME NEW p, NEW e, NEW there, NEW away, Gives(e, there, away),
             p \in parts \/ (there = {} /\ away = {})
      PROVE  /\ Plainly(Optional(p \in parts, <<e>>))
             /\ Thorough(Service(Optional(p \in parts, <<e>>), there, away))
             /\ \A i \in DOMAIN Optional(p \in parts, <<e>>) : Optional(p \in parts, <<e>>)[i] = e
  <2> DEFINE w == p \in parts
             o == Optional(w, <<e>>)
  <2>1. w \in BOOLEAN /\ (w \/ (there = {} /\ away = {}))
    BY <1>6
  <2> HIDE DEF w
  <2>2. Plainly(o) /\ Thorough(Service(o, there, away)) /\ \A i \in DOMAIN o : o[i] = e
    BY <1>6, <2>1, ThoroughOptional
  <2> QED BY <2>2 DEF w
<1>7. Plainly(ta) /\ Thorough(Service(ta, A, {}))
  BY <1>2, <1>4, <1>6
<1>8. Plainly(tb) /\ Thorough(Service(tb, {}, B)) /\ \A i \in DOMAIN tb : tb[i] = b
  BY <1>2, <1>4, <1>6
<1>9. Plainly(tc) /\ Thorough(Service(tc, C, {})) /\ \A i \in DOMAIN tc : tc[i] = c
  BY <1>2, <1>4, <1>6
<1>10. Plainly(td) /\ Thorough(Service(td, D, {})) /\ \A i \in DOMAIN td : td[i] = d
  BY <1>2, <1>4, <1>6
<1> HIDE DEF ta, tb, tc, td
<1>11. Plainly(ta \o tb) /\ Thorough(Service(ta \o tb, A, B))
  <2>1. Plainly(ta \o tb) /\ Thorough(Service(ta \o tb, A \cup {}, {} \cup B))
    BY <1>5, <1>7, <1>8, ThoroughJoin
  <2>2. A \cup {} = A /\ {} \cup B = B
    OBVIOUS
  <2> QED BY <2>1, <2>2
<1>12. Plainly((ta \o tb) \o tc) /\ Thorough(Service((ta \o tb) \o tc, A \cup C, B))
  <2> DEFINE u == ta \o tb
  <2>1. Plainly(u) /\ Thorough(Service(u, A, B))
    BY <1>11
  <2> HIDE DEF u
  <2>2. Plainly(u \o tc) /\ Thorough(Service(u \o tc, A \cup C, B \cup {}))
    BY <1>5, <1>9, <2>1, ThoroughJoin
  <2>3. B \cup {} = B
    OBVIOUS
  <2> QED BY <2>2, <2>3 DEF u
<1>13. Thorough(Service(((ta \o tb) \o tc) \o td, A \cup C \cup D, B))
  <2> DEFINE u == (ta \o tb) \o tc
             E == A \cup C
  <2>1. Plainly(u) /\ Thorough(Service(u, E, B)) /\ Spares(d, E, B)
    BY <1>5, <1>12
  <2> HIDE DEF u, E
  <2>2. Plainly(u \o td) /\ Thorough(Service(u \o td, E \cup D, B \cup {}))
    BY <1>10, <2>1, ThoroughJoin
  <2>3. B \cup {} = B
    OBVIOUS
  <2> QED BY <2>2, <2>3 DEF u, E
<1> QED BY <1>3, <1>13

LEMMA VlansThorough ==
  ASSUME NEW address \in BOOLEAN, NEW state
  PROVE  Thorough(create_vlan(address)) /\ Thorough(delete_vlan) /\ Thorough(set_vlan_state(state))
<1>1. Thorough(create_vlan(address))
  <2> DEFINE a == New({}, {Vlan})
             b == VlanUp("up")
             c == New({Vlan}, {<<"vlan address", "a">>})
             s == <<a, b>>
             t == Optional(address, <<c>>)
             A == {Vlan, <<"vlan link", "up">>}
             C == IF address THEN {<<"vlan address", "a">>} ELSE {}
  <2>1. /\ Plain(a) /\ Plain(b) /\ a.bad # "next" /\ b.bad # "next"
        /\ Makes(a, Vlan) /\ Keeps(b, Vlan) /\ Makes(b, <<"vlan link", "up">>)
    BY DEF Plain, Makes, Keeps, New, VlanUp, Assign, Look, Vlan
  <2>2. Gives(c, C, {}) /\ Keeps(c, Vlan) /\ Keeps(c, <<"vlan link", "up">>)
    BY DEF Gives, Plain, Makes, Keeps, New, Look
  <2>3. create_vlan(address) = Service(s \o t, A \cup C, {})
    BY DEF create_vlan
  <2> HIDE DEF a, b, c
  <2>4. Plainly(s) /\ Thorough(Service(s, A, {}))
    BY <2>1, ThoroughTwo
  <2>5. Plainly(t) /\ Thorough(Service(t, C, {})) /\ \A i \in DOMAIN t : t[i] = c
    <3>1. address \/ C = {}
      OBVIOUS
    <3> HIDE DEF C
    <3> QED BY <2>2, <3>1, ThoroughOptional
  <2>6. \A i \in DOMAIN t : Spares(t[i], A, {})
    BY <2>2, <2>5 DEF Spares
  <2> HIDE DEF s, t, A, C
  <2>7. Thorough(Service(s \o t, A \cup C, {} \cup {}))
    BY <2>4, <2>5, <2>6, ThoroughJoin
  <2> QED BY <2>3, <2>7
<1>2. Thorough(delete_vlan)
  <2>1. Gives(Delete(Vlan, {"vlan link", "vlan address"}), {}, {Vlan})
    BY DEF Gives, Plain, Makes, Removes, Delete, Look
  <2> QED BY <2>1, ThoroughOne DEF delete_vlan
<1>3. Thorough(set_vlan_state(state))
  <2>1. Gives(VlanUp(state), {<<"vlan link", state>>}, {})
    BY DEF Gives, Plain, Makes, Removes, VlanUp, Assign, Look
  <2> QED BY <2>1, ThoroughOne DEF set_vlan_state
<1> QED BY <1>1, <1>2, <1>3

LEMMA RoutesThorough == Thorough(add_route) /\ Thorough(delete_route)
<1>1. Thorough(add_route)
  <2>1. Gives(New({}, {Route}), {Route}, {})
    BY DEF Gives, Plain, Makes, Removes, New, Look
  <2> QED BY <2>1, ThoroughOne DEF add_route
<1>2. Thorough(delete_route)
  <2>1. Gives(Delete(Route, {}), {}, {Route})
    BY DEF Gives, Plain, Makes, Removes, Delete, Look
  <2> QED BY <2>1, ThoroughOne DEF delete_route
<1> QED BY <1>1, <1>2

LEMMA ResolverThorough ==
  ASSUME NEW v, NEW linked \in BOOLEAN
  PROVE  Thorough(set_dns(v, linked)) /\ Candid(set_dns(v, linked))
<1>1. ASSUME NEW q, Thorough(q), Candid(q), DOMAIN q = DOMAIN Service(<< >>, {}, {})
      PROVE  Thorough(Blocking(q)) /\ Candid(Blocking(q))
  <2> DEFINE r == Blocking(q)
  <2>1. /\ r.does = q.does /\ r.holds = q.holds /\ r.gone = q.gone /\ r.unsure = q.unsure
    BY <1>1 DEF Blocking, Service
  <2> HIDE DEF r
  <2>2. Thorough(r) /\ Candid(r)
    BY <1>1, <2>1 DEF Thorough, Candid, Sure, Noticed, Ensures, Prevents
  <2> QED BY <2>2 DEF r
<1>2. /\ \A s, there, away : DOMAIN Service(s, there, away) = DOMAIN Service(<< >>, {}, {})
      /\ \A s, there, away, facts :
           DOMAIN Hoping(Service(s, there, away), facts) = DOMAIN Service(<< >>, {}, {})
  BY DEF Service, Hoping
<1>3. CASE linked
  <2> DEFINE a == Look
             b == Assign("resolved drop-in", v)
             c == Ignored(Restart("resolved", "resolved drop-in", "resolved runs"))
             s == <<a, b, c>>
             there == {<<"resolved drop-in", v>>}
             hope == <<"resolved runs", v>>
             q == Hoping(Service(s, there, {}), {hope})
  <2>1. set_dns(v, linked) = Blocking(q)
    BY <1>3 DEF set_dns
  <2>2. /\ Plain(a) /\ Plain(b) /\ Plain(c) /\ b.bad # "next" /\ c.bad = "next"
        /\ Makes(b, <<"resolved drop-in", v>>) /\ Keeps(c, <<"resolved drop-in", v>>)
        /\ ~Makes(a, hope) /\ ~Makes(b, hope)
    BY DEF Plain, Makes, Keeps, Assign, Ignored, Restart, Look
  <2> HIDE DEF a, b, c, hope
  <2>3. Thorough(Service(s, there, {}))
    BY <2>2, ThoroughThree
  <2>4. \A i \in DOMAIN s : s[i].bad # "next" => \A f \in {hope} : ~Makes(s[i], f)
    <3>1. DOMAIN s = {1, 2, 3} /\ s[1] = a /\ s[2] = b /\ s[3] = c
      OBVIOUS
    <3> HIDE DEF s
    <3> QED BY <2>2, <3>1
  <2> HIDE DEF s, there
  <2>5. Thorough(q) /\ Candid(q) /\ DOMAIN q = DOMAIN Service(<< >>, {}, {})
    BY <1>2, <2>3, <2>4, HopingThorough, HopingCandid
  <2> HIDE DEF q
  <2> QED BY <1>1, <2>1, <2>5
<1>4. CASE ~linked
  <2> DEFINE a == Assign("resolv.conf", v)
             q == Service(<<a>>, {<<"resolv.conf", v>>}, {})
  <2>1. set_dns(v, linked) = Blocking(q)
    BY <1>4 DEF set_dns
  <2>2. Gives(a, {<<"resolv.conf", v>>}, {})
    BY DEF Gives, Plain, Makes, Assign, Look
  <2>3. q.unsure = {}
    BY DEF Service
  <2> HIDE DEF a
  <2>4. Thorough(q) /\ DOMAIN q = DOMAIN Service(<< >>, {}, {})
    BY <1>2, <2>2, ThoroughOne
  <2> HIDE DEF q
  <2> QED BY <1>1, <2>1, <2>3, <2>4, SureCandid
<1> QED BY <1>3, <1>4

LEMMA DnsmasqGives == Gives(Reported(DnsmasqRestart), {DnsmasqUp}, {<<"cached", "old">>})
<1> DEFINE r == Reported(DnsmasqRestart)
<1>1. /\ r.clears = {"cached", "dnsmasq runs"} /\ r.drops = {}
      /\ r.adds = {<<"up", "dnsmasq">>}
      /\ r.loads = {<<"dawos-forwarding.conf", "dnsmasq runs">>}
      /\ r.good = "next" /\ r.bad = "reports"
  BY DEF Reported, DnsmasqRestart, Restart, Look
<1> HIDE DEF r
<1>2. Plain(r) /\ r.bad # "next"
  BY <1>1 DEF Plain
<1>3. Makes(r, DnsmasqUp)
  BY <1>1 DEF Makes, DnsmasqUp
<1>4. Removes(r, <<"cached", "old">>)
  <2>1. <<"cached", "old">>[1] = "cached" /\ <<"dawos-forwarding.conf", "dnsmasq runs">>[2] = "dnsmasq runs"
    OBVIOUS
  <2>2. <<"cached", "old">> # <<"up", "dnsmasq">>
    OBVIOUS
  <2> QED BY <1>1, <2>1, <2>2 DEF Removes
<1>5. Gives(r, {DnsmasqUp}, {<<"cached", "old">>})
  BY <1>2, <1>3, <1>4 DEF Gives
<1> QED BY <1>5 DEF r

LEMMA DnsmasqThorough ==
  ASSUME NEW v
  PROVE  /\ Thorough(set_forwarders(v)) /\ Thorough(flush_cache)
         /\ Thorough(dhcp_restart) /\ Thorough(relay_restart)
         /\ Candid(set_forwarders(v)) /\ Candid(flush_cache)
         /\ Candid(dhcp_restart) /\ Candid(relay_restart)
<1>1. Thorough(set_forwarders(v)) /\ Candid(set_forwarders(v))
  <2> DEFINE a == Check({DnsmasqUp})
             b == Ignored(Assign("dawos-forwarding.conf", v))
             c == Hangup
             s == <<a, b, c>>
             away == {<<"cached", "old">>}
             facts == {<<"dawos-forwarding.conf", v>>, <<"dnsmasq runs", v>>}
  <2>1. /\ Plain(a) /\ Plain(b) /\ Plain(c) /\ b.bad = "next" /\ c.bad # "next"
        /\ Removes(c, <<"cached", "old">>)
        /\ \A f \in facts : ~Makes(a, f) /\ ~Makes(c, f)
    BY DEF Plain, Makes, Removes, Check, Assign, Ignored, Hangup, Look
  <2>2. set_forwarders(v) = Hoping(Service(s, {}, away), facts)
    BY DEF set_forwarders
  <2> HIDE DEF a, b, c, facts
  <2>3. Thorough(Service(s, {}, away))
    BY <2>1, ThoroughThree
  <2>4. \A i \in DOMAIN s : s[i].bad # "next" => \A f \in facts : ~Makes(s[i], f)
    <3>1. DOMAIN s = {1, 2, 3} /\ s[1] = a /\ s[2] = b /\ s[3] = c
      OBVIOUS
    <3> HIDE DEF s
    <3> QED BY <2>1, <3>1
  <2> HIDE DEF s, away
  <2> QED BY <2>2, <2>3, <2>4, HopingThorough, HopingCandid
<1>2. Thorough(flush_cache)
  <2> DEFINE a == Check({DnsmasqUp})
             b == Hangup
  <2>1. Plain(a) /\ Gives(b, {}, {<<"cached", "old">>})
    BY DEF Gives, Plain, Makes, Removes, Check, Hangup, Look
  <2>2. flush_cache = Service(<<a, b>>, {}, {<<"cached", "old">>})
    BY DEF flush_cache
  <2> HIDE DEF a, b
  <2> QED BY <2>1, <2>2, ThoroughLast
<1>3. Thorough(dhcp_restart)
  BY DnsmasqGives, ThoroughOne DEF dhcp_restart
<1>4. Thorough(relay_restart)
  <2>1. Gives(Reported(Add({}, {<<"up", "dhcrelay">>})), {<<"up", "dhcrelay">>}, {})
    BY DEF Gives, Plain, Makes, Removes, Reported, Add, Look
  <2> QED BY <2>1, ThoroughOne DEF relay_restart
<1>5. Candid(flush_cache) /\ Candid(dhcp_restart) /\ Candid(relay_restart)
  BY SureCandid DEF flush_cache, dhcp_restart, relay_restart, Service
<1> QED BY <1>1, <1>2, <1>3, <1>4, <1>5

LEMMA DaemonsThorough ==
  ASSUME NEW enable \in BOOLEAN
  PROVE  /\ Thorough(vrrp_failover) /\ Thorough(vrrp_restart) /\ Thorough(flow_restart)
         /\ Thorough(configure_exporter(enable)) /\ Thorough(exporter_restart)
<1>1. Thorough(vrrp_failover)
  <2> DEFINE a == Reported(Check({KeepalivedUp}))
             b == Reported(Add({KeepalivedUp}, {<<"vrrp", "signalled">>}))
  <2>1. Plain(a) /\ Gives(b, {<<"vrrp", "signalled">>}, {})
    BY DEF Gives, Plain, Makes, Removes, Reported, Check, Add, Look
  <2>2. vrrp_failover = Service(<<a, b>>, {<<"vrrp", "signalled">>}, {})
    BY DEF vrrp_failover
  <2> HIDE DEF a, b
  <2> QED BY <2>1, <2>2, ThoroughLast
<1>2. Thorough(vrrp_restart)
  <2>1. Gives(Reported([Add({}, {KeepalivedUp}) EXCEPT !.clears = {"vrrp"}]), {KeepalivedUp}, {})
    BY DEF Gives, Plain, Makes, Removes, Reported, Add, Look
  <2> QED BY <2>1, ThoroughOne DEF vrrp_restart
<1>3. Thorough(flow_restart)
  BY ThoroughNothing DEF flow_restart
<1>4. Thorough(configure_exporter(enable))
  <2>1. /\ Gives(Reported(Add({}, {Exporter, AtBoot})), {Exporter, AtBoot}, {})
        /\ Gives(Reported([Look EXCEPT !.drops = {Exporter, AtBoot}]), {}, {Exporter, AtBoot})
    BY DEF Gives, Plain, Makes, Removes, Reported, Add, Look
  <2> QED BY <2>1, ThoroughOne DEF configure_exporter
<1>5. Thorough(exporter_restart)
  <2>1. Gives(Reported(Add({}, {Exporter})), {Exporter}, {})
    BY DEF Gives, Plain, Makes, Removes, Reported, Add, Look
  <2> QED BY <2>1, ThoroughOne DEF exporter_restart
<1> QED BY <1>1, <1>2, <1>3, <1>4, <1>5

LEMMA AccelThorough ==
  ASSUME NEW mode, NEW action
  PROVE  /\ Thorough(initiate_shutdown(mode)) /\ Thorough(cancel_shutdown)
         /\ Thorough(service_action(action)) /\ Thorough(mac_filter(action))
<1> DEFINE a == Ignored(AccelCmd(Look))
<1>1. /\ Plain(a)
      /\ Gives(AccelCmd(Add({}, {Draining})), {Draining}, {})
      /\ Gives(AccelCmd(Delete(AccelUp, {"accel-ppp"})), {}, {AccelUp})
      /\ Gives(AccelCmd([Look EXCEPT !.drops = {Draining}]), {}, {Draining})
  BY DEF Gives, Plain, Makes, Removes, Ignored, AccelCmd, Add, Delete, Look
<1> HIDE DEF a
<1>2. Thorough(initiate_shutdown(mode))
  <2>1. CASE mode = "soft"
    BY <1>1, <2>1, ThoroughLast DEF initiate_shutdown, a
  <2>2. CASE mode # "soft"
    BY <1>1, <2>2, ThoroughLast DEF initiate_shutdown, a
  <2> QED BY <2>1, <2>2
<1>3. Thorough(cancel_shutdown)
  BY <1>1, ThoroughLast DEF cancel_shutdown, a
<1>4. Thorough(service_action(action))
  <2> DEFINE stop  == [Look EXCEPT !.clears = {"accel-ppp"}, !.drops = {AccelUp}]
             start == [Add({}, {AccelUp}) EXCEPT
                         !.clears = IF action = "restart" THEN {"accel-ppp"} ELSE {}]
  <2>1. Gives(stop, {}, {AccelUp}) /\ Gives(start, {AccelUp}, {})
    BY DEF Gives, Plain, Makes, Removes, Add, Look
  <2>2. CASE action = "reload"
    BY <2>2, ThoroughNothing DEF service_action
  <2>3. CASE action = "stop"
    <3>1. service_action(action) = Service(<<stop>>, {}, {AccelUp})
      BY <2>3 DEF service_action
    <3> QED BY <2>1, <3>1, ThoroughOne
  <2>4. CASE action \notin {"reload", "stop"}
    <3>1. service_action(action) = Service(<<start>>, {AccelUp}, {})
      BY <2>4 DEF service_action
    <3> QED BY <2>1, <3>1, ThoroughOne
  <2> QED BY <2>2, <2>3, <2>4
<1>5. Thorough(mac_filter(action))
  <2>1. /\ Gives(AccelCmd(Add({}, {Filtered})), {Filtered}, {})
        /\ Gives(AccelCmd([Look EXCEPT !.drops = {Filtered}]), {}, {Filtered})
    BY DEF Gives, Plain, Makes, Removes, AccelCmd, Add, Look
  <2> QED BY <2>1, ThoroughOne DEF mac_filter
<1> QED BY <1>2, <1>3, <1>4, <1>5

\* Each service of the agent, whatever the settings, the links and the
\* interface parts it is called with, looks at the exit codes that the goals
\* it is sure of rest on: each is the work of a command whose failure raises
\* or is reported, and no later command undoes it.  The goals listed as
\* unsure are rightly so: no such command stands behind them.
THEOREM ServicesAreThorough == \A q \in HostRequests : Thorough(q) /\ Candid(q)
<1>1. \A q \in FirewallRequests : Thorough(q) /\ Candid(q)
  <2>1. \A q \in {set_sysctl(a, b) : a \in Levels, b \in Levels} : Thorough(q) /\ Candid(q)
    <3>1. \A a, b : Thorough(set_sysctl(a, b)) /\ Candid(set_sysctl(a, b))
      BY SetSysctlThorough, Zenon
    <3> QED BY <3>1
  <2>2. \A q \in {create_group(t, e) : t \in GroupTypes, e \in BOOLEAN} : Thorough(q) /\ Candid(q)
    <3>1. \A t, e : create_group(t, e).unsure = {}
      BY DEF create_group, Service
    <3> QED BY <3>1, GroupsThorough, SureCandid
  <2>3. /\ \A q \in {setup_masquerade(l) : l \in Links} : Thorough(q) /\ Candid(q)
        /\ Thorough(remove_masquerade) /\ Candid(remove_masquerade)
    BY MasqueradeThorough
  <2>4. Thorough(save_ruleset) /\ Candid(save_ruleset)
    BY ThoroughNothing, SureCandid DEF save_ruleset, Service
  <2>5. /\ \A q \in {delete_group(t) : t \in GroupTypes} : Thorough(q) /\ Candid(q)
        /\ \A q \in {add_members(t) : t \in GroupTypes} : Thorough(q) /\ Candid(q)
    <3>1. \A t : delete_group(t).unsure = {} /\ add_members(t).unsure = {}
      BY DEF delete_group, add_members, Service
    <3> QED BY <3>1, GroupsThorough, SureCandid
  <2> QED BY <2>1, <2>2, <2>3, <2>4, <2>5, ZonesThorough DEF FirewallRequests
<1>2. \A q \in TrackingRequests : Thorough(q) /\ Candid(q)
  BY TrackingThorough DEF TrackingRequests
<1>3. \A q \in NetworkRequests : Thorough(q) /\ Candid(q)
  <2>1. \A q \in {set_dns(v, l) : v \in Levels, l \in BOOLEAN} : Thorough(q) /\ Candid(q)
    BY ResolverThorough
  <2>2. /\ \A q \in {create_vlan(a) : a \in BOOLEAN} : Thorough(q)
        /\ \A q \in {set_vlan_state(s) : s \in {"up", "down"}} : Thorough(q)
        /\ Thorough(delete_vlan)
    BY VlansThorough
  <2>3. /\ \A parts : configure_interface(parts).unsure = {}
        /\ \A a : create_vlan(a).unsure = {} /\ set_vlan_state(a).unsure = {}
        /\ delete_vlan.unsure = {} /\ add_route.unsure = {} /\ delete_route.unsure = {}
    BY DEF configure_interface, create_vlan, set_vlan_state, delete_vlan, add_route,
           delete_route, Service
  <2> QED BY <2>1, <2>2, <2>3, InterfaceThorough, RoutesThorough, SureCandid DEF NetworkRequests
<1>4. \A q \in DaemonRequests : Thorough(q) /\ Candid(q)
  <2>1. /\ \A e : configure_exporter(e).unsure = {}
        /\ vrrp_failover.unsure = {} /\ vrrp_restart.unsure = {} /\ flow_restart.unsure = {}
        /\ exporter_restart.unsure = {}
    BY DEF configure_exporter, vrrp_failover, vrrp_restart, flow_restart, exporter_restart, Service
  <2> QED BY <2>1, DnsmasqThorough, DaemonsThorough, SureCandid DEF DaemonRequests
<1>5. \A q \in AccelRequests : Thorough(q) /\ Candid(q)
  <2>1. /\ \A m : initiate_shutdown(m).unsure = {} /\ mac_filter(m).unsure = {}
        /\ \A a : service_action(a).unsure = {}
        /\ cancel_shutdown.unsure = {}
    BY DEF initiate_shutdown, mac_filter, service_action, cancel_shutdown, Service
  <2> QED BY <2>1, AccelThorough, SureCandid DEF AccelRequests
<1> QED BY <1>1, <1>2, <1>3, <1>4, <1>5 DEF HostRequests

-----------------------------------------------------------------------------
(* Requests made again.  A service can be resumed when what its commands   *)
(* need is not used up by the commands themselves.                         *)

\* A command that has no part in a fact.
Untouched(c, f) == Keeps(c, f) /\ StaysAway(c, f)

\* What the command at i needs, a command before it has made.
Supplied(s, f, i) ==
  \E k \in 1..(i - 1) : /\ s[k].bad # "next" /\ Makes(s[k], f)
                        /\ \A j \in (k + 1)..(i - 1) : Keeps(s[j], f)

\* Every command that must succeed finds what it found the first time,
\* wherever the service was cut short.
Repeatable(s) ==
  /\ Plainly(s)
  /\ \A i \in DOMAIN s : s[i].bad # "next" =>
       /\ \A f \in s[i].needs : Supplied(s, f, i) \/ \A j \in DOMAIN s : Untouched(s[j], f)
       /\ \A f \in s[i].clash : \A j \in DOMAIN s : Untouched(s[j], f)

\* The last command does it all.
Changeless(c) == c.clears = {} /\ c.drops = {} /\ c.adds = {} /\ c.loads = {}
InOneStep(q) ==
  LET s == q.does
  IN  /\ Plainly(s) /\ s # << >>
      /\ \A i \in DOMAIN s : i # Len(s) => Changeless(s[i])
      /\ \A f \in Sure(q) : Makes(s[Len(s)], f)
      /\ \A f \in q.gone : Removes(s[Len(s)], f)

Aims(q) == Sure(q) \cup q.gone
Resumable(q) == Aims(q) = {} \/ Repeatable(q.does) \/ InOneStep(q)

LEMMA UntouchedStays ==
  ASSUME NEW c, NEW F, NEW f, Untouched(c, f)
  PROVE  f \in Obeyed(c, F) <=> f \in F
BY ObeyedFacts DEF Untouched

LEMMA ChangesNothing ==
  ASSUME NEW c, NEW F, Changeless(c)
  PROVE  Obeyed(c, F) = F
<1>1. ASSUME NEW f PROVE f \in Obeyed(c, F) <=> f \in F
  <2>1. Keeps(c, f) /\ StaysAway(c, f)
    BY DEF Changeless, Keeps, StaysAway
  <2> QED BY <2>1, ObeyedFacts
<1> HIDE DEF Obeyed
<1> QED BY <1>1

\* The facts a replay comes by, a command at a time.
ReplayOf(r, s, F) ==
  /\ r[0] = [facts |-> F, skips |-> FALSE, answer |-> "none"]
  /\ \A i \in 1..Len(s) : r[i] = ReplayStep(r[i - 1], s[i])

LEMMA ReplayTrace ==
  ASSUME NEW q, Plainly(q.does), NEW F
  PROVE  \E r : ReplayOf(r, q.does, F) /\ Replay(F, q) = r[Len(q.does)]
<1> DEFINE s == q.does
           n == Len(s)
           C == {s[i] : i \in DOMAIN s}
           G == F \cup UNION {c.adds : c \in C}
           V == {g[2] : g \in G}
           K == {l[2] : l \in UNION {c.loads : c \in C}}
           U == G \cup (K \X V)
           X == [facts : SUBSET U, skips : BOOLEAN, answer : {"none", "error", "success"}]
           base == [facts |-> F, skips |-> FALSE, answer |-> "none"]
<1>1. n \in Nat /\ DOMAIN s = 1..n
  BY PlainElements
<1>2. \A f \in U : f[2] \in V
  <2> HIDE DEF G
  <2>1. \A f \in G : f[2] \in V
    OBVIOUS
  <2> HIDE DEF V, K
  <2>2. \A f \in K \X V : f[2] \in V
    OBVIOUS
  <2> QED BY <2>1, <2>2
<1>3. ASSUME NEW c \in C, NEW H \in SUBSET U PROVE Obeyed(c, H) \in SUBSET U
  <2> DEFINE Loaded == UNION {{<<load[2], g[2]>> : g \in {k \in H : k[1] = load[1]}} : load \in c.loads}
  <2>1. ASSUME NEW f \in Loaded PROVE f \in U
    <3>1. PICK load \in c.loads : f \in {<<load[2], g[2]>> : g \in {k \in H : k[1] = load[1]}}
      BY <2>1
    <3>2. PICK g \in H : f = <<load[2], g[2]>>
      BY <3>1
    <3>3. load[2] \in K
      OBVIOUS
    <3>4. g[2] \in V
      <4> HIDE DEF U, V
      <4> QED BY <1>2
    <3> HIDE DEF K, V
    <3> QED BY <3>2, <3>3, <3>4
  <2>2. c.adds \subseteq U
    OBVIOUS
  <2>3. Obeyed(c, H) = {f \in H : f[1] \notin c.clears /\ f \notin c.drops} \cup c.adds \cup Loaded
    BY DEF Obeyed
  <2> HIDE DEF U, Loaded
  <2> QED BY <2>1, <2>2, <2>3
<1>4. base \in X
  OBVIOUS
<1> HIDE DEF U
<1>5. ASSUME NEW x \in X, NEW c \in C PROVE ReplayStep(x, c) \in X
  <2> HIDE DEF C
  <2>1. x.facts \in SUBSET U /\ x.skips \in BOOLEAN /\ x.answer \in {"none", "error", "success"}
    OBVIOUS
  <2>2. Obeyed(c, x.facts) \in SUBSET U
    BY <1>3, <2>1
  <2>3. [x EXCEPT !.skips = FALSE] \in X
    OBVIOUS
  <2> QED BY <2>1, <2>2, <2>3 DEF ReplayStep
<1> DEFINE M == [p \in X \X (1..n) |-> ReplayStep(p[1], s[p[2]])]
           Eq(it) == it = [t \in SUBSET DOMAIN s |->
                             IF t = {} THEN base
                             ELSE ReplayStep(it[t \ {Max(t)}], s[Max(t)])]
           it == CHOOSE it : Eq(it)
           r == [i \in 0..n |-> it[1..i]]
<1>6. \A i \in 1..n : s[i] \in C
  BY <1>1
<1> HIDE DEF X, C
<1>7. M \in [X \X (1..n) -> X] /\ \A x \in X, i \in 1..n : M[<<x, i>>] = ReplayStep(x, s[i])
  BY <1>5, <1>6
<1> HIDE DEF base
<1>8. \E iter : Eq(iter)
  <2>1. PICK iter : IsFold(iter, n, X, base, M)
    <3> HIDE DEF M, n
    <3> QED BY <1>1, <1>4, <1>7, FoldExists
  <2>2. iter = [t \in SUBSET (1..n) |->
                  IF t = {} THEN base ELSE ReplayStep(iter[t \ {Max(t)}], s[Max(t)])]
    <3> HIDE DEF M, n
    <3> QED BY <1>7, <2>1 DEF IsFold
  <2> QED BY <1>1, <2>2
<1>9. Eq(it)
  <2> HIDE DEF Eq
  <2> QED BY <1>8
<1>10. Replay(F, q) = it[DOMAIN s]
  BY DEF Replay, FoldLeft, MapThenFoldSet, base
<1>11. it = [t \in SUBSET (1..n) |->
               IF t = {} THEN base ELSE ReplayStep(it[t \ {Max(t)}], s[Max(t)])]
  BY <1>1, <1>9
<1> HIDE DEF it, n
<1>12. r[0] = base /\ r[n] = it[1..n]
  BY <1>1, <1>11, UpTo
<1>13. ASSUME NEW i \in 1..n PROVE r[i] = ReplayStep(r[i - 1], s[i])
  <2>1. /\ 1..i \in SUBSET (1..n) /\ 1..i # {} /\ Max(1..i) = i
        /\ (1..i) \ {i} = 1..(i - 1) /\ i \in 0..n /\ i - 1 \in 0..n
    BY <1>1, UpTo
  <2>2. it[1..i] = ReplayStep(it[1..(i - 1)], s[i])
    BY <1>11, <2>1
  <2> QED BY <2>1, <2>2
<1> HIDE DEF r
<1> QED BY <1>1, <1>10, <1>12, <1>13 DEF ReplayOf, base, n

\* A replay goes on as long as every command that must succeed does.
Follows(y, x, c) ==
  /\ y.skips = FALSE /\ y.answer \in {"none", "error"}
  /\ y.answer = "none" <=> x.answer = "none" /\ (Possible(c, x.facts) \/ c.bad = "next")
  /\ y.answer = "none" =>
       y.facts = IF Possible(c, x.facts) THEN Obeyed(c, x.facts) ELSE x.facts

Goes(r, s, i) == Follows(r[i], r[i - 1], s[i])

LEMMA StepFollows ==
  ASSUME NEW x, NEW c, Plain(c), x.skips = FALSE, x.answer \in {"none", "error"}
  PROVE  Follows(ReplayStep(x, c), x, c)
<1> DEFINE y == ReplayStep(x, c)
           ok == Possible(c, x.facts)
           v == Verdict(c, ok)
           facts == IF ok THEN Obeyed(c, x.facts) ELSE x.facts
           ends == CASE v \in {"raises", "reports"} -> "error"
                     [] v = "done" -> "success" [] OTHER -> "none"
<1>1. CASE x.answer = "error"
  <2>1. y = x
    BY <1>1 DEF ReplayStep
  <2> QED BY <1>1, <2>1 DEF Follows
<1>2. CASE x.answer = "none"
  <2>1. y = [facts |-> facts, skips |-> v = "skip", answer |-> ends]
    BY <1>2 DEF ReplayStep
  <2>2. v \in {"next", "raises", "reports"} /\ (v = "next" <=> ok \/ c.bad = "next")
    BY DEF Plain, Verdict
  <2>3. ends = IF v = "next" THEN "none" ELSE "error"
    <3> HIDE DEF v
    <3> QED BY <2>2
  <2> HIDE DEF v, ends, facts
  <2>4. y.facts = facts /\ y.answer = ends /\ y.skips = (v = "skip")
    BY <2>1
  <2>5. y.skips = FALSE
    BY <2>2, <2>4
  <2> HIDE DEF y, ok
  <2>6. y.answer \in {"none", "error"} /\ (y.answer = "none" <=> ok \/ c.bad = "next")
    BY <2>2, <2>3, <2>4
  <2>7. Follows(y, x, c)
    BY <1>2, <2>4, <2>5, <2>6 DEF Follows, ok, facts
  <2> QED BY <2>7 DEF y
<1> QED BY <1>1, <1>2

LEMMA ReplayGoes ==
  ASSUME NEW s, Plainly(s), NEW F, NEW r, ReplayOf(r, s, F)
  PROVE  /\ r[0].answer = "none" /\ r[0].facts = F
         /\ \A i \in 1..Len(s) : Goes(r, s, i)
<1> DEFINE n == Len(s)
           Fine(i) == r[i].skips = FALSE /\ r[i].answer \in {"none", "error"}
           T == {i \in Nat : i <= n => Fine(i)}
<1>1. n \in Nat /\ \A i \in 1..n : Plain(s[i])
  BY PlainElements
<1>2. /\ r[0] = [facts |-> F, skips |-> FALSE, answer |-> "none"]
      /\ \A i \in 1..n : r[i] = ReplayStep(r[i - 1], s[i])
  BY DEF ReplayOf
<1>3. 0 \in T
  <2>1. r[0].skips = FALSE /\ r[0].answer = "none"
    BY <1>2
  <2> QED BY <2>1
<1>4. ASSUME NEW i \in 1..n, Fine(i - 1) PROVE Goes(r, s, i) /\ Fine(i)
  <2>1. Follows(ReplayStep(r[i - 1], s[i]), r[i - 1], s[i])
    BY <1>1, <1>4, StepFollows
  <2>2. Follows(r[i], r[i - 1], s[i])
    BY <1>2, <2>1
  <2> QED BY <2>2 DEF Goes, Follows
<1> HIDE DEF Fine
<1>5. ASSUME NEW i \in Nat, i \in T PROVE i + 1 \in T
  <2>1. ASSUME i + 1 <= n PROVE Fine(i + 1)
    <3>1. i + 1 \in 1..n /\ (i + 1) - 1 = i /\ i <= n
      BY <1>1, <2>1
    <3>2. Fine(i)
      BY <1>5, <3>1
    <3> QED BY <1>4, <3>1, <3>2
  <2>2. i + 1 \in Nat
    OBVIOUS
  <2> QED BY <2>1, <2>2
<1>6. Nat \subseteq T
  <2> HIDE DEF T
  <2> QED BY <1>3, <1>5, SetInduction
<1>7. ASSUME NEW i \in 1..n PROVE Goes(r, s, i)
  <2>1. i - 1 \in Nat /\ i - 1 <= n
    BY <1>1
  <2>2. Fine(i - 1)
    BY <1>6, <2>1
  <2> QED BY <1>4, <2>2
<1>8. r[0].answer = "none" /\ r[0].facts = F
  BY <1>2
<1> QED BY <1>7, <1>8

\* A replay that has not failed by a command had not failed before.
LEMMA GoesBefore ==
  ASSUME NEW s, Plainly(s), NEW r, \A i \in 1..Len(s) : Goes(r, s, i),
         NEW m \in 0..Len(s), r[m].answer = "none"
  PROVE  \A i \in 0..m : r[i].answer = "none"
<1> DEFINE T == {k \in Nat : k <= m => r[m - k].answer = "none"}
<1>0. Len(s) \in Nat
  BY PlainElements
<1>1. 0 \in T
  <2>1. m - 0 = m
    BY <1>0
  <2> QED BY <2>1
<1>2. ASSUME NEW k \in Nat, k \in T PROVE k + 1 \in T
  <2>1. ASSUME k + 1 <= m PROVE r[m - (k + 1)].answer = "none"
    <3> DEFINE j == m - k
    <3>1. j \in 1..Len(s) /\ j - 1 = m - (k + 1) /\ k <= m
      BY <1>0, <2>1
    <3>2. r[j].answer = "none"
      BY <1>2, <3>1
    <3> HIDE DEF j
    <3>3. r[j - 1].answer = "none"
      BY <3>1, <3>2 DEF Goes, Follows
    <3> QED BY <3>1, <3>3
  <2>2. k + 1 \in Nat
    OBVIOUS
  <2> QED BY <2>1, <2>2
<1>3. Nat \subseteq T
  <2> HIDE DEF T
  <2> QED BY <1>1, <1>2, SetInduction
<1>4. ASSUME NEW i \in 0..m PROVE r[i].answer = "none"
  <2>1. m - i \in Nat /\ m - i <= m /\ m - (m - i) = i
    BY <1>0
  <2> QED BY <1>3, <2>1
<1> QED BY <1>4

\* What the commands from k to m keep, and what they keep away.
LEMMA FactsCarried ==
  ASSUME NEW s, Plainly(s), NEW r, \A i \in 1..Len(s) : Goes(r, s, i),
         NEW m \in 0..Len(s), r[m].answer = "none", NEW k \in 0..m, NEW f
  PROVE  /\ f \in r[k].facts /\ (\A j \in (k + 1)..m : Keeps(s[j], f)) => f \in r[m].facts
         /\ f \notin r[k].facts /\ (\A j \in (k + 1)..m : StaysAway(s[j], f)) => f \notin r[m].facts
<1>0. Len(s) \in Nat /\ \A i \in 0..m : r[i].answer = "none"
  BY PlainElements, GoesBefore
<1>1. ASSUME NEW i \in Nat, k <= i, i + 1 <= m
      PROVE  /\ Keeps(s[i + 1], f) /\ f \in r[i].facts => f \in r[i + 1].facts
             /\ StaysAway(s[i + 1], f) /\ f \notin r[i].facts => f \notin r[i + 1].facts
  <2> DEFINE c == s[i + 1]
  <2>1. i + 1 \in 1..Len(s) /\ (i + 1) - 1 = i /\ i + 1 \in 0..m
    BY <1>0, <1>1
  <2>2. r[i + 1].facts = IF Possible(c, r[i].facts) THEN Obeyed(c, r[i].facts) ELSE r[i].facts
    BY <1>0, <2>1 DEF Goes, Follows
  <2> HIDE DEF c
  <2>3. /\ Keeps(c, f) /\ f \in r[i].facts => f \in Obeyed(c, r[i].facts)
        /\ StaysAway(c, f) /\ f \notin r[i].facts => f \notin Obeyed(c, r[i].facts)
    BY ObeyedFacts
  <2> QED BY <2>2, <2>3 DEF c
<1>2. ASSUME f \in r[k].facts, \A j \in (k + 1)..m : Keeps(s[j], f) PROVE f \in r[m].facts
  <2> DEFINE T == {i \in Nat : k + i <= m => f \in r[k + i].facts}
  <2>1. 0 \in T
    <3>1. k + 0 = k
      BY <1>0
    <3> QED BY <1>2, <3>1
  <2>2. ASSUME NEW i \in Nat, i \in T PROVE i + 1 \in T
    <3>1. ASSUME k + (i + 1) <= m PROVE f \in r[k + (i + 1)].facts
      <4> DEFINE j == k + i
      <4>1. j \in Nat /\ k <= j /\ j + 1 <= m /\ j + 1 = k + (i + 1) /\ j + 1 \in (k + 1)..m
        BY <1>0, <3>1
      <4>2. f \in r[j].facts
        BY <1>0, <2>2, <3>1
      <4> HIDE DEF j
      <4> QED BY <1>1, <1>2, <4>1, <4>2
    <3> QED BY <3>1
  <2>3. Nat \subseteq T
    <3> HIDE DEF T
    <3> QED BY <2>1, <2>2, SetInduction
  <2>4. m - k \in Nat /\ k + (m - k) = m /\ m <= m
    BY <1>0
  <2> QED BY <2>3, <2>4
<1>3. ASSUME f \notin r[k].facts, \A j \in (k + 1)..m : StaysAway(s[j], f) PROVE f \notin r[m].facts
  <2> DEFINE T == {i \in Nat : k + i <= m => f \notin r[k + i].facts}
  <2>1. 0 \in T
    <3>1. k + 0 = k
      BY <1>0
    <3> QED BY <1>3, <3>1
  <2>2. ASSUME NEW i \in Nat, i \in T PROVE i + 1 \in T
    <3>1. ASSUME k + (i + 1) <= m PROVE f \notin r[k + (i + 1)].facts
      <4> DEFINE j == k + i
      <4>1. j \in Nat /\ k <= j /\ j + 1 <= m /\ j + 1 = k + (i + 1) /\ j + 1 \in (k + 1)..m
        BY <1>0, <3>1
      <4>2. f \notin r[j].facts
        BY <1>0, <2>2, <3>1
      <4> HIDE DEF j
      <4> QED BY <1>1, <1>3, <4>1, <4>2
    <3> QED BY <3>1
  <2>3. Nat \subseteq T
    <3> HIDE DEF T
    <3> QED BY <2>1, <2>2, SetInduction
  <2>4. m - k \in Nat /\ k + (m - k) = m /\ m <= m
    BY <1>0
  <2> QED BY <2>3, <2>4
<1> QED BY <1>2, <1>3

\* A host on which a repeatable service finds what it needs.
Stocked(s, F) ==
  \A i \in DOMAIN s : s[i].bad # "next" =>
    /\ \A f \in s[i].needs : Supplied(s, f, i) \/ f \in F
    /\ \A f \in s[i].clash : f \notin F

LEMMA StockedRuns ==
  ASSUME NEW q, Repeatable(q.does), NEW F, Stocked(q.does, F)
  PROVE  Replay(F, q).answer # "error"
<1> DEFINE s == q.does
           n == Len(s)
<1>1. Plainly(s) /\ n \in Nat /\ DOMAIN s = 1..n
  BY PlainElements DEF Repeatable
<1>2. PICK r : ReplayOf(r, s, F) /\ Replay(F, q) = r[n]
  BY <1>1, ReplayTrace
<1>3. /\ r[0].answer = "none" /\ r[0].facts = F
      /\ \A i \in 1..n : Goes(r, s, i)
  BY <1>1, <1>2, ReplayGoes
<1>4. ASSUME NEW i \in 1..n, r[i - 1].answer = "none", s[i].bad # "next"
      PROVE  Possible(s[i], r[i - 1].facts)
  <2>0. i - 1 \in 0..n /\ i \in DOMAIN s /\ 0 \in 0..(i - 1)
    BY <1>1
  <2>1. \A j \in 1..(i - 1) : j \in 1..n /\ j \in DOMAIN s
    BY <1>1
  <2>2. ASSUME NEW f, \A j \in DOMAIN s : Untouched(s[j], f)
        PROVE  f \in r[i - 1].facts <=> f \in F
    <3>1. \A j \in (0 + 1)..(i - 1) : Keeps(s[j], f) /\ StaysAway(s[j], f)
      BY <2>1, <2>2 DEF Untouched
    <3> QED BY <1>1, <1>3, <1>4, <2>0, <3>1, FactsCarried
  <2>3. ASSUME NEW f \in s[i].needs PROVE f \in r[i - 1].facts
    <3>1. CASE Supplied(s, f, i)
      <4>1. PICK k \in 1..(i - 1) : /\ s[k].bad # "next" /\ Makes(s[k], f)
                                    /\ \A j \in (k + 1)..(i - 1) : Keeps(s[j], f)
        BY <3>1 DEF Supplied
      <4>2. k \in 1..n /\ k \in 0..(i - 1) /\ r[k].answer = "none"
        <5>1. k \in 1..n /\ k \in 0..(i - 1)
          BY <1>1
        <5> QED BY <1>1, <1>3, <1>4, <2>0, <5>1, GoesBefore
      <4>3. r[k].facts = Obeyed(s[k], r[k - 1].facts)
        BY <1>3, <4>1, <4>2 DEF Goes, Follows
      <4>4. f \in r[k].facts
        BY <4>1, <4>3, ObeyedFacts
      <4> QED BY <1>1, <1>3, <1>4, <2>0, <4>1, <4>2, <4>4, FactsCarried
    <3>2. CASE ~Supplied(s, f, i)
      <4>1. f \in F /\ \A j \in DOMAIN s : Untouched(s[j], f)
        BY <1>4, <2>0, <3>2 DEF Stocked, Repeatable
      <4> QED BY <2>2, <4>1
    <3> QED BY <3>1, <3>2
  <2>4. ASSUME NEW f \in s[i].clash PROVE f \notin r[i - 1].facts
    <3>1. f \notin F /\ \A j \in DOMAIN s : Untouched(s[j], f)
      BY <1>4, <2>0 DEF Stocked, Repeatable
    <3> QED BY <2>2, <3>1
  <2> QED BY <2>3, <2>4 DEF Possible
<1> DEFINE T == {i \in Nat : i <= n => r[i].answer = "none"}
<1>5. ASSUME NEW i \in Nat, i \in T PROVE i + 1 \in T
  <2>1. ASSUME i + 1 <= n PROVE r[i + 1].answer = "none"
    <3>1. i + 1 \in 1..n /\ (i + 1) - 1 = i /\ i <= n
      BY <1>1, <2>1
    <3>2. r[(i + 1) - 1].answer = "none"
      BY <1>5, <3>1
    <3>3. Possible(s[i + 1], r[(i + 1) - 1].facts) \/ s[i + 1].bad = "next"
      BY <1>4, <3>1, <3>2
    <3> QED BY <1>3, <3>1, <3>2, <3>3 DEF Goes, Follows
  <2>2. i + 1 \in Nat
    OBVIOUS
  <2> QED BY <2>1, <2>2
<1>6. Nat \subseteq T
  <2>1. 0 \in T
    BY <1>3
  <2> HIDE DEF T
  <2> QED BY <1>5, <2>1, SetInduction
<1>7. r[n].answer = "none"
  BY <1>1, <1>6
<1> QED BY <1>2, <1>7

LEMMA RunsStocked ==
  ASSUME NEW q, Repeatable(q.does), NEW F, Replay(F, q).answer # "error"
  PROVE  Stocked(q.does, F)
<1> DEFINE s == q.does
           n == Len(s)
<1>1. Plainly(s) /\ n \in Nat /\ DOMAIN s = 1..n
  BY PlainElements DEF Repeatable
<1>2. PICK r : ReplayOf(r, s, F) /\ Replay(F, q) = r[n]
  BY <1>1, ReplayTrace
<1>3. /\ r[0].answer = "none" /\ r[0].facts = F
      /\ \A i \in 1..n : Goes(r, s, i)
  BY <1>1, <1>2, ReplayGoes
<1>4. r[n].answer = "none" /\ n \in 0..n
  <2>1. n = 0 \/ n \in 1..n
    BY <1>1
  <2> QED BY <1>1, <1>2, <1>3, <2>1 DEF Goes, Follows
<1>5. \A i \in 0..n : r[i].answer = "none"
  BY <1>1, <1>3, <1>4, GoesBefore
<1> SUFFICES ASSUME NEW i \in DOMAIN s, s[i].bad # "next"
             PROVE  /\ \A f \in s[i].needs : Supplied(s, f, i) \/ f \in F
                    /\ \A f \in s[i].clash : f \notin F
  BY DEF Stocked
<1>6. i \in 1..n /\ i - 1 \in 0..n /\ 0 \in 0..(i - 1)
  BY <1>1
<1>7. Possible(s[i], r[i - 1].facts)
  <2>1. r[i].answer = "none"
    BY <1>5, <1>6
  <2> QED BY <1>3, <1>6, <2>1 DEF Goes, Follows
<1>8. ASSUME NEW f, \A j \in DOMAIN s : Untouched(s[j], f)
      PROVE  f \in r[i - 1].facts <=> f \in F
  <2>1. \A j \in (0 + 1)..(i - 1) : Keeps(s[j], f) /\ StaysAway(s[j], f)
    BY <1>1, <1>8 DEF Untouched
  <2>2. r[i - 1].answer = "none"
    BY <1>5, <1>6
  <2> QED BY <1>1, <1>3, <1>6, <2>1, <2>2, FactsCarried
<1>9. ASSUME NEW f \in s[i].needs, ~Supplied(s, f, i) PROVE f \in F
  <2>1. \A j \in DOMAIN s : Untouched(s[j], f)
    BY <1>9 DEF Repeatable
  <2> QED BY <1>7, <1>8, <2>1 DEF Possible
<1>10. ASSUME NEW f \in s[i].clash PROVE f \notin F
  <2>1. \A j \in DOMAIN s : Untouched(s[j], f)
    BY DEF Repeatable
  <2> QED BY <1>7, <1>8, <2>1 DEF Possible
<1> QED BY <1>9, <1>10

\* A service that gets through on its own gets its goals.
LEMMA RunsReach ==
  ASSUME NEW q, Plainly(q.does), Thorough(q), NEW F, Replay(F, q).answer # "error"
  PROVE  Reached(q, Replay(F, q).facts)
<1> DEFINE s == q.does
           n == Len(s)
<1>1. n \in Nat /\ DOMAIN s = 1..n
  BY PlainElements
<1>2. PICK r : ReplayOf(r, s, F) /\ Replay(F, q) = r[n]
  BY ReplayTrace
<1>3. /\ r[0].answer = "none" /\ r[0].facts = F
      /\ \A i \in 1..n : Goes(r, s, i)
  BY <1>1, <1>2, ReplayGoes
<1>4. r[n].answer = "none" /\ n \in 0..n
  <2>1. n = 0 \/ n \in 1..n
    BY <1>1
  <2> QED BY <1>1, <1>2, <1>3, <2>1 DEF Goes, Follows
<1>5. ASSUME NEW i \in DOMAIN s, Noticed(q, i)
      PROVE  i \in 1..n /\ i \in 0..n /\ r[i].facts = Obeyed(s[i], r[i - 1].facts)
             /\ \A j \in (i + 1)..n : j \in DOMAIN s /\ j > i
  <2>1. i \in 1..n /\ i \in 0..n /\ s[i].bad # "next"
    BY <1>1, <1>5 DEF Noticed
  <2>2. r[i].answer = "none"
    BY <1>1, <1>3, <1>4, <2>1, GoesBefore
  <2>3. \A j \in (i + 1)..n : j \in DOMAIN s /\ j > i
    BY <1>1
  <2> QED BY <1>3, <2>1, <2>2, <2>3 DEF Goes, Follows
<1>6. ASSUME NEW f \in Sure(q) PROVE f \in r[n].facts
  <2>1. PICK i \in DOMAIN s : Noticed(q, i) /\ Ensures(q, f, i)
    BY DEF Thorough
  <2>2. Makes(s[i], f) /\ \A j \in (i + 1)..n : Keeps(s[j], f)
    BY <1>5, <2>1 DEF Ensures
  <2>3. f \in r[i].facts
    BY <1>5, <2>1, <2>2, ObeyedFacts
  <2>4. i \in 0..n
    BY <1>5, <2>1
  <2> QED BY <1>1, <1>3, <1>4, <2>2, <2>3, <2>4, FactsCarried
<1>7. ASSUME NEW f \in q.gone PROVE f \notin r[n].facts
  <2>1. PICK i \in DOMAIN s : Noticed(q, i) /\ Prevents(q, f, i)
    BY DEF Thorough
  <2>2. Removes(s[i], f) /\ \A j \in (i + 1)..n : StaysAway(s[j], f)
    BY <1>5, <2>1 DEF Prevents
  <2>3. f \notin r[i].facts
    BY <1>5, <2>1, <2>2, ObeyedFacts
  <2>4. i \in 0..n
    BY <1>5, <2>1
  <2> QED BY <1>1, <1>3, <1>4, <2>2, <2>3, <2>4, FactsCarried
<1>8. Sure(q) \subseteq r[n].facts /\ q.gone \cap r[n].facts = {}
  BY <1>6, <1>7
<1> QED BY <1>2, <1>8 DEF Reached

\* What the invariant says of a request that is done, and of one under way
\* that nothing has disturbed and that could have succeeded.
Healed(q, F) ==
  Reached(q, F) \/ (Replay(F, q).answer # "error" /\ Reached(q, Replay(F, q).facts))

Ready(q, F) ==
  \/ Aims(q) = {}
  \/ Repeatable(q.does) /\ Stocked(q.does, F)
  \/ InOneStep(q) /\ Replay(F, q).answer # "error"

LEMMA ReadyAtFirst ==
  ASSUME NEW q, Resumable(q), NEW F, Replay(F, q).answer # "error"
  PROVE  Ready(q, F)
BY RunsStocked DEF Ready, Resumable

LEMMA ReadyHeals ==
  ASSUME NEW q, Thorough(q), NEW F, Ready(q, F)
  PROVE  Healed(q, F)
<1>1. CASE Aims(q) = {}
  BY <1>1 DEF Healed, Reached, Aims
<1>2. CASE Repeatable(q.does) /\ Stocked(q.does, F)
  <2>1. Replay(F, q).answer # "error" /\ Plainly(q.does)
    BY <1>2, StockedRuns DEF Repeatable
  <2> QED BY <2>1, RunsReach DEF Healed
<1>3. CASE InOneStep(q) /\ Replay(F, q).answer # "error"
  BY <1>3, RunsReach DEF Healed, InOneStep
<1> QED BY <1>1, <1>2, <1>3 DEF Ready

\* A command leaves its service ready, or has brought about all it is for.
LEMMA ReadyAfter ==
  ASSUME NEW q, NEW F, Ready(q, F), NEW i \in DOMAIN q.does
  PROVE  /\ Ready(q, Obeyed(q.does[i], F)) \/ Reached(q, Obeyed(q.does[i], F))
         /\ i # Len(q.does) => Ready(q, Obeyed(q.does[i], F))
<1> DEFINE c == q.does[i]
           G == Obeyed(c, F)
<1>1. CASE Aims(q) = {}
  BY <1>1 DEF Ready
<1>2. CASE Repeatable(q.does) /\ Stocked(q.does, F)
  <2>1. \A f : Untouched(c, f) => (f \in G <=> f \in F)
    BY UntouchedStays
  <2> HIDE DEF G
  <2>2. Stocked(q.does, G)
    <3> SUFFICES ASSUME NEW k \in DOMAIN q.does, q.does[k].bad # "next"
                 PROVE  /\ \A f \in q.does[k].needs : Supplied(q.does, f, k) \/ f \in G
                        /\ \A f \in q.does[k].clash : f \notin G
      BY DEF Stocked
    <3>1. /\ \A f \in q.does[k].needs : Supplied(q.does, f, k) \/ (Untouched(c, f) /\ f \in F)
          /\ \A f \in q.does[k].clash : Untouched(c, f) /\ f \notin F
      BY <1>2 DEF Stocked, Repeatable
    <3> QED BY <2>1, <3>1
  <2>3. Ready(q, G)
    BY <1>2, <2>2 DEF Ready
  <2> QED BY <2>3 DEF G
<1>3. CASE InOneStep(q) /\ Replay(F, q).answer # "error"
  <2>1. CASE i # Len(q.does)
    <3>1. Changeless(c)
      BY <1>3, <2>1 DEF InOneStep
    <3>2. G = F
      BY <3>1, ChangesNothing
    <3> QED BY <3>2
  <2>2. CASE i = Len(q.does)
    <3>1. /\ \A f \in Sure(q) : Makes(c, f)
          /\ \A f \in q.gone : Removes(c, f)
      BY <1>3, <2>2 DEF InOneStep
    <3>2. (\A f \in Sure(q) : f \in G) /\ (\A f \in q.gone : f \notin G)
      BY <3>1, ObeyedFacts
    <3> HIDE DEF G
    <3>3. Reached(q, G)
      BY <3>2 DEF Reached
    <3> QED BY <2>2, <3>3 DEF G
  <2> QED BY <2>1, <2>2
<1> QED BY <1>1, <1>2, <1>3 DEF Ready

LEMMA HealedAfter ==
  ASSUME NEW q, Thorough(q), NEW F, Ready(q, F), NEW i \in DOMAIN q.does
  PROVE  Healed(q, Obeyed(q.does[i], F))
<1> DEFINE G == Obeyed(q.does[i], F)
<1>1. Ready(q, G) \/ Reached(q, G)
  BY ReadyAfter
<1> HIDE DEF G
<1>2. Healed(q, G)
  BY <1>1, ReadyHeals DEF Healed
<1> QED BY <1>2 DEF G

\* The answers of a request that was cut short, and what is known of one
\* that met nobody and could have succeeded.
Cut == {"unsuccessful", "error", "lost"}

Healing(h) ==
  h \in alone \cap could /\ asks[h] \notin Fragile =>
    /\ Running(h) => Ready(asks[h], host)
    /\ answer[h] \in Cut => Healed(asks[h], host)

\* Every request of the agent that may be repeated can be resumed.
RequestsResume == \A q \in Requests \ Fragile : Resumable(q)

\* The invariant: such a request is ready to be run again while it runs, and
\* heals the host once it was cut short.
RetryIInv ==
  /\ TypeOK
  /\ \A h \in could : Begun(h)
  /\ \A h \in Handlers : Healing(h)

LEMMA HealingInit == Init => RetryIInv
<1> SUFFICES ASSUME Init PROVE RetryIInv
  OBVIOUS
<1>1. TypeOK
  BY DEF Init, TypeOK, Running, Begun
<1>2. \A h \in Handlers : Healing(h)
  BY DEF Init, Healing
<1>3. could = {}
  BY DEF Init
<1> QED BY <1>1, <1>2, <1>3 DEF RetryIInv

LEMMA HealingArrives ==
  ASSUME RetryIInv, RequestsResume, NEW h \in Handlers, Arrives(h), NEW o \in Handlers
  PROVE  Healing(o)'
<1> SUFFICES ASSUME (o \in alone \cap could /\ asks[o] \notin Fragile)'
             PROVE  (Running(o) => Ready(asks[o], host))' /\ (answer[o] \in Cut => Healed(asks[o], host))'
  BY DEF Healing
<1>1. o = h /\ asks' = asks /\ host' = host /\ asks[h] \in Requests \ Fragile
      /\ answer' = [answer EXCEPT ![h] = IF asks[h].does = << >> THEN "success" ELSE "none"]
  BY DEF Arrives, RetryIInv, TypeOK
<1>2. answer'[h] \notin Cut
  BY <1>1 DEF RetryIInv, TypeOK, Cut
<1>3. CASE Replay(host, asks[h]).answer # "error"
  <2>1. Ready(asks[h], host)
    BY <1>1, <1>3, ReadyAtFirst DEF RequestsResume
  <2> QED BY <1>1, <1>2, <2>1
<1>4. CASE Replay(host, asks[h]).answer = "error"
  <2>1. could' = could
    BY <1>4 DEF Arrives
  <2>2. h \in could /\ ~Begun(h)
    BY <1>1, <2>1 DEF Arrives
  <2> QED BY <2>2 DEF RetryIInv
<1> QED BY <1>3, <1>4

LEMMA HealingEnds ==
  ASSUME RetryIInv, NEW h \in Handlers, NEW ok \in BOOLEAN, NEW effect \in BOOLEAN,
         Ends(h, ok, effect), NEW o \in Handlers
  PROVE  Healing(o)'
<1> DEFINE q == asks[h]
           i == at[h]
           v == Verdict(Command(h), ok)
<1> SUFFICES ASSUME (o \in alone \cap could /\ asks[o] \notin Fragile)'
             PROVE  (Running(o) => Ready(asks[o], host))' /\ (answer[o] \in Cut => Healed(asks[o], host))'
  BY DEF Healing
<1>1. /\ Running(h) /\ asks' = asks /\ could' = could /\ alone' = alone \cap {h}
      /\ host' = IF effect THEN Obeyed(q.does[i], host) ELSE host
      /\ GoesOn(h, v)
  BY Zenon DEF Ends, Command
<1>2. o = h /\ h \in alone \cap could /\ q \notin Fragile /\ q \in Requests
  BY <1>1 DEF RetryIInv, TypeOK
<1>3. Ready(q, host) /\ Thorough(q)
  BY <1>1, <1>2, ThoroughAssumption DEF RetryIInv, Healing
<1>4. i \in 1..Len(q.does) /\ i \in DOMAIN q.does /\ Len(q.does) \in Nat
  BY <1>1, <1>2, ChainLength DEF RetryIInv, TypeOK
<1>5. Running(h)' => i # Len(q.does)
  BY <1>1, <1>4 DEF GoesOn, RetryIInv, TypeOK, Running, Begun
<1> HIDE DEF q, i
<1>6. /\ Ready(q, Obeyed(q.does[i], host)) \/ i = Len(q.does)
      /\ Healed(q, Obeyed(q.does[i], host)) /\ Healed(q, host)
  BY <1>3, <1>4, ReadyAfter, HealedAfter, ReadyHeals
<1>7. /\ Running(h)' => Ready(q, host')
      /\ Healed(q, host')
  BY <1>1, <1>3, <1>5, <1>6
<1>8. asks'[o] = q
  BY <1>1, <1>2 DEF q
<1> QED BY <1>2, <1>7, <1>8

LEMMA HealingCrash ==
  ASSUME RetryIInv, Crash, NEW o \in Handlers
  PROVE  Healing(o)'
<1> SUFFICES ASSUME (o \in alone \cap could /\ asks[o] \notin Fragile)'
             PROVE  (Running(o) => Ready(asks[o], host))' /\ (answer[o] \in Cut => Healed(asks[o], host))'
  BY DEF Healing
<1>1. /\ asks' = asks /\ at' = at /\ could' = could /\ o \in alone
      /\ \A h \in Handlers \ {o} : ~Running(h)
      /\ answer' = [h \in Handlers |-> IF Running(h) THEN "lost" ELSE answer[h]]
  BY DEF Crash
<1>2. Running(o) /\ asks[o] \notin Fragile /\ o \in could /\ asks[o] \in Requests
  BY <1>1 DEF Crash, RetryIInv, TypeOK
<1>3. Ready(asks[o], host) /\ Thorough(asks[o])
  BY <1>1, <1>2, ThoroughAssumption DEF RetryIInv, Healing
<1>4. at[o] \in DOMAIN asks[o].does
  BY <1>2, ChainLength DEF RetryIInv, TypeOK
<1>5. host' = host \/ host' = Obeyed(asks[o].does[at[o]], host)
  <2>1. \E F \in {host} \cup {Obeyed(Command(h), host) : h \in
                {p \in Handlers : Running(p) /\ Possible(Command(p), host)}} : host' = F
    BY DEF Crash
  <2>2. CASE host' = host
    BY <2>2
  <2>3. CASE host' # host
    <3>1. PICK h \in Handlers : Running(h) /\ host' = Obeyed(Command(h), host)
      BY <2>1, <2>3
    <3>2. h = o
      BY <1>1, <3>1
    <3> QED BY <3>1, <3>2 DEF Command
  <2> QED BY <2>2, <2>3
<1>6. Healed(asks[o], host')
  BY <1>3, <1>4, <1>5, ReadyHeals, HealedAfter
<1>7. ~Running(o)'
  BY <1>1, <1>2 DEF Running, Begun
<1> QED BY <1>1, <1>6, <1>7

LEMMA HealingNext == RetryIInv /\ RequestsResume /\ [Next]_vars => RetryIInv'
<1> SUFFICES ASSUME RetryIInv, RequestsResume, [Next]_vars PROVE RetryIInv'
  OBVIOUS
<1>1. CASE UNCHANGED vars
  BY <1>1 DEF vars, RetryIInv, TypeOK, Healing, Running, Begun
<1>2. CASE Next
  <2>1. ASSUME NEW h \in Handlers, Arrives(h) PROVE RetryIInv'
    <3>1. TypeOK' /\ \A o \in Handlers : Healing(o)'
      BY <2>1, ArrivesTypes, HealingArrives DEF RetryIInv
    <3>2. \A o \in could' : Begun(o)'
      BY <2>1 DEF Arrives, RetryIInv, TypeOK, Begun
    <3> QED BY <3>1, <3>2 DEF RetryIInv
  <2>2. ASSUME NEW h \in Handlers, NEW ok \in BOOLEAN, NEW effect \in BOOLEAN, Ends(h, ok, effect)
        PROVE  RetryIInv'
    <3>1. TypeOK' /\ \A o \in Handlers : Healing(o)'
      BY <2>2, EndsTypes, HealingEnds DEF RetryIInv
    <3>2. could' = could /\ GoesOn(h, Verdict(Command(h), ok)) /\ Running(h)
      BY <2>2, Zenon DEF Ends
    <3>3. \A o \in could : Begun(o)'
      <4>1. at[h] \in Nat /\ at[h] # 0
        BY <3>2 DEF RetryIInv, TypeOK, Running, Begun
      <4> QED BY <3>2, <4>1 DEF GoesOn, RetryIInv, TypeOK, Begun
    <3> QED BY <3>1, <3>2, <3>3 DEF RetryIInv
  <2>3. CASE Crash
    <3>1. TypeOK' /\ \A o \in Handlers : Healing(o)'
      BY <2>3, CrashTypes, HealingCrash DEF RetryIInv
    <3>2. could' = could /\ at' = at
      BY <2>3 DEF Crash
    <3> QED BY <3>1, <3>2 DEF RetryIInv, Begun
  <2>4. CASE HostMoves
    <3>1. TypeOK' /\ could' = could /\ at' = at /\ alone' = {}
      BY <2>4, HostTypes DEF RetryIInv, HostMoves
    <3> QED BY <3>1 DEF RetryIInv, Begun, Healing
  <2> QED BY <1>2, <2>1, <2>2, <2>3, <2>4, Steps
<1> QED BY <1>1, <1>2

LEMMA HealingShown == RetryIInv => RetryHeals
<1> SUFFICES ASSUME RetryIInv, NEW h \in alone \cap could, answer[h] \in Cut, asks[h] \notin Fragile
             PROVE  Healed(asks[h], host)
  BY DEF RetryHeals, Healed, Cut
<1> QED BY DEF RetryIInv, TypeOK, Healing

-----------------------------------------------------------------------------
(* The services of the agent can be resumed.                               *)

\* A command that succeeds on any host, or need not.
Free(c) == c.bad = "next" \/ (c.needs = {} /\ c.clash = {})
Freely(s) == Plainly(s) /\ \A i \in DOMAIN s : Free(s[i])

LEMMA ResumeNothing == ASSUME NEW s PROVE Resumable(Service(s, {}, {}))
BY DEF Service, Resumable, Aims, Sure

LEMMA ResumeChain ==
  ASSUME NEW s, Repeatable(s), NEW there, NEW away
  PROVE  Resumable(Service(s, there, away))
<1> DEFINE q == Service(s, there, away)
<1>1. q.does = s
  BY DEF Service
<1> HIDE DEF q
<1>2. Resumable(q)
  BY <1>1 DEF Resumable
<1> QED BY <1>2 DEF q

LEMMA ResumeFreely ==
  ASSUME NEW s, Freely(s), NEW there, NEW away
  PROVE  Resumable(Service(s, there, away))
<1>1. Repeatable(s)
  BY DEF Freely, Free, Repeatable
<1> QED BY <1>1, ResumeChain

LEMMA FreeTuples ==
  /\ \A a : Plain(a) /\ Free(a) => Freely(<<a>>)
  /\ \A a, b : Plain(a) /\ Plain(b) /\ Free(a) /\ Free(b) => Freely(<<a, b>>)
  /\ \A a, b, c : /\ Plain(a) /\ Plain(b) /\ Plain(c) /\ Free(a) /\ Free(b) /\ Free(c)
                  => Freely(<<a, b, c>>)
<1>1. ASSUME NEW a, Plain(a), Free(a) PROVE Freely(<<a>>)
  <2>1. Plainly(<<a>>)
    BY <1>1, PlainTuples
  <2> QED BY <1>1, <2>1 DEF Freely
<1>2. ASSUME NEW a, NEW b, Plain(a), Plain(b), Free(a), Free(b) PROVE Freely(<<a, b>>)
  <2>1. Plainly(<<a, b>>)
    BY <1>2, PlainTuples
  <2> QED BY <1>2, <2>1 DEF Freely
<1>3. ASSUME NEW a, NEW b, NEW c, Plain(a), Plain(b), Plain(c), Free(a), Free(b), Free(c)
      PROVE  Freely(<<a, b, c>>)
  <2>1. Plainly(<<a, b, c>>)
    BY <1>3, PlainTuples
  <2> QED BY <1>3, <2>1 DEF Freely
<1> QED BY <1>1, <1>2, <1>3

LEMMA JoinElements ==
  ASSUME NEW s, NEW t, Plainly(s), Plainly(t)
  PROVE  /\ Plainly(s \o t)
         /\ Len(s) \in Nat /\ Len(t) \in Nat /\ DOMAIN (s \o t) = 1..(Len(s) + Len(t))
         /\ \A i \in 1..(Len(s) + Len(t)) :
              (s \o t)[i] = IF i <= Len(s) THEN s[i] ELSE t[i - Len(s)]
<1> DEFINE S == {c \in {s[i] : i \in DOMAIN s} : Plain(c)}
           T == {c \in {t[i] : i \in DOMAIN t} : Plain(c)}
           U == S \cup T
           j == s \o t
<1>1. s \in Seq(S) /\ t \in Seq(T) /\ (\A c \in U : Plain(c))
  BY DEF Plainly
<1>2. Len(s) \in Nat /\ Len(t) \in Nat
  BY PlainElements
<1> HIDE DEF S, T
<1>3. s \in Seq(U) /\ t \in Seq(U)
  BY <1>1
<1> HIDE DEF U
<1>4. /\ j \in Seq(U) /\ Len(j) = Len(s) + Len(t)
      /\ \A i \in 1..(Len(s) + Len(t)) : j[i] = IF i <= Len(s) THEN s[i] ELSE t[i - Len(s)]
  BY <1>3, ConcatProperties, Zenon
<1> HIDE DEF j
<1>5. DOMAIN j = 1..(Len(s) + Len(t)) /\ \A i \in DOMAIN j : Plain(j[i])
  BY <1>1, <1>4
<1>6. Plainly(j)
  BY <1>4, <1>5, PlainChain
<1> QED BY <1>2, <1>4, <1>5, <1>6 DEF j

LEMMA FreeJoin ==
  ASSUME NEW s, NEW t, Freely(s), Freely(t)
  PROVE  Freely(s \o t)
<1> DEFINE j == s \o t
<1>1. Plainly(s) /\ Plainly(t)
  BY DEF Freely
<1>2. /\ Plainly(j)
      /\ Len(s) \in Nat /\ Len(t) \in Nat /\ DOMAIN j = 1..(Len(s) + Len(t))
      /\ \A i \in 1..(Len(s) + Len(t)) : j[i] = IF i <= Len(s) THEN s[i] ELSE t[i - Len(s)]
  BY <1>1, JoinElements
<1> HIDE DEF j
<1>3. DOMAIN s = 1..Len(s) /\ DOMAIN t = 1..Len(t)
  BY <1>1, PlainElements
<1>4. ASSUME NEW i \in DOMAIN j PROVE Free(j[i])
  <2>1. CASE i <= Len(s)
    <3>1. i \in DOMAIN s /\ j[i] = s[i]
      BY <1>2, <1>3, <2>1
    <3> QED BY <3>1 DEF Freely
  <2>2. CASE ~(i <= Len(s))
    <3>1. i - Len(s) \in DOMAIN t /\ j[i] = t[i - Len(s)]
      BY <1>2, <1>3, <2>2
    <3> QED BY <3>1 DEF Freely
  <2> QED BY <2>1, <2>2
<1> QED BY <1>2, <1>4 DEF Freely, j

LEMMA ResumeOne ==
  ASSUME NEW a, NEW there, NEW away, Gives(a, there, away)
  PROVE  Resumable(Service(<<a>>, there, away))
<1> DEFINE q == Service(<<a>>, there, away)
           s == <<a>>
<1>1. q.does = s /\ Sure(q) = there /\ q.gone = away
  BY DEF Service, Sure
<1>2. Plainly(s) /\ Len(s) = 1 /\ s[1] = a /\ s # << >> /\ DOMAIN s = {1}
  BY PlainTuples DEF Gives
<1> HIDE DEF q, s
<1>3. InOneStep(q)
  BY <1>1, <1>2 DEF InOneStep, Gives
<1> QED BY <1>3 DEF Resumable, q

LEMMA ResumeLast ==
  ASSUME NEW a, NEW b, NEW there, NEW away, Plain(a), Changeless(a), Gives(b, there, away)
  PROVE  Resumable(Service(<<a, b>>, there, away))
<1> DEFINE q == Service(<<a, b>>, there, away)
           s == <<a, b>>
<1>1. q.does = s /\ Sure(q) = there /\ q.gone = away
  BY DEF Service, Sure
<1>2. Plainly(s) /\ Len(s) = 2 /\ s[1] = a /\ s[2] = b /\ s # << >> /\ DOMAIN s = {1, 2}
  BY PlainTuples DEF Gives
<1> HIDE DEF q, s
<1>3. InOneStep(q)
  BY <1>1, <1>2 DEF InOneStep, Gives
<1> QED BY <1>3 DEF Resumable, q

LEMMA ResumeBlocking ==
  ASSUME NEW q, Resumable(q), DOMAIN q = DOMAIN Service(<< >>, {}, {})
  PROVE  Resumable(Blocking(q))
<1> DEFINE r == Blocking(q)
<1>1. r.does = q.does /\ r.holds = q.holds /\ r.gone = q.gone /\ r.unsure = q.unsure
  BY DEF Blocking, Service
<1> HIDE DEF r
<1>2. Resumable(r)
  BY <1>1 DEF Resumable, InOneStep, Aims, Sure
<1> QED BY <1>2 DEF r

\* What is only hoped for takes nothing away.
LEMMA ResumeHoping ==
  ASSUME NEW s, NEW there, NEW away, NEW facts, Resumable(Service(s, there, away))
  PROVE  /\ Resumable(Hoping(Service(s, there, away), facts))
         /\ DOMAIN Hoping(Service(s, there, away), facts) = DOMAIN Service(<< >>, {}, {})
<1> DEFINE q == Service(s, there, away)
           r == Hoping(q, facts)
<1>1. /\ r.does = q.does /\ r.gone = q.gone /\ Sure(r) \subseteq Sure(q)
      /\ DOMAIN r = DOMAIN Service(<< >>, {}, {}) /\ Resumable(q)
  BY DEF Service, Hoping, Sure
<1> HIDE DEF q, r
<1>2. Resumable(r)
  BY <1>1 DEF Resumable, InOneStep, Aims
<1> QED BY <1>1, <1>2 DEF r, q

LEMMA ResumeFirewall ==
  ASSUME NEW v4, NEW v6, NEW type
  PROVE  /\ Resumable(set_sysctl(v4, v6)) /\ Resumable(remove_masquerade)
         /\ Resumable(save_ruleset) /\ Resumable(delete_group(type)) /\ Resumable(add_members(type))
         /\ Resumable(create_zone) /\ Resumable(delete_zone)
         /\ Freely(SetSysctl(v4, v6))
<1>1. Freely(SetSysctl(v4, v6))
  <2> DEFINE a == Assign("ip_forward", v4)
             b == Assign("ip6_forward", v6)
             c == Ignored(Assign("90-dawos.conf", <<v4, v6>>))
  <2>1. Plain(a) /\ Plain(b) /\ Plain(c) /\ Free(a) /\ Free(b) /\ Free(c)
    BY DEF Plain, Free, Assign, Ignored, Look
  <2>2. SetSysctl(v4, v6) = <<a, b, c>>
    BY DEF SetSysctl
  <2> HIDE DEF a, b, c
  <2> QED BY <2>1, <2>2, FreeTuples
<1>2. Resumable(set_sysctl(v4, v6))
  <2> DEFINE s == SetSysctl(v4, v6)
             there == {<<"ip_forward", v4>>, <<"ip6_forward", v6>>}
             facts == {<<"90-dawos.conf", <<v4, v6>>>>}
  <2>1. set_sysctl(v4, v6) = Hoping(Service(s, there, {}), facts)
    BY DEF set_sysctl
  <2> HIDE DEF s, there, facts
  <2>2. Resumable(Service(s, there, {}))
    BY <1>1, ResumeFreely DEF s
  <2> QED BY <2>1, <2>2, ResumeHoping
<1>3. /\ Gives(DeleteNatTable, {}, {NatTable})
      /\ Gives(Delete(<<"set", type>>, {"element"}), {}, {<<"set", type>>})
      /\ Gives(Add({<<"set", type>>}, {<<"element", type>>}), {<<"element", type>>}, {})
      /\ Gives(Reported(Delete(Zone, {"zone chain"})), {}, {Zone})
  BY DEF Gives, Plain, Makes, Removes, Reported, DeleteNatTable, Delete, Add, Look
<1>4. Resumable(create_zone)
  <2> DEFINE a == Reported(Add({}, {Zone}))
             t == [i \in 1..3 |-> Ignored(Add({Zone}, {<<"zone chain", Hooks[i]>>}))]
             s == <<a>>
             there == {Zone}
             facts == {<<"zone chain", "input">>, <<"zone chain", "forward">>,
                       <<"zone chain", "output">>}
  <2>1. /\ Plain(a) /\ Free(a)
        /\ \A i \in 1..3 : Plain(t[i]) /\ Free(t[i])
    BY DEF Plain, Free, Reported, Ignored, Add, Look
  <2>2. t \in Seq({t[i] : i \in 1..3}) /\ DOMAIN t = 1..3
    OBVIOUS
  <2>3. create_zone = Hoping(Service(s \o t, there, {}), facts)
    BY DEF create_zone
  <2> HIDE DEF a, t, there, facts
  <2>4. Freely(t)
    BY <2>1, <2>2, PlainChain DEF Freely
  <2>5. Freely(s)
    BY <2>1, FreeTuples
  <2> HIDE DEF s
  <2>6. Freely(s \o t)
    BY <2>4, <2>5, FreeJoin
  <2> DEFINE j == s \o t
  <2> HIDE DEF j
  <2>7. Freely(j) /\ create_zone = Hoping(Service(j, there, {}), facts)
    BY <2>3, <2>6 DEF j
  <2>8. Resumable(Service(j, there, {}))
    BY <2>7, ResumeFreely
  <2> QED BY <2>7, <2>8, ResumeHoping
<1>5. Resumable(save_ruleset)
  BY ResumeNothing DEF save_ruleset
<1> QED BY <1>1, <1>2, <1>3, <1>4, <1>5, ResumeOne
       DEF remove_masquerade, delete_group, add_members, delete_zone

LEMMA ResumeGroups ==
  ASSUME NEW type, NEW elements \in BOOLEAN
  PROVE  Resumable(create_group(type, elements))
<1> DEFINE a == Add({}, {FilterTable})
           clash == {<<"set", t>> : t \in GroupTypes \ {type}}
           b == [Add({FilterTable}, {<<"set", type>>}) EXCEPT !.clash = clash]
           c == Add({<<"set", type>>}, {<<"element", type>>})
           there == {FilterTable, <<"set", type>>}
                      \cup (IF elements THEN {<<"element", type>>} ELSE {})
<1>1. /\ Plain(a) /\ Plain(b) /\ Plain(c) /\ a.bad # "next" /\ b.bad # "next"
      /\ a.needs = {} /\ a.clash = {} /\ b.needs = {FilterTable} /\ b.clash = clash
      /\ c.needs = {<<"set", type>>} /\ c.clash = {}
      /\ Makes(a, FilterTable) /\ Makes(b, <<"set", type>>)
  BY DEF Plain, Makes, Add, Look
<1>2. \A f \in clash : Untouched(a, f) /\ Untouched(b, f) /\ Untouched(c, f)
  <2> SUFFICES ASSUME NEW t \in GroupTypes \ {type}
               PROVE  LET f == <<"set", t>> IN Untouched(a, f) /\ Untouched(b, f) /\ Untouched(c, f)
    OBVIOUS
  <2> QED BY DEF Untouched, Keeps, StaysAway, Add, Look, FilterTable
<1>3. create_group(type, elements) = Service(<<a, b>> \o Optional(elements, <<c>>), there, {})
  BY DEF create_group
<1> HIDE DEF a, b, c, clash, there
<1>4. CASE elements
  <2> DEFINE p == <<a, b>>
             t == <<c>>
             s == p \o t
  <2>1. <<a, b>> \o Optional(elements, <<c>>) = s
    BY <1>4 DEF Optional
  <2>2. /\ Plainly(p) /\ DOMAIN p = 1..2 /\ Len(p) = 2 /\ p[1] = a /\ p[2] = b
        /\ Plainly(t) /\ Len(t) = 1 /\ t[1] = c
    BY <1>1, PlainTuples
  <2> HIDE DEF p, t
  <2>3. /\ Plainly(s) /\ DOMAIN s = 1..(Len(p) + Len(t))
        /\ \A i \in 1..(Len(p) + Len(t)) : s[i] = IF i <= Len(p) THEN p[i] ELSE t[i - Len(p)]
    BY <2>2, JoinElements
  <2> HIDE DEF s
  <2>4. Plainly(s) /\ DOMAIN s = 1..3 /\ s[1] = a /\ s[2] = b /\ s[3] = c
    BY <2>2, <2>3
  <2>5. Supplied(s, FilterTable, 2) /\ Supplied(s, <<"set", type>>, 3)
    BY <1>1, <2>4 DEF Supplied
  <2>6. Repeatable(s)
    BY <1>1, <1>2, <2>4, <2>5 DEF Repeatable
  <2> QED BY <1>3, <2>1, <2>6, ResumeChain
<1>5. CASE ~elements
  <2> DEFINE s == <<a, b>>
  <2>1. <<a, b>> \o Optional(elements, <<c>>) = s
    BY <1>5 DEF Optional
  <2>2. Plainly(s) /\ DOMAIN s = 1..2 /\ s[1] = a /\ s[2] = b
    BY <1>1, PlainTuples
  <2> HIDE DEF s
  <2>3. Supplied(s, FilterTable, 2)
    BY <1>1, <2>2 DEF Supplied
  <2>4. Repeatable(s)
    BY <1>1, <1>2, <2>2, <2>3 DEF Repeatable
  <2> QED BY <1>3, <2>1, <2>4, ResumeChain
<1> QED BY <1>4, <1>5

LEMMA ResumeMasquerade ==
  ASSUME NEW l
  PROVE  Resumable(setup_masquerade(l))
<1> DEFINE a == Ignored(DeleteNatTable)
           b == Add({}, {NatTable})
           c == Add({NatTable}, {NatChain})
           d == Add({NatTable, NatChain}, {<<"masquerade", l>>})
           p == <<a, b, c, d>>
           t == SetSysctl(1, 0)
           j == p \o t
           there == {NatTable, NatChain, <<"masquerade", l>>, <<"ip_forward", 1>>}
           facts == {<<"90-dawos.conf", <<1, 0>>>>}
<1>1. /\ Plain(a) /\ Plain(b) /\ Plain(c) /\ Plain(d)
      /\ a.bad = "next" /\ b.bad # "next" /\ c.bad # "next"
      /\ b.needs = {} /\ c.needs = {NatTable} /\ d.needs = {NatTable, NatChain}
      /\ b.clash = {} /\ c.clash = {} /\ d.clash = {}
      /\ Makes(b, NatTable) /\ Keeps(c, NatTable) /\ Makes(c, NatChain)
  BY DEF Plain, Makes, Keeps, Ignored, DeleteNatTable, Delete, Add, Look, NatTable, NatChain
<1>2. setup_masquerade(l) = Hoping(Service(j, there, {}), facts)
  BY DEF setup_masquerade
<1>3. Freely(t)
  BY ResumeFirewall
<1> HIDE DEF a, b, c, d, t, there, facts
<1>4. p \in Seq({a, b, c, d}) /\ DOMAIN p = 1..4 /\ Len(p) = 4
      /\ p[1] = a /\ p[2] = b /\ p[3] = c /\ p[4] = d
  OBVIOUS
<1> HIDE DEF p
<1>5. Plainly(p)
  BY <1>1, <1>4, PlainChain
<1>6. /\ Plainly(j) /\ Len(t) \in Nat /\ DOMAIN t = 1..Len(t) /\ DOMAIN j = 1..(4 + Len(t))
      /\ \A i \in 1..(4 + Len(t)) : j[i] = IF i <= 4 THEN p[i] ELSE t[i - 4]
  <2>1. Plainly(t)
    BY <1>3 DEF Freely
  <2>2. Len(t) \in Nat /\ DOMAIN t = 1..Len(t)
    BY <2>1, PlainElements
  <2>3. /\ Plainly(j) /\ DOMAIN j = 1..(Len(p) + Len(t))
        /\ \A i \in 1..(Len(p) + Len(t)) : j[i] = IF i <= Len(p) THEN p[i] ELSE t[i - Len(p)]
    BY <1>5, <2>1, JoinElements
  <2> HIDE DEF j
  <2> QED BY <1>4, <2>2, <2>3
<1> HIDE DEF j
<1>7. j[2] = b /\ j[3] = c
  BY <1>4, <1>6
<1>8. Supplied(j, NatTable, 3) /\ Supplied(j, NatTable, 4) /\ Supplied(j, NatChain, 4)
  BY <1>1, <1>7 DEF Supplied
<1>9. ASSUME NEW i \in DOMAIN j, j[i].bad # "next"
      PROVE  (\A f \in j[i].needs : Supplied(j, f, i)) /\ j[i].clash = {}
  <2>1. CASE i \in 1..4
    <3>1. i = 1 \/ i = 2 \/ i = 3 \/ i = 4
      BY <2>1
    <3> QED BY <1>1, <1>4, <1>6, <1>8, <1>9, <3>1
  <2>2. CASE i \notin 1..4
    <3>1. i - 4 \in DOMAIN t /\ j[i] = t[i - 4]
      BY <1>6, <2>2
    <3> QED BY <1>3, <1>9, <3>1 DEF Freely, Free
  <2> QED BY <2>1, <2>2
<1>10. Repeatable(j)
  BY <1>6, <1>9 DEF Repeatable
<1>11. Resumable(Service(j, there, {}))
  BY <1>10, ResumeChain
<1> QED BY <1>2, <1>11, ResumeHoping

LEMMA ResumeTracking ==
  ASSUME NEW n, NEW key
  PROVE  /\ Resumable(set_table_size(n)) /\ Resumable(set_conntrack(n))
         /\ Resumable(set_timeout(key, n)) /\ Resumable(apply_profile(n)) /\ Resumable(flush_table)
<1>1. Resumable(set_table_size(n))
  <2> DEFINE a == Assign("conntrack_max", n)
             b == Assign("91-dawos-conntrack.conf", n)
             c == Ignored(Look)
             s == <<a, b, c>>
             there == {<<"conntrack_max", n>>, <<"91-dawos-conntrack.conf", n>>}
  <2>1. Plain(a) /\ Plain(b) /\ Plain(c) /\ Free(a) /\ Free(b) /\ Free(c)
    BY DEF Plain, Free, Assign, Ignored, Look
  <2>2. set_table_size(n) = Service(s, there, {})
    BY DEF set_table_size
  <2> HIDE DEF a, b, c, there
  <2>3. Freely(s)
    BY <2>1, FreeTuples
  <2> HIDE DEF s
  <2> QED BY <2>2, <2>3, ResumeFreely
<1>2. Resumable(set_conntrack(n))
  <2> DEFINE s == << Ignored(Assign("conntrack_max", n)), Ignored(Assign("90-conntrack.conf", n)),
                     Ignored(Look) >>
             facts == {<<"conntrack_max", n>>, <<"90-conntrack.conf", n>>}
  <2>1. set_conntrack(n) = Hoping(Service(s, {}, {}), facts)
    BY DEF set_conntrack
  <2> HIDE DEF s, facts
  <2> QED BY <2>1, ResumeNothing, ResumeHoping
<1>3. Resumable(set_timeout(key, n))
  <2>1. CASE key \in Timeouts
    <3> DEFINE a == Assign(key, n)
               b == Ignored(Look)
               s == <<a, b>>
    <3>1. Plain(a) /\ Plain(b) /\ Free(a) /\ Free(b)
      BY DEF Plain, Free, Assign, Ignored, Look
    <3>2. set_timeout(key, n) = Service(s, {<<key, n>>}, {})
      BY <2>1 DEF set_timeout
    <3> HIDE DEF a, b
    <3>3. Freely(s)
      BY <3>1, FreeTuples
    <3> HIDE DEF s
    <3> QED BY <3>2, <3>3, ResumeFreely
  <2>2. CASE key \notin Timeouts
    BY <2>2, ResumeNothing DEF set_timeout
  <2> QED BY <2>1, <2>2
<1>4. Resumable(apply_profile(n))
  <2> DEFINE s == [i \in 1..2 |-> Assign(ProfileOrder[i], n)]
             b == Ignored(Look)
             t == <<b>>
             j == s \o t
             there == {<<k, n>> : k \in Timeouts}
  <2>1. DOMAIN s = 1..2 /\ s \in Seq({s[1], s[2]}) /\ \A i \in 1..2 : s[i] = Assign(ProfileOrder[i], n)
    OBVIOUS
  <2>2. (\A k : Plain(Assign(k, n)) /\ Free(Assign(k, n))) /\ Plain(b) /\ Free(b)
    BY DEF Plain, Free, Assign, Ignored, Look
  <2>3. apply_profile(n) = Service(j, there, {})
    BY DEF apply_profile
  <2> HIDE DEF s, b, there
  <2>4. Freely(s)
    BY <2>1, <2>2, PlainChain DEF Freely
  <2>5. Freely(t)
    BY <2>2, FreeTuples
  <2> HIDE DEF t
  <2>6. Freely(j)
    BY <2>4, <2>5, FreeJoin
  <2> HIDE DEF j
  <2> QED BY <2>3, <2>6, ResumeFreely
<1>5. Resumable(flush_table)
  <2> DEFINE a == Ignored(Look)
             b == [Look EXCEPT !.clears = {"tracked"}]
  <2>1. Plain(a) /\ Changeless(a) /\ Gives(b, {}, {<<"tracked", "old">>})
    BY DEF Gives, Plain, Changeless, Removes, Ignored, Look
  <2>2. flush_table = Service(<<a, b>>, {}, {<<"tracked", "old">>})
    BY DEF flush_table
  <2> HIDE DEF a, b
  <2> QED BY <2>1, <2>2, ResumeLast
<1> QED BY <1>1, <1>2, <1>3, <1>4, <1>5

LEMMA ResumeNetwork ==
  ASSUME NEW v, NEW state, NEW linked \in BOOLEAN
  PROVE  /\ Resumable(delete_vlan) /\ Resumable(set_vlan_state(state))
         /\ Resumable(add_route) /\ Resumable(delete_route) /\ Resumable(set_dns(v, linked))
<1>1. /\ Gives(Delete(Vlan, {"vlan link", "vlan address"}), {}, {Vlan})
      /\ Gives(VlanUp(state), {<<"vlan link", state>>}, {})
      /\ Gives(New({}, {Route}), {Route}, {}) /\ Gives(Delete(Route, {}), {}, {Route})
  BY DEF Gives, Plain, Makes, Removes, VlanUp, Assign, New, Delete, Look
<1>2. CASE linked
  <2> DEFINE a == Look
             b == Assign("resolved drop-in", v)
             c == Ignored(Restart("resolved", "resolved drop-in", "resolved runs"))
             s == <<a, b, c>>
             there == {<<"resolved drop-in", v>>}
             facts == {<<"resolved runs", v>>}
  <2>1. Plain(a) /\ Plain(b) /\ Plain(c) /\ Free(a) /\ Free(b) /\ Free(c)
    BY DEF Plain, Free, Assign, Ignored, Restart, Look
  <2>2. set_dns(v, linked) = Blocking(Hoping(Service(s, there, {}), facts))
    BY <1>2 DEF set_dns
  <2> HIDE DEF a, b, c, there, facts
  <2>3. Freely(s)
    BY <2>1, FreeTuples
  <2> HIDE DEF s
  <2>4. Resumable(set_dns(v, linked))
    <3> DEFINE q == Hoping(Service(s, there, {}), facts)
    <3>1. Resumable(Service(s, there, {}))
      BY <2>3, ResumeFreely
    <3>2. Resumable(q) /\ DOMAIN q = DOMAIN Service(<< >>, {}, {})
      BY <3>1, ResumeHoping
    <3> HIDE DEF q
    <3> QED BY <2>2, <3>2, ResumeBlocking DEF q
  <2> QED BY <1>1, <2>4, ResumeOne DEF delete_vlan, set_vlan_state, add_route, delete_route
<1>3. CASE ~linked
  <2> DEFINE a == Assign("resolv.conf", v)
             there == {<<"resolv.conf", v>>}
  <2>1. Gives(a, there, {})
    BY DEF Gives, Plain, Makes, Assign, Look
  <2>2. set_dns(v, linked) = Blocking(Service(<<a>>, there, {}))
    BY <1>3 DEF set_dns
  <2> HIDE DEF a, there
  <2>3. Resumable(set_dns(v, linked))
    <3> DEFINE q == Service(<<a>>, there, {})
    <3>1. Resumable(q) /\ DOMAIN q = DOMAIN Service(<< >>, {}, {})
      BY <2>1, ResumeOne DEF Service
    <3> HIDE DEF q
    <3> QED BY <2>2, <3>1, ResumeBlocking DEF q
  <2> QED BY <1>1, <2>3, ResumeOne DEF delete_vlan, set_vlan_state, add_route, delete_route
<1> QED BY <1>2, <1>3

LEMMA ResumeDaemons ==
  ASSUME NEW v, NEW enable \in BOOLEAN
  PROVE  /\ Resumable(set_forwarders(v)) /\ Resumable(flush_cache)
         /\ Resumable(dhcp_restart) /\ Resumable(relay_restart)
         /\ Resumable(vrrp_failover) /\ Resumable(vrrp_restart) /\ Resumable(flow_restart)
         /\ Resumable(configure_exporter(enable)) /\ Resumable(exporter_restart)
<1>1. Resumable(set_forwarders(v))
  <2> DEFINE a == Check({DnsmasqUp})
             b == Ignored(Assign("dawos-forwarding.conf", v))
             c == Hangup
             s == <<a, b, c>>
             away == {<<"cached", "old">>}
             facts == {<<"dawos-forwarding.conf", v>>, <<"dnsmasq runs", v>>}
  <2>1. /\ Plain(a) /\ Plain(b) /\ Plain(c) /\ b.bad = "next"
        /\ a.needs = {DnsmasqUp} /\ a.clash = {} /\ c.needs = {DnsmasqUp} /\ c.clash = {}
    BY DEF Plain, Check, Assign, Ignored, Hangup, Look
  <2>2. Untouched(a, DnsmasqUp) /\ Untouched(b, DnsmasqUp) /\ Untouched(c, DnsmasqUp)
    BY DEF Untouched, Keeps, StaysAway, Check, Assign, Ignored, Hangup, Look, DnsmasqUp
  <2>3. set_forwarders(v) = Hoping(Service(s, {}, away), facts)
    BY DEF set_forwarders
  <2> HIDE DEF a, b, c, away, facts
  <2>4. Plainly(s) /\ DOMAIN s = 1..3 /\ s[1] = a /\ s[2] = b /\ s[3] = c
    BY <2>1, PlainTuples
  <2> HIDE DEF s
  <2>5. \A j \in DOMAIN s : Untouched(s[j], DnsmasqUp)
    BY <2>2, <2>4
  <2>6. Repeatable(s)
    BY <2>1, <2>4, <2>5 DEF Repeatable
  <2>7. Resumable(Service(s, {}, away))
    BY <2>6, ResumeChain
  <2> QED BY <2>3, <2>7, ResumeHoping
<1>2. Resumable(flush_cache)
  <2> DEFINE a == Check({DnsmasqUp})
             b == Hangup
  <2>1. Plain(a) /\ Changeless(a) /\ Gives(b, {}, {<<"cached", "old">>})
    BY DEF Gives, Plain, Changeless, Removes, Check, Hangup, Look
  <2>2. flush_cache = Service(<<a, b>>, {}, {<<"cached", "old">>})
    BY DEF flush_cache
  <2> HIDE DEF a, b
  <2> QED BY <2>1, <2>2, ResumeLast
<1>3. Resumable(vrrp_failover)
  <2> DEFINE a == Reported(Check({KeepalivedUp}))
             b == Reported(Add({KeepalivedUp}, {<<"vrrp", "signalled">>}))
  <2>1. Plain(a) /\ Changeless(a) /\ Gives(b, {<<"vrrp", "signalled">>}, {})
    BY DEF Gives, Plain, Changeless, Makes, Reported, Check, Add, Look
  <2>2. vrrp_failover = Service(<<a, b>>, {<<"vrrp", "signalled">>}, {})
    BY DEF vrrp_failover
  <2> HIDE DEF a, b
  <2> QED BY <2>1, <2>2, ResumeLast
<1>4. /\ Gives(Reported(DnsmasqRestart), {DnsmasqUp}, {<<"cached", "old">>})
      /\ Gives(Reported(Add({}, {<<"up", "dhcrelay">>})), {<<"up", "dhcrelay">>}, {})
      /\ Gives(Reported([Add({}, {KeepalivedUp}) EXCEPT !.clears = {"vrrp"}]), {KeepalivedUp}, {})
  <2>1. /\ Gives(Reported(Add({}, {<<"up", "dhcrelay">>})), {<<"up", "dhcrelay">>}, {})
        /\ Gives(Reported([Add({}, {KeepalivedUp}) EXCEPT !.clears = {"vrrp"}]), {KeepalivedUp}, {})
    BY DEF Gives, Plain, Makes, Removes, Reported, Add, Look
  <2> QED BY <2>1, DnsmasqGives
<1>5. /\ Gives(Reported(Add({}, {Exporter, AtBoot})), {Exporter, AtBoot}, {})
      /\ Gives(Reported([Look EXCEPT !.drops = {Exporter, AtBoot}]), {}, {Exporter, AtBoot})
      /\ Gives(Reported(Add({}, {Exporter})), {Exporter}, {})
  BY DEF Gives, Plain, Makes, Removes, Reported, Add, Look
<1>6. Resumable(dhcp_restart) /\ Resumable(relay_restart) /\ Resumable(vrrp_restart)
  BY <1>4, ResumeOne DEF dhcp_restart, relay_restart, vrrp_restart
<1>7. Resumable(configure_exporter(enable)) /\ Resumable(exporter_restart)
  BY <1>5, ResumeOne DEF configure_exporter, exporter_restart
<1>8. Resumable(flow_restart)
  BY ResumeNothing DEF flow_restart
<1> QED BY <1>1, <1>2, <1>3, <1>6, <1>7, <1>8

LEMMA ResumeAccel ==
  ASSUME NEW mode, NEW action
  PROVE  /\ Resumable(initiate_shutdown(mode)) /\ Resumable(cancel_shutdown)
         /\ Resumable(service_action(action)) /\ Resumable(mac_filter(action))
<1> DEFINE a == Ignored(AccelCmd(Look))
<1>1. /\ Plain(a) /\ Changeless(a)
      /\ Gives(AccelCmd(Add({}, {Draining})), {Draining}, {})
      /\ Gives(AccelCmd(Delete(AccelUp, {"accel-ppp"})), {}, {AccelUp})
      /\ Gives(AccelCmd([Look EXCEPT !.drops = {Draining}]), {}, {Draining})
  BY DEF Gives, Plain, Changeless, Makes, Removes, Ignored, AccelCmd, Add, Delete, Look
<1> HIDE DEF a
<1>2. Resumable(initiate_shutdown(mode))
  <2>1. CASE mode = "soft"
    BY <1>1, <2>1, ResumeLast DEF initiate_shutdown, a
  <2>2. CASE mode # "soft"
    BY <1>1, <2>2, ResumeLast DEF initiate_shutdown, a
  <2> QED BY <2>1, <2>2
<1>3. Resumable(cancel_shutdown)
  BY <1>1, ResumeLast DEF cancel_shutdown, a
<1>4. Resumable(service_action(action))
  <2> DEFINE stop  == [Look EXCEPT !.clears = {"accel-ppp"}, !.drops = {AccelUp}]
             start == [Add({}, {AccelUp}) EXCEPT
                         !.clears = IF action = "restart" THEN {"accel-ppp"} ELSE {}]
  <2>1. Gives(stop, {}, {AccelUp}) /\ Gives(start, {AccelUp}, {})
    BY DEF Gives, Plain, Makes, Removes, Add, Look
  <2>2. CASE action = "reload"
    BY <2>2, ResumeNothing DEF service_action
  <2>3. CASE action = "stop"
    <3>1. service_action(action) = Service(<<stop>>, {}, {AccelUp})
      BY <2>3 DEF service_action
    <3> QED BY <2>1, <3>1, ResumeOne
  <2>4. CASE action \notin {"reload", "stop"}
    <3>1. service_action(action) = Service(<<start>>, {AccelUp}, {})
      BY <2>4 DEF service_action
    <3> QED BY <2>1, <3>1, ResumeOne
  <2> QED BY <2>2, <2>3, <2>4
<1>5. Resumable(mac_filter(action))
  <2>1. /\ Gives(AccelCmd(Add({}, {Filtered})), {Filtered}, {})
        /\ Gives(AccelCmd([Look EXCEPT !.drops = {Filtered}]), {}, {Filtered})
    BY DEF Gives, Plain, Makes, Removes, AccelCmd, Add, Look
  <2> QED BY <2>1, ResumeOne DEF mac_filter
<1> QED BY <1>2, <1>3, <1>4, <1>5

\* Of the services of the agent, all but those that configure an interface or
\* create a VLAN can be resumed wherever they were cut short: no command uses
\* up what an earlier one needs.
THEOREM ServicesResume == \A q \in HostRequests \ RefusesOver : Resumable(q)
<1>1. \A q \in FirewallRequests : Resumable(q)
  <2>1. /\ \A q \in {set_sysctl(a, b) : a \in Levels, b \in Levels} : Resumable(q)
        /\ \A q \in {delete_group(t) : t \in GroupTypes} : Resumable(q)
        /\ \A q \in {add_members(t) : t \in GroupTypes} : Resumable(q)
    BY ResumeFirewall
  <2>2. \A q \in {create_group(t, e) : t \in GroupTypes, e \in BOOLEAN} : Resumable(q)
    BY ResumeGroups
  <2>3. \A q \in {setup_masquerade(l) : l \in Links} : Resumable(q)
    BY ResumeMasquerade
  <2>4. /\ Resumable(remove_masquerade) /\ Resumable(save_ruleset)
        /\ Resumable(create_zone) /\ Resumable(delete_zone)
    BY ResumeFirewall
  <2> QED BY <2>1, <2>2, <2>3, <2>4 DEF FirewallRequests
<1>2. \A q \in TrackingRequests : Resumable(q)
  BY ResumeTracking DEF TrackingRequests
<1>3. \A q \in NetworkRequests \ RefusesOver : Resumable(q)
  <2>1. \A q \in {set_dns(v, l) : v \in Levels, l \in BOOLEAN} : Resumable(q)
    BY ResumeNetwork
  <2>2. /\ \A q \in {set_vlan_state(s) : s \in {"up", "down"}} : Resumable(q)
        /\ Resumable(delete_vlan) /\ Resumable(add_route) /\ Resumable(delete_route)
    BY ResumeNetwork
  <2> QED BY <2>1, <2>2 DEF NetworkRequests, RefusesOver
<1>4. \A q \in DaemonRequests : Resumable(q)
  BY ResumeDaemons DEF DaemonRequests
<1>5. \A q \in AccelRequests : Resumable(q)
  BY ResumeAccel DEF AccelRequests
<1> QED BY <1>1, <1>2, <1>3, <1>4, <1>5 DEF HostRequests

\* A request that met nobody, could have succeeded, and was cut short leaves
\* the host as asked, or in a state from which the same request, made again,
\* gets there: for any number of requests, links and settings, wherever a
\* command fails, its answer is lost, or the agent is killed.
THEOREM RetriesHeal == Spec => []RetryHeals
<1>1. RequestsResume
  <2>1. \A q \in Requests \ Fragile : q \in HostRequests \ RefusesOver
    BY RequestsAssumption, FragileAssumption
  <2> QED BY <2>1, ServicesResume DEF RequestsResume
<1>2. RetryIInv /\ [Next]_vars => RetryIInv'
  BY <1>1, HealingNext
<1> QED BY <1>2, HealingInit, HealingShown, PTL DEF Spec
=============================================================================
