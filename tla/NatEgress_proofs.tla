--------------------------- MODULE NatEgress_proofs ---------------------------
(***************************************************************************)
(* The growth of the SNAT chain is bounded by the concurrency, for any     *)
(* number of handlers.  The bound must also be known of everything that    *)
(* may become the chain: the file, and the listings on their way to it.    *)
(***************************************************************************)
EXTENDS NatEgress, FiniteSetTheorems, TLAPS

Bound == Cardinality(Handlers) + blind

\* What each command takes for granted when its turn comes.
LocalsKnown ==
    \A h \in Handlers :
        /\ pc[h] # "idle" => request[h] \in Requests
        /\ pc[h] = "tee" => text[h] \in Listings

ListingsBounded ==
    /\ saved.rules <= Bound
    /\ \A h \in Handlers : pc[h] = "tee" => text[h].rules <= Bound

IInv == TypeOK /\ LocalsKnown /\ RulesBounded /\ ListingsBounded

USE NoneAssumption, FiniteAssumption, BoundAssumption

\* The set of handlers about to add is finite, and counts as one would expect.
LEMMA AddingFinite ==
    /\ IsFiniteSet(Adding) /\ Cardinality(Adding) \in Nat
    /\ Cardinality(Adding) <= Cardinality(Handlers)
    /\ Cardinality(Handlers) \in Nat
  BY FS_Subset, FS_CardinalityType DEF Adding

LEMMA InitHolds == Init => IInv
<1> SUFFICES ASSUME Init PROVE IInv
  OBVIOUS
<1>1. TypeOK
  <2>1. NoMap \in Maps
    BY DEF NoMap, Maps
  <2>2. Table \in Listings
    BY <2>1 DEF Init, Table, Listings
  <2>3. boots \in 0..MaxBoots /\ blind \in 0..MaxBlind
    BY DEF Init
  <2> QED
    BY <2>1, <2>2, <2>3 DEF Init, TypeOK, Commands
<1>2. Cardinality(Adding) = 0
  <2>1. Adding = {}
    BY DEF Init, Adding
  <2> QED
    BY <2>1, FS_EmptySet
<1> QED
  BY <1>1, <1>2, AddingFinite
     DEF Init, IInv, LocalsKnown, RulesBounded, ListingsBounded, Bound, Table

-----------------------------------------------------------------------------
(* Types and locals.                                                       *)

LEMMA TornType == Torn \in Listings /\ Torn.rules = 0
  BY DEF Torn, Listings, NoMap, Maps

\* What a sudden end leaves of the file is the file, or one cut off.
LEMMA LeftIsOld == \A left \in Left : left = saved \/ left = Torn
  BY DEF Left

LEMMA TypeStep == TypeOK /\ LocalsKnown /\ [Next]_vars => TypeOK' /\ LocalsKnown'
<1> SUFFICES ASSUME TypeOK, LocalsKnown, [Next]_vars PROVE TypeOK' /\ LocalsKnown'
  OBVIOUS
<1> USE DEF TypeOK, LocalsKnown, Commands, Parts, kernel
<1>1. ASSUME NEW h \in Handlers, NEW req \in Requests, Arrives(h, req)
      PROVE  TypeOK' /\ LocalsKnown'
  <2>1. \E command \in {"drop", "table"} : pc' = [pc EXCEPT ![h] = command]
    BY <1>1 DEF Arrives, Goto
  <2>2. /\ request' = [request EXCEPT ![h] = req]
        /\ UNCHANGED <<parts, map, rules, saved, text, boots, blind, drift>>
    BY <1>1 DEF Arrives
  <2>3. pc' \in [Handlers -> Commands] /\ pc'[h] # "tee"
    BY <2>1
  <2>4. request' \in [Handlers -> Requests \cup {None}] /\ request'[h] \in Requests
    BY <2>2
  <2>5. \A g \in Handlers : g # h => pc'[g] = pc[g] /\ request'[g] = request[g]
    BY <2>1, <2>2
  <2>6. TypeOK'
    BY <2>2, <2>3, <2>4
  <2>7. LocalsKnown'
    BY <2>2, <2>3, <2>4, <2>5
  <2> QED
    BY <2>6, <2>7
<1>2. ASSUME NEW h \in Handlers,
             AddPart(h, "table", "map") \/ AddPart(h, "map", "chain") \/ AddPart(h, "chain", "look")
      PROVE  TypeOK' /\ LocalsKnown'
  BY <1>2 DEF AddPart, Goto
<1>3. ASSUME NEW h \in Handlers, Look(h) \/ LookFails(h) PROVE TypeOK' /\ LocalsKnown'
  <2>1. \E command \in {"rule", "list", "element"} : pc' = [pc EXCEPT ![h] = command]
    BY <1>3 DEF Look, LookFails, Goto, AfterTable
  <2>2. blind' \in 0..MaxBlind
    BY <1>3 DEF Look, LookFails
  <2>3. UNCHANGED <<parts, map, rules, saved, request, text, boots, drift>> /\ pc[h] = "look"
    BY <1>3 DEF Look, LookFails
  <2>4. pc' \in [Handlers -> Commands]
    BY <2>1
  <2>5. TypeOK'
    BY <2>2, <2>3, <2>4
  <2>6. LocalsKnown'
    BY <2>1, <2>3
  <2> QED
    BY <2>5, <2>6
<1>4. ASSUME NEW h \in Handlers, AddRule(h) PROVE TypeOK' /\ LocalsKnown'
  BY <1>4 DEF AddRule, Goto, AfterTable
<1>5. ASSUME NEW h \in Handlers, SetElement(h) \/ ClearElement(h)
      PROVE  TypeOK' /\ LocalsKnown'
  <2>1. request[h] \in Requests
    BY <1>5 DEF SetElement, ClearElement
  <2>2. map' \in Maps
    BY <1>5, <2>1 DEF SetElement, ClearElement, Requests, Maps
  <2> QED
    BY <1>5, <2>2 DEF SetElement, ClearElement, Goto
<1>6. ASSUME NEW h \in Handlers, List(h) PROVE TypeOK' /\ LocalsKnown'
  <2>1. Table \in Listings
    BY DEF Table, Listings
  <2>2. /\ pc[h] = "list" /\ pc' = [pc EXCEPT ![h] = "tee"]
        /\ text' = [text EXCEPT ![h] = Table]
        /\ UNCHANGED <<parts, map, rules, saved, request, boots, blind, drift>>
    BY <1>6 DEF List, Goto
  <2>3. text' \in [Handlers -> Listings \cup {None}] /\ text'[h] \in Listings
    BY <2>1, <2>2
  <2>4. \A g \in Handlers : g # h => pc'[g] = pc[g] /\ text'[g] = text[g]
    BY <2>2
  <2> QED
    BY <2>2, <2>3, <2>4
<1>7. ASSUME NEW h \in Handlers, ListFails(h) \/ TeeFails(h) \/ Fails(h)
      PROVE  TypeOK' /\ LocalsKnown'
  <2>1. saved' \in Listings
    BY <1>7, TornType DEF ListFails, TeeFails, Fails
  <2> QED
    BY <1>7, <2>1 DEF ListFails, TeeFails, Fails, Ends, Goto
<1>8. ASSUME NEW h \in Handlers, Tee(h) PROVE TypeOK' /\ LocalsKnown'
  BY <1>8 DEF Tee, Ends, Goto
<1>9. ASSUME NEW h \in Handlers, Drop(h) PROVE TypeOK' /\ LocalsKnown'
  <2>1. NoMap \in Maps
    BY DEF NoMap, Maps
  <2>2. parts' \in SUBSET Parts /\ map' \in Maps /\ rules' \in Nat
    <3>1. CASE parts' = {} /\ map' = NoMap /\ rules' = 0
      BY <2>1, <3>1
    <3>2. CASE parts' = parts /\ map' = map /\ rules' = rules
      BY <3>2
    <3> QED
      BY <1>9, <3>1, <3>2 DEF Drop
  <2>3. drift' \in {"none", "off", "failed", "overtaken", "killed"}
    BY <1>9 DEF Drop
  <2>4. /\ UNCHANGED <<saved, boots, blind>>
        /\ pc' = [pc EXCEPT ![h] = "idle"]
        /\ request' = [request EXCEPT ![h] = None]
        /\ text' = [text EXCEPT ![h] = None]
    BY <1>9 DEF Drop, Ends, Goto
  <2>5. /\ pc' \in [Handlers -> Commands]
        /\ request' \in [Handlers -> Requests \cup {None}]
        /\ text' \in [Handlers -> Listings \cup {None}]
    BY <2>4
  <2>6. TypeOK'
    BY <2>2, <2>3, <2>4, <2>5
  <2>7. LocalsKnown'
    BY <2>4
  <2> QED
    BY <2>6, <2>7
<1>10. ASSUME AllGone
       PROVE  /\ saved' \in Listings
              /\ pc' \in [Handlers -> Commands] /\ \A h \in Handlers : pc'[h] = "idle"
              /\ request' \in [Handlers -> Requests \cup {None}]
              /\ text' \in [Handlers -> Listings \cup {None}]
  <2>1. saved' \in Listings
    BY <1>10, TornType, LeftIsOld DEF AllGone
  <2> QED
    BY <1>10, <2>1 DEF AllGone
<1>12. CASE Reboot
  <2>1. parts' \in SUBSET Parts /\ map' \in Maps /\ rules' \in Nat
    BY <1>10, <1>12 DEF Reboot, Listings
  <2>2. boots' \in 0..MaxBoots
    BY <1>12 DEF Reboot
  <2> QED
    BY <1>10, <1>12, <2>1, <2>2 DEF Reboot
<1>13. CASE Killed
  BY <1>10, <1>13 DEF Killed
<1>11. CASE UNCHANGED vars
  BY <1>11 DEF vars
<1> QED
  BY <1>1, <1>2, <1>3, <1>4, <1>5, <1>6, <1>7, <1>8, <1>9, <1>11, <1>12, <1>13 DEF Next, Step

-----------------------------------------------------------------------------
(* The count.                                                              *)

\* A step that neither adds a rule nor sends a handler to add one keeps the
\* bound.
LEMMA NothingAdded ==
    ASSUME TypeOK, RulesBounded, blind' = blind, rules' \in Nat, rules' <= rules,
           Adding' \subseteq Adding
    PROVE  RulesBounded'
<1>1. IsFiniteSet(Adding') /\ Cardinality(Adding') \in Nat
      /\ Cardinality(Adding') <= Cardinality(Adding)
  BY AddingFinite, FS_Subset, FS_CardinalityType
<1> QED
  BY <1>1, AddingFinite DEF RulesBounded, TypeOK

LEMMA CountStep ==
    TypeOK /\ LocalsKnown /\ RulesBounded /\ ListingsBounded /\ [Next]_vars => RulesBounded'
<1> SUFFICES ASSUME TypeOK, LocalsKnown, RulesBounded, ListingsBounded, [Next]_vars
             PROVE  RulesBounded'
  OBVIOUS
<1>1. ASSUME NEW h \in Handlers, Look(h) PROVE RulesBounded'
  <2>1. CASE rules = 0
    <3>1. Adding' \subseteq Handlers
      BY DEF Adding
    <3>2. Cardinality(Adding') \in Nat /\ Cardinality(Adding') <= Cardinality(Handlers)
      BY <3>1, FS_Subset, FS_CardinalityType
    <3>3. rules' = 0 /\ blind' = blind
      BY <1>1, <2>1 DEF Look, kernel
    <3> QED
      BY <3>2, <3>3, AddingFinite DEF RulesBounded, TypeOK
  <2>2. CASE rules # 0
    <3>1. Adding' \subseteq Adding
      BY <1>1, <2>2 DEF Look, Goto, AfterTable, Adding, TypeOK
    <3> QED
      BY <1>1, <3>1, NothingAdded DEF Look, kernel, TypeOK
  <2> QED
    BY <2>1, <2>2
<1>2. ASSUME NEW h \in Handlers, LookFails(h) PROVE RulesBounded'
  <2>1. Adding' = Adding \cup {h} /\ h \notin Adding
    BY <1>2 DEF LookFails, Goto, Adding, TypeOK
  <2>2. Cardinality(Adding') = Cardinality(Adding) + 1
    BY <2>1, AddingFinite, FS_AddElement
  <2>3. rules' = rules /\ blind' = blind + 1
    BY <1>2 DEF LookFails, kernel
  <2> QED
    BY <2>2, <2>3, AddingFinite DEF RulesBounded, TypeOK
<1>3. ASSUME NEW h \in Handlers, AddRule(h) PROVE RulesBounded'
  <2>1. Adding' = Adding \ {h} /\ h \in Adding
    BY <1>3 DEF AddRule, Goto, AfterTable, Adding, TypeOK
  <2>2. Cardinality(Adding') = Cardinality(Adding) - 1
    BY <2>1, AddingFinite, FS_RemoveElement
  <2>3. rules' = rules + 1 /\ blind' = blind
    BY <1>3 DEF AddRule
  <2> QED
    BY <2>2, <2>3, AddingFinite DEF RulesBounded, TypeOK
<1>4. CASE Reboot
  <2>1. Adding' = {}
    BY <1>4 DEF Reboot, AllGone, Adding
  <2>2. Cardinality(Adding') = 0
    BY <2>1, FS_EmptySet
  <2>3. saved' = saved \/ saved'.rules = 0
    BY <1>4, LeftIsOld, TornType DEF Reboot, AllGone
  <2> QED
    BY <1>4, <2>2, <2>3, AddingFinite
       DEF Reboot, RulesBounded, ListingsBounded, Bound, TypeOK, Listings
<1>8. CASE Killed
  <2>1. Adding' \subseteq Adding
    BY <1>8 DEF Killed, AllGone, Adding
  <2> QED
    BY <1>8, <2>1, NothingAdded DEF Killed, kernel, TypeOK
<1>5. ASSUME NEW h \in Handlers, NEW command \in Commands \ {"rule"}, Goto(h, command)
      PROVE  Adding' \subseteq Adding
  BY <1>5 DEF Goto, Adding, TypeOK
<1>6. ASSUME NEW h \in Handlers, Step(h), ~Look(h), ~LookFails(h), ~AddRule(h)
      PROVE  RulesBounded'
  <2>1. blind' = blind /\ rules' \in Nat /\ rules' <= rules
    BY <1>6 DEF Step, Arrives, AddPart, SetElement, ClearElement, List, ListFails, Tee,
                TeeFails, Drop, Fails, kernel, TypeOK
  <2>2. \E command \in Commands \ {"rule"} : Goto(h, command)
    BY <1>6 DEF Step, Arrives, AddPart, SetElement, ClearElement, List, ListFails, Tee,
                TeeFails, Drop, Fails, Ends, Commands, Parts
  <2> QED
    BY <1>5, <2>1, <2>2, NothingAdded
<1>7. CASE UNCHANGED vars
  BY <1>7 DEF vars, RulesBounded, Adding
<1> QED
  BY <1>1, <1>2, <1>3, <1>4, <1>6, <1>7, <1>8 DEF Next

\* Every listing, on its way or saved, is of a table that kept the bound.
LEMMA ListingStep ==
    TypeOK /\ LocalsKnown /\ RulesBounded /\ ListingsBounded /\ [Next]_vars => ListingsBounded'
<1> SUFFICES ASSUME TypeOK, LocalsKnown, RulesBounded, ListingsBounded, [Next]_vars
             PROVE  ListingsBounded'
  OBVIOUS
<1>1. Bound \in Nat /\ Table.rules <= Bound
  BY AddingFinite DEF RulesBounded, Bound, Table, TypeOK
<1>2. ASSUME NEW h \in Handlers, List(h) PROVE ListingsBounded'
  BY <1>1, <1>2 DEF List, Goto, ListingsBounded, Bound, TypeOK, kernel
<1>3. ASSUME NEW h \in Handlers, Tee(h) PROVE ListingsBounded'
  <2>1. text[h].rules <= Bound
    BY <1>3 DEF Tee, ListingsBounded
  <2>2. saved' = text[h] /\ blind' = blind
    BY <1>3 DEF Tee
  <2>3. \A g \in Handlers : pc'[g] = "tee" => pc[g] = "tee" /\ text'[g] = text[g]
    BY <1>3 DEF Tee, Ends, Goto, TypeOK
  <2> QED
    BY <2>1, <2>2, <2>3 DEF ListingsBounded, Bound
<1>4. ASSUME saved' = saved \/ saved'.rules = 0, blind' \in Nat, blind' >= blind,
             \A h \in Handlers : pc'[h] = "tee" => pc[h] = "tee" /\ text'[h] = text[h]
      PROVE  ListingsBounded'
  <2>1. Bound' >= Bound /\ Bound' \in Nat
    BY <1>4, AddingFinite DEF Bound, TypeOK
  <2>2. saved.rules \in Nat /\ \A h \in Handlers : pc[h] = "tee" => text[h].rules \in Nat
    BY DEF TypeOK, LocalsKnown, Listings
  <2> QED
    BY <1>1, <1>4, <2>1, <2>2 DEF ListingsBounded
<1>5. ASSUME NEW h \in Handlers, Step(h), ~List(h), ~Tee(h) PROVE ListingsBounded'
  <2>1. (saved' = saved \/ saved'.rules = 0) /\ blind' \in Nat /\ blind' >= blind
    BY <1>5, TornType DEF Step, Arrives, AddPart, Look, LookFails, AddRule, SetElement, ClearElement,
                ListFails, TeeFails, Drop, Fails, TypeOK
  <2>2. \A g \in Handlers : pc'[g] = "tee" => pc[g] = "tee" /\ text'[g] = text[g]
    BY <1>5 DEF Step, Arrives, AddPart, Look, LookFails, AddRule, SetElement, ClearElement,
                ListFails, TeeFails, Drop, Fails, Ends, Goto, AfterTable, TypeOK
  <2> QED
    BY <1>4, <2>1, <2>2
<1>6. CASE Reboot \/ Killed
  <2>1. saved' = saved \/ saved'.rules = 0
    BY <1>6, LeftIsOld, TornType DEF Reboot, Killed, AllGone
  <2> QED
    BY <1>4, <1>6, <2>1 DEF Reboot, Killed, AllGone, TypeOK
<1>7. CASE UNCHANGED vars
  BY <1>4, <1>7 DEF vars, TypeOK
<1> QED
  BY <1>2, <1>3, <1>5, <1>6, <1>7 DEF Next

-----------------------------------------------------------------------------
(* The theorems.                                                           *)

\* The inductive invariant of every behaviour.
THEOREM Invariance == Spec => []IInv
<1>1. IInv /\ [Next]_vars => IInv'
  BY TypeStep, CountStep, ListingStep DEF IInv
<1> QED
  BY <1>1, InitHolds, PTL DEF Spec

\* The types of the specification.
THEOREM TypeCorrect == Spec => []TypeOK
  BY Invariance, PTL DEF IInv

\* However many operations there were, the chain holds no more SNAT rules
\* than there are concurrent handlers and failed looks.
THEOREM RulesStayBounded == Spec => []RulesBounded
  BY Invariance, PTL DEF IInv

-----------------------------------------------------------------------------
(* The file and the table.                                                 *)

\* A table that differs from the file, without a reason for it, is still
\* being changed: some handler has its listing ahead of it.
Settling ==
    saved # Table /\ drift = "none" => \E h \in Handlers : pc[h] \notin {"idle", "drop"}

LEMMA SettlingStep == TypeOK /\ LocalsKnown /\ Settling /\ [Next]_vars => Settling'
<1> SUFFICES ASSUME TypeOK, LocalsKnown, Settling, [Next]_vars PROVE Settling'
  OBVIOUS
<1> USE DEF kernel
<1>1. ASSUME NEW h \in Handlers, NEW command \in Commands \ {"idle", "drop"}, Goto(h, command)
      PROVE  Settling'
  <2>1. pc'[h] \notin {"idle", "drop"}
    BY <1>1 DEF Goto, TypeOK
  <2> QED
    BY <2>1 DEF Settling
<1>2. ASSUME NEW h \in Handlers,
             \/ AddPart(h, "table", "map") \/ AddPart(h, "map", "chain")
             \/ AddPart(h, "chain", "look") \/ Look(h) \/ LookFails(h) \/ AddRule(h)
             \/ SetElement(h) \/ ClearElement(h) \/ List(h)
      PROVE  Settling'
  <2>1. \E command \in Commands \ {"idle", "drop"} : Goto(h, command)
    BY <1>2 DEF AddPart, Look, LookFails, AddRule, SetElement, ClearElement, List, AfterTable,
                Commands, Parts
  <2> QED
    BY <1>1, <2>1
\* A handler that is idle, or drops, is not the one that is still to list.
<1>3. ASSUME NEW h \in Handlers, pc[h] \in {"idle", "drop"},
             UNCHANGED <<kernel, saved, drift>>, NEW command \in Commands, Goto(h, command)
      PROVE  Settling'
  <2>1. \A g \in Handlers : pc[g] \notin {"idle", "drop"} => pc'[g] = pc[g]
    BY <1>3 DEF Goto, TypeOK
  <2>2. Table' = Table
    BY <1>3 DEF Table
  <2> QED
    BY <1>3, <2>1, <2>2 DEF Settling
<1>4. ASSUME NEW h \in Handlers, NEW req \in Requests, Arrives(h, req) PROVE Settling'
  BY <1>3, <1>4 DEF Arrives, Commands, Parts
<1>5. ASSUME NEW h \in Handlers, Drop(h) PROVE Settling'
  <2>1. CASE drift' = "off"
    BY <2>1 DEF Settling
  <2>2. CASE UNCHANGED <<kernel, drift>>
    BY <1>3, <1>5, <2>2 DEF Drop, Ends, Commands
  <2> QED
    BY <1>5, <2>1, <2>2 DEF Drop
<1>6. ASSUME NEW h \in Handlers, ListFails(h) \/ TeeFails(h) \/ Fails(h) PROVE Settling'
  BY <1>6 DEF ListFails, TeeFails, Fails, Settling
<1>7. ASSUME NEW h \in Handlers, Tee(h) PROVE Settling'
  <2>1. Table' = Table
    BY <1>7 DEF Tee, Table
  <2> QED
    BY <1>7, <2>1 DEF Tee, Settling
<1>8. CASE Reboot
  <2>1. saved' \in Listings
    BY <1>8, LeftIsOld, TornType DEF Reboot, AllGone, TypeOK
  <2>2. Table' = saved'
    BY <1>8, <2>1 DEF Reboot, Table, Listings
  <2> QED
    BY <2>2 DEF Settling
<1>10. CASE Killed
  BY <1>10 DEF Killed, Settling
<1>9. CASE UNCHANGED vars
  <2>1. Table' = Table
    BY <1>9 DEF vars, Table
  <2> QED
    BY <1>9, <2>1 DEF vars, Settling
<1> QED
  BY <1>2, <1>4, <1>5, <1>6, <1>7, <1>8, <1>9, <1>10 DEF Next, Step

\* When no request is under way the file restores the table in force, unless
\* the table was dropped, a command failed, a listing was overtaken, or the
\* agent was killed during a request.
THEOREM FileFollowsTable == Spec => []SavedUnlessDrifted
<1>1. Init => Settling
  BY DEF Init, Settling
<1>2. IInv /\ Settling /\ [Next]_vars => Settling'
  BY SettlingStep DEF IInv
<1>3. Settling => SavedUnlessDrifted
  BY DEF Settling, SavedUnlessDrifted
<1> QED
  BY <1>1, <1>2, <1>3, Invariance, PTL DEF Spec
=============================================================================
