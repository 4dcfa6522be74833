------------------------------ MODULE NatEgress ------------------------------
(***************************************************************************)
(* Per-customer egress NAT: the accelnat table in the kernel, the file     *)
(* that restores it at boot, and the handlers that edit both.  A handler   *)
(* is a chain of nft commands, each awaited, so the commands of two        *)
(* handlers interleave freely; every command may also fail by itself, and  *)
(* the agent or the whole host may go down between any two of them.        *)
(***************************************************************************)
EXTENDS Naturals, FiniteSets

CONSTANTS
    Handlers,   \* concurrent requests
    Customers,  \* customer addresses
    Publics,    \* public addresses
    None,       \* no mapping, no table, no request
    MaxBoots,   \* bound: how often the host reboots
    MaxBlind    \* bound: how often the listing of the chain fails

ASSUME NoneAssumption == None \notin Publics \cup Customers
ASSUME FiniteAssumption == IsFiniteSet(Handlers)
ASSUME BoundAssumption == MaxBoots \in Nat /\ MaxBlind \in Nat

VARIABLES
    parts,   \* which of the table, its map and its chain exist
    map,     \* @cust_egress
    rules,   \* the number of SNAT rules in the chain
    saved,   \* /etc/accel-nat-egress.nft: what it restores
    pc,      \* the command each handler awaits next
    request, \* what each handler was asked for
    text,    \* the listing that _persist is about to write
    boots,
    blind,   \* how often the chain could not be listed
    drift    \* history: the latest reason why file and table may differ when all is quiet

kernel == <<parts, map, rules>>
vars == <<parts, map, rules, saved, pc, request, text, boots, blind, drift>>

Parts == {"table", "map", "chain"}
Maps == [Customers -> Publics \cup {None}]
Listings == [parts : SUBSET Parts, map : Maps, rules : Nat]
Table == [parts |-> parts, map |-> map, rules |-> rules]

Requests ==
    [op : {"set"}, customer : Customers, public : Publics]
        \cup [op : {"clear"}, customer : Customers, public : {None}]
        \cup [op : {"on", "off"}, customer : {None}, public : {None}]

Commands == Parts \cup {"idle", "look", "rule", "element", "list", "tee", "drop"}

TypeOK ==
    /\ parts \in SUBSET Parts
    /\ map \in Maps
    /\ rules \in Nat
    /\ saved \in Listings
    /\ pc \in [Handlers -> Commands]
    /\ request \in [Handlers -> Requests \cup {None}]
    /\ text \in [Handlers -> Listings \cup {None}]
    /\ boots \in 0..MaxBoots
    /\ blind \in 0..MaxBlind
    /\ drift \in {"none", "off", "failed", "overtaken", "killed"}

NoMap == [c \in Customers |-> None]

Init ==
    /\ parts = {}
    /\ map = NoMap
    /\ rules = 0
    /\ saved = Table
    /\ pc = [h \in Handlers |-> "idle"]
    /\ request = [h \in Handlers |-> None]
    /\ text = [h \in Handlers |-> None]
    /\ boots = 0
    /\ blind = 0
    /\ drift = "none"

-----------------------------------------------------------------------------

Goto(h, command) == pc' = [pc EXCEPT ![h] = command]

\* The request is answered, with success or with an error.
Ends(h) ==
    /\ Goto(h, "idle")
    /\ request' = [request EXCEPT ![h] = None]
    /\ text' = [text EXCEPT ![h] = None]

Arrives(h, req) ==
    /\ pc[h] = "idle"
    /\ request' = [request EXCEPT ![h] = req]
    /\ Goto(h, IF req.op = "off" THEN "drop" ELSE "table")
    /\ UNCHANGED <<kernel, saved, text, boots, blind, drift>>

\* A command that is checked fails: RuntimeError, and what was done stays.
Fails(h) ==
    /\ pc[h] \in Parts \cup {"rule", "element"}
    /\ Ends(h)
    /\ drift' = "failed"
    /\ UNCHANGED <<kernel, saved, boots, blind>>

\* nft add table, map, chain: no effect on what exists; a map or a chain
\* needs the table.
AddPart(h, part, next) ==
    /\ pc[h] = part
    /\ part = "table" \/ "table" \in parts
    /\ parts' = parts \cup {part}
    /\ Goto(h, next)
    /\ UNCHANGED <<map, rules, saved, request, text, boots, blind, drift>>

\* What follows the infrastructure: the element, or for "on" the listing.
AfterTable(h) == IF request[h].op = "on" THEN "list" ELSE "element"

\* Mutant: the rule is appended on every operation, as before DA-H04.
Look_Never(h) ==
    /\ pc[h] = "look"
    /\ Goto(h, "rule")
    /\ UNCHANGED <<kernel, saved, request, text, boots, blind, drift>>

\* nft list chain: is there a rule already?
Look(h) ==
    /\ pc[h] = "look"
    /\ Goto(h, IF rules = 0 THEN "rule" ELSE AfterTable(h))
    /\ UNCHANGED <<kernel, saved, request, text, boots, blind, drift>>

\* The listing fails; its return code is ignored and it shows no rule.
LookFails(h) ==
    /\ pc[h] = "look"
    /\ blind < MaxBlind
    /\ blind' = blind + 1
    /\ Goto(h, "rule")
    /\ UNCHANGED <<kernel, saved, request, text, boots, drift>>

\* nft add rule: always appends.
AddRule(h) ==
    /\ pc[h] = "rule"
    /\ {"map", "chain"} \subseteq parts
    /\ rules' = rules + 1
    /\ Goto(h, AfterTable(h))
    /\ UNCHANGED <<parts, map, saved, request, text, boots, blind, drift>>

\* nft add element: an error if the key is there with another value.
SetElement(h) ==
    /\ pc[h] = "element"
    /\ request[h].op = "set"
    /\ "map" \in parts
    /\ map[request[h].customer] \in {None, request[h].public}
    /\ map' = [map EXCEPT ![request[h].customer] = request[h].public]
    /\ Goto(h, "list")
    /\ UNCHANGED <<parts, rules, saved, request, text, boots, blind, drift>>

\* nft delete element: an error if the key is not there.
ClearElement(h) ==
    /\ pc[h] = "element"
    /\ request[h].op = "clear"
    /\ "map" \in parts
    /\ map[request[h].customer] # None
    /\ map' = [map EXCEPT ![request[h].customer] = None]
    /\ Goto(h, "list")
    /\ UNCHANGED <<parts, rules, saved, request, text, boots, blind, drift>>

\* Mutant: clearing a mapping is not persisted.
List_NotForClear(h) ==
    /\ pc[h] = "list"
    /\ "table" \in parts
    /\ IF request[h].op = "clear" THEN Ends(h)
       ELSE /\ text' = [text EXCEPT ![h] = Table]
            /\ Goto(h, "tee")
            /\ UNCHANGED request
    /\ UNCHANGED <<kernel, saved, boots, blind, drift>>

\* _persist, first half: nft list table.
List(h) ==
    /\ pc[h] = "list"
    /\ "table" \in parts
    /\ text' = [text EXCEPT ![h] = Table]
    /\ Goto(h, "tee")
    /\ UNCHANGED <<kernel, saved, request, boots, blind, drift>>

\* Mutant: the output of the failed listing is written all the same.
ListFails_Writes(h) ==
    /\ pc[h] = "list"
    /\ Goto(h, "tee")
    /\ UNCHANGED <<kernel, saved, request, text, boots, blind, drift>>

\* The listing fails, as it does once somebody deleted the table: nothing is
\* written, and the request succeeds all the same.
ListFails(h) ==
    /\ pc[h] = "list"
    /\ Ends(h)
    /\ drift' = "failed"
    /\ UNCHANGED <<kernel, saved, boots, blind>>

\* _persist, second half: the file gets what the table was when it was listed.
Tee(h) ==
    /\ pc[h] = "tee"
    /\ saved' = text[h]
    /\ drift' = IF text[h] = Table THEN "none" ELSE "overtaken"
    /\ Ends(h)
    /\ UNCHANGED <<kernel, boots, blind>>

\* tee truncates the file before it writes: what is cut off there is no
\* ruleset, and nft restores nothing from it.
Torn == [parts |-> {}, map |-> NoMap, rules |-> 0]

\* The return code of tee is ignored; a full disk leaves the file cut off.
TeeFails(h) ==
    /\ pc[h] = "tee"
    /\ saved' \in {saved, Torn}
    /\ Ends(h)
    /\ drift' = "failed"
    /\ UNCHANGED <<kernel, boots, blind>>

\* box-egress off: nft delete table, unchecked, and the file is left alone.
Drop(h) ==
    /\ pc[h] = "drop"
    /\ \/ parts' = {} /\ map' = NoMap /\ rules' = 0 /\ drift' = "off"
       \/ UNCHANGED <<kernel, drift>>
    /\ Ends(h)
    /\ UNCHANGED <<saved, boots, blind>>

\* What a sudden end may leave of the file.
Left == {saved} \cup {Torn : h \in {g \in Handlers : pc[g] = "tee"}}

\* No handler survives the process.
AllGone ==
    /\ saved' \in Left
    /\ pc' = [h \in Handlers |-> "idle"]
    /\ request' = [h \in Handlers |-> None]
    /\ text' = [h \in Handlers |-> None]

\* The agent is killed in the middle of a request, with the command that it
\* awaits, and systemd starts it again.  It remembers nothing of what it had
\* changed and not yet saved.
Killed ==
    /\ \E h \in Handlers : pc[h] # "idle"
    /\ AllGone
    /\ drift' = "killed"
    /\ UNCHANGED <<kernel, boots, blind>>

\* The host reboots and systemd loads the file.
Reboot ==
    /\ boots < MaxBoots
    /\ boots' = boots + 1
    /\ AllGone
    /\ parts' = saved'.parts /\ map' = saved'.map /\ rules' = saved'.rules
    /\ drift' = "none"
    /\ UNCHANGED blind

Step(h) ==
    \/ \E req \in Requests : Arrives(h, req)
    \/ AddPart(h, "table", "map") \/ AddPart(h, "map", "chain") \/ AddPart(h, "chain", "look")
    \/ Look(h) \/ LookFails(h) \/ AddRule(h) \/ SetElement(h) \/ ClearElement(h)
    \/ List(h) \/ ListFails(h) \/ Tee(h) \/ TeeFails(h) \/ Drop(h) \/ Fails(h)

Next == (\E h \in Handlers : Step(h)) \/ Killed \/ Reboot

Spec == Init /\ [][Next]_vars

-----------------------------------------------------------------------------
(* Properties.                                                             *)

Adding == {h \in Handlers : pc[h] = "rule"}

\* What the check of DA-H04 does achieve: the chain does not grow with the
\* number of operations, only with the handlers that overlapped between the
\* look and the add, and with the looks that failed.
RulesBounded == rules + Cardinality(Adding) <= Cardinality(Handlers) + blind

\* What its comment claims: the rule is never duplicated.
OneSnatRule == rules <= 1

\* When no request is under way the file restores the table that is in force,
\* unless since the last boot or the last file that told the truth the table
\* was switched off, a command failed, a listing was overtaken by another
\* handler before it was written, or the agent was killed during a request.
\* Each of these four does leave the two apart: the code prevents none.
SavedUnlessDrifted ==
    (\A h \in Handlers : pc[h] = "idle") /\ drift = "none" => saved = Table
=============================================================================
