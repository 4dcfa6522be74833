---------------------------- MODULE SectionEditors ----------------------------
(***************************************************************************)
(* The edits of /etc/accel-ppp.conf line by line: address pools, PPPoE     *)
(* interfaces, and the keys of [pppoe] that the runtime, PADO and limits   *)
(* requests set.  A line is a key with a value; the key "[" is the header  *)
(* of a section.  An edit reads the file, rebuilds it in one pass and      *)
(* writes it, without a pause.                                             *)
(***************************************************************************)
EXTENDS Naturals, Sequences, FiniteSets, SequencesExt

CONSTANTS Files,     \* the files there may be in the beginning
          Names,     \* names of pools and of interfaces
          Settings,  \* values a key may be set to
          MaxEdits   \* bound: edits of the file

ASSUME FilesAssumption == \A f \in Files : f \in Seq(ToSet(f))
ASSUME MaxEditsAssumption == MaxEdits \in Nat

VARIABLES lines,  \* the lines of the file
          edits,  \* how often it was edited
          edit,   \* history: the last edit
          was     \* history: the lines before it

editorVars == <<lines, edits, edit, was>>

PoolEdits == [op : {"add_pool", "remove_pool"}, name : Names]
InterfaceEdits == [op : {"add_interface", "remove_interface"}, name : Names]

\* A request may leave keys out; pado-delay-sessions 0 stands for no such line.
Partly(keys) == UNION {[some -> Settings] : some \in SUBSET keys}
KeyEdits ==
  [op : {"runtime"}, wanted : Partly({"service-name", "ac-name", "verbose"})]
    \cup [op : {"limits"}, wanted : Partly({"max-sessions", "max-starting"})]
    \cup [op : {"pado"}, wanted : {w \in [{"pado-delay", "pado-delay-sessions"} -> Settings \cup {0}] :
                                     w["pado-delay"] # 0}]

-----------------------------------------------------------------------------
(* What is read from a file.                                               *)

\* Every line with the section it stands in.
Section(placed) == IF placed = << >> THEN "" ELSE Last(placed)[1]

PlacedStep(placed, line) ==
  Append(placed, <<IF line[1] = "[" THEN line[2] ELSE Section(placed), line[1], line[2]>>)

Placed(f) == FoldLeft(LAMBDA placed, line : PlacedStep(placed, line), << >>, f)

\* The values of a key in the sections of a name.
EntriesStep(found, p, section, key) ==
  IF p[1] = section /\ p[2] = key THEN Append(found, p[3]) ELSE found

Entries(f, section, key) ==
  FoldLeft(LAMBDA found, p : EntriesStep(found, p, section, key), << >>, Placed(f))

list_pools(f) == Entries(f, "ip-pool", "pool")
list_interfaces(f) == Entries(f, "pppoe", "interface")

\* The last line of a key counts.
Setting(f, key) ==
  LET found == Entries(f, "pppoe", key) IN IF found = << >> THEN 0 ELSE Last(found)

-----------------------------------------------------------------------------
(* The edits.  Each is a pass over the lines with what is written so far,  *)
(* whether the line is in the section, and what the section has got.       *)

Start == [out |-> << >>, in |-> FALSE, done |-> {}]

\* At the end of the first section, which may be the end of the file.
PoolAdded(a, name) == IF a.in /\ a.done = {} THEN Append(a.out, <<"pool", name>>) ELSE a.out

AddPoolStep(a, line, name) ==
  IF line[1] # "[" THEN [a EXCEPT !.out = Append(@, line)]
  ELSE [out |-> Append(PoolAdded(a, name), line), in |-> line[2] = "ip-pool",
        done |-> IF a.in THEN {"pool"} ELSE a.done]

AddPool(f, name) ==
  PoolAdded(FoldLeft(LAMBDA a, line : AddPoolStep(a, line, name), Start, f), name)

RemovePoolStep(a, line, name) ==
  IF line[1] = "[" THEN [a EXCEPT !.out = Append(@, line), !.in = line[2] = "ip-pool"]
  ELSE IF a.in /\ line[1] = "pool" /\ line[2] = name THEN [a EXCEPT !.done = {"pool"}]
  ELSE [a EXCEPT !.out = Append(@, line)]

RemovePool(f, name) ==
  FoldLeft(LAMBDA a, line : RemovePoolStep(a, line, name), Start, f).out

\* The whole list, where the first interface stood or at the end of the
\* section: of every section of that name.
Listed(a, names) ==
  IF a.in /\ a.done = {} THEN a.out \o [i \in DOMAIN names |-> <<"interface", names[i]>>] ELSE a.out

RebuildStep(a, line, names) ==
  IF line[1] = "["
  THEN [out |-> Append(Listed(a, names), line), in |-> line[2] = "pppoe", done |-> {}]
  ELSE IF a.in /\ line[1] = "interface"
       THEN [a EXCEPT !.out = Listed(a, names), !.done = {"interface"}]
  ELSE [a EXCEPT !.out = Append(@, line)]

\* Mutant: the list is not written at the end of the file.
Rebuild_NoFlush(f, names) ==
  FoldLeft(LAMBDA a, line : RebuildStep(a, line, names), Start, f).out

Rebuild(f, names) ==
  Listed(FoldLeft(LAMBDA a, line : RebuildStep(a, line, names), Start, f), names)

Without(names, name) ==
  FoldLeft(LAMBDA kept, n : IF n = name THEN kept ELSE Append(kept, n), << >>, names)

KeyOrder == <<"service-name", "ac-name", "verbose", "max-sessions",
              "max-starting", "pado-delay", "pado-delay-sessions">>

WithKey(out, wanted, key) ==
  IF wanted[key] = 0 THEN out ELSE Append(out, <<key, wanted[key]>>)

\* The keys that the section has not got, in their order.
MissingStep(out, key, wanted, done) ==
  IF key \in DOMAIN wanted \ done THEN WithKey(out, wanted, key) ELSE out

Completed(a, wanted) ==
  IF a.in THEN FoldLeft(LAMBDA out, key : MissingStep(out, key, wanted, a.done), a.out, KeyOrder)
  ELSE a.out

\* Mutant: a key is set in whatever section it stands.
SetKeysStep_AnySection(a, line, wanted, afresh) ==
  IF line[1] = "["
  THEN [out |-> Append(Completed(a, wanted), line), in |-> line[2] = "pppoe",
        done |-> IF afresh THEN {} ELSE IF a.in THEN DOMAIN wanted ELSE a.done]
  ELSE IF line[1] \in DOMAIN wanted
       THEN [a EXCEPT !.out = WithKey(@, wanted, line[1]), !.done = @ \cup {line[1]}]
  ELSE [a EXCEPT !.out = Append(@, line)]

\* A line of a wanted key is replaced, wherever in the section; what is
\* missing is added at its end.  afresh: every section starts with nothing
\* set; otherwise what an earlier one has got counts for the later ones.
SetKeysStep(a, line, wanted, afresh) ==
  IF line[1] = "["
  THEN [out |-> Append(Completed(a, wanted), line), in |-> line[2] = "pppoe",
        done |-> IF afresh THEN {} ELSE IF a.in THEN DOMAIN wanted ELSE a.done]
  ELSE IF a.in /\ line[1] \in DOMAIN wanted
       THEN [a EXCEPT !.out = WithKey(@, wanted, line[1]), !.done = @ \cup {line[1]}]
  ELSE [a EXCEPT !.out = Append(@, line)]

SetKeys(f, wanted, afresh) ==
  Completed(FoldLeft(LAMBDA a, line : SetKeysStep(a, line, wanted, afresh), Start, f), wanted)

\* The edits that are not refused.
Accepts(f, e) ==
  CASE e.op = "add_pool"         -> ~Contains(list_pools(f), e.name)
    [] e.op = "remove_pool"      -> Contains(list_pools(f), e.name)
    [] e.op = "add_interface"    -> ~Contains(list_interfaces(f), e.name)
    [] e.op = "remove_interface" -> Contains(list_interfaces(f), e.name)
    [] e.op = "runtime"          -> DOMAIN e.wanted # {}
    [] OTHER                     -> TRUE

Edited(f, e) ==
  CASE e.op = "add_pool"         -> AddPool(f, e.name)
    [] e.op = "remove_pool"      -> RemovePool(f, e.name)
    [] e.op = "add_interface"    -> Rebuild(f, Append(list_interfaces(f), e.name))
    [] e.op = "remove_interface" -> Rebuild(f, Without(list_interfaces(f), e.name))
    [] OTHER                     -> SetKeys(f, e.wanted, e.op # "runtime")

Edits == PoolEdits \cup InterfaceEdits \cup KeyEdits

EditorsInit ==
  /\ lines \in Files /\ was = lines
  /\ edits = 0 /\ edit = [op |-> "none"]

\* What is refused leaves the file alone.
EditorsNext ==
  \E e \in Edits :
    /\ Accepts(lines, e) /\ edits < MaxEdits
    /\ lines' = Edited(lines, e)
    /\ edits' = edits + 1 /\ edit' = e /\ was' = lines

EditorsSpec == EditorsInit /\ [][EditorsNext]_editorVars

-----------------------------------------------------------------------------
\* No edit touches what it is not about: the lines of other sections and the
\* other lines of its own section stay as they are and in their order.
About(e, p) ==
  CASE e \in PoolEdits      -> p = <<"ip-pool", "pool", e.name>>
    [] e \in InterfaceEdits -> p[1] = "pppoe" /\ p[2] = "interface"
    [] OTHER                -> p[1] = "pppoe" /\ p[2] \in DOMAIN e.wanted

OthersStep(kept, p, e) == IF About(e, p) THEN kept ELSE Append(kept, p)

Others(f, e) == FoldLeft(LAMBDA kept, p : OthersStep(kept, p, e), << >>, Placed(f))

OthersKept == edits > 0 => Others(lines, edit) = Others(was, edit)

\* An edit shows in what is read afterwards, provided the file has its
\* section, however often: a pool or an interface is listed or is gone with
\* the others kept, and every key set reads as wanted, even if it stood there
\* more than once.
EditShows ==
  LET section   == IF edit \in PoolEdits THEN "ip-pool" ELSE "pppoe"
      listed(f) == ToSet(IF edit \in PoolEdits THEN list_pools(f) ELSE list_interfaces(f))
  IN  edits > 0 /\ Contains(was, <<"[", section>>) =>
        IF edit \in KeyEdits
        THEN \A key \in DOMAIN edit.wanted : Setting(lines, key) = edit.wanted[key]
        ELSE listed(lines) = IF edit.op \in {"add_pool", "add_interface"}
                             THEN listed(was) \cup {edit.name} ELSE listed(was) \ {edit.name}
=============================================================================
