------------------------------ MODULE DevTree ------------------------------
(***************************************************************************)
(* attr/devtree.py: the listing of attributes read from a file is taken     *)
(* apart (processFile) and, as the options say, targets are looked up by    *)
(* name or path, found by their attributes, put into a JSON tree, or the    *)
(* tree of their paths is printed.  An exception ends the script.           *)
(*                                                                         *)
(* A path is a sequence of elements such as proc-1.  A target is its name,  *)
(* its path, its ECO mode (or that it has none) and the byte of its HWAS    *)
(* state; which attributes of a target are printed, and how, is left out,   *)
(* and so are conditions on any other attribute that targets have.  The     *)
(* tree is printed one node per step.                                       *)
(***************************************************************************)
EXTENDS Naturals, FiniteSets, SequencesExt

CONSTANTS
  Units,        \* the units of elements, in alphabetical order
  TextBegins,   \* pairs <<u, v>> of units: v's text begins with u's, as omic with omi,
  TextEnds,     \* ends with it, as omi with mi,
  TextInside,   \* or has it inside
  Targets,      \* the targets a file may list
  MaxTargets,   \* bound: targets of a file
  Args          \* command lines

NoEco == "none"

\* The text of an element in an argument may have no index, and a condition no value.
AnyIndex == 1000
NoValue  == "no value"

\* What the bits 2 to 7 of the HWAS state stand for.
Hwas == <<"FUNCTIONALOVERRIDE", "SPECDECONFIG", "DUMPFUNCTIONAL", "FUNCTIONAL", "PRESENT", "POWEREDON">>

Elements == [unit : ToSet(Units), index : Nat]

ASSUME UnitsAssumption == Units \in Seq(ToSet(Units))
ASSUME TargetsAssumption ==
  \A t \in Targets :
    /\ t = [name |-> t.name, path |-> t.path, eco |-> t.eco, hwas |-> t.hwas]
    /\ t.path \in Seq(Elements) \ {<<>>}
    /\ t.hwas \in Nat
\* The path of a -nodes or -nodes -fullpath that goes without one is <<>>.
ASSUME ArgsAssumption ==
  \A a \in Args : a.option \in {"-n", "-n -fullpath"} => a.path \in Seq(Elements)

Paths == UNION {{SubSeq(t.path, 1, n) : n \in 1 .. Len(t.path)} : t \in Targets}

\* The script reads its input as it comes: in any order.
Files ==
  UNION {Injection(1 .. n, Targets) : n \in 1 .. MaxTargets}

\* "please enter a valid target", or path.
Invalid == <<>>

VARIABLES
  args,         \* sys.argv
  file,         \* what was read
  content,      \* file_content: the same, with the ECO modes processFile copies
  pc,           \* "process", "print", "finish", "below" and "behind" (printNodes),
                \* "done" or "crashed"
  idx,          \* the target the loop is at
  flag,         \* the global of that name
  Nodes,        \* the tree of listNodes, as the set of its paths
  k_v,          \* the JSON tree: the paths at which attributes of a target stand
  l,            \* the path of the node printNodes is at
  out           \* what was printed: paths, of targets or nodes, or the message Invalid

scriptVars == <<args, file, content, pc, idx, flag, Nodes, k_v, l, out>>

ScriptTypeOK ==
  /\ args \in Args
  /\ file \in Seq(Targets)
  /\ content \in Seq([name : {t.name : t \in Targets}, path : Paths,
                      eco : {t.eco : t \in Targets}, hwas : Nat])
  /\ Len(content) = Len(file)
  /\ pc \in {"process", "print", "finish", "below", "behind", "done", "crashed"}
  /\ idx \in 1 .. Len(file) + 1
  /\ flag \in {0, 1}
  /\ Nodes \subseteq Paths
  /\ k_v \subseteq Paths
  /\ l \in Paths \cup {<<>>}
  /\ out \in Seq(Paths \cup {Invalid})

ScriptInit ==
  /\ args \in Args
  /\ file \in Files
  /\ content = file
  /\ pc = "process"
  /\ idx = 1
  /\ flag = 0
  /\ Nodes = {} /\ k_v = {} /\ l = <<>> /\ out = <<>>

-----------------------------------------------------------------------------
(* Text: where a path or an element is searched for another one. *)

\* The decimal digits of n begin with those of m.
DigitsBegin(n, m) == n = m \/ (m > 0 /\ \E d \in {10, 100} : n \div d = m)

UnitBegins(v, u) == v = u \/ <<u, v>> \in TextBegins
UnitEnds(v, u)   == v = u \/ <<u, v>> \in TextEnds
UnitHas(v, u)    == v = u \/ <<u, v>> \in TextBegins \cup TextEnds \cup TextInside

\* An element begins with the text of an argument, or has it somewhere.
BeginsWith(e, arg) ==
  IF arg.index = AnyIndex THEN UnitBegins(e.unit, arg.unit)
  ELSE e.unit = arg.unit /\ DigitsBegin(e.index, arg.index)

Has(e, arg) ==
  IF arg.index = AnyIndex THEN UnitHas(e.unit, arg.unit)
  ELSE UnitEnds(e.unit, arg.unit) /\ DigitsBegin(e.index, arg.index)

FoundIn(path, arg) == \E k \in DOMAIN path : Has(path[k], arg)

\* -find looks at what stands behind the last slash.  It leaves in place the word
\* that getPath takes off, with which a path of one element begins.
LastBegins(path, arg) == Len(path) > 1 /\ BeginsWith(Last(path), arg)

-----------------------------------------------------------------------------
(* processFile: element n of the script's list is target n here, and there is *)
(* an empty list before the first target.                                   *)

IsCore0(t) == FoundIn(t.path, [unit |-> "core", index |-> 0])

\* The target before a core-0 takes over its ECO mode.
CopyEco == [content EXCEPT ![idx - 1].eco = content[idx].eco]

\* The empty list cannot take an attribute, and a core may have none to give.
CannotCopy == idx = 1 \/ content[idx].eco = NoEco

processFile ==
  /\ pc = "process"
  /\ idx <= Len(file)
  /\ IF IsCore0(content[idx])
     THEN IF CannotCopy
          THEN pc' = "crashed" /\ UNCHANGED <<content, idx>>
          ELSE content' = CopyEco /\ idx' = idx + 1 /\ UNCHANGED pc
     ELSE idx' = idx + 1 /\ UNCHANGED <<content, pc>>
  /\ UNCHANGED <<args, file, flag, Nodes, k_v, l, out>>

Processed ==
  /\ pc = "process"
  /\ idx = Len(file) + 1
  /\ pc' = "print" /\ idx' = 1
  /\ UNCHANGED <<args, file, content, flag, Nodes, k_v, l, out>>

-----------------------------------------------------------------------------
(* printTargets: one step per target, by option. *)

Here == content[idx]

PrintAt(option) ==
  /\ pc = "print"
  /\ idx <= Len(content)
  /\ args.option = option
  /\ UNCHANGED <<args, file, content, l>>

GoOn == idx' = idx + 1 /\ UNCHANGED pc

\* No option, or -list.
PrintAll ==
  /\ \E option \in {"none", "-l"} : PrintAt(option)
  /\ out' = Append(out, Here.path)
  /\ GoOn
  /\ UNCHANGED <<flag, Nodes, k_v>>

\* A fault: the dictionaries on the way to the target are always new ones.
PutAnew(tree, path) == {p \in tree : p[1] # path[1]} \cup {path}

\* The nested dictionaries down to the target are made as needed; its own
\* attributes replace what stands there.
PutAt(tree, path) == {p \in tree : ~IsPrefix(path, p)} \cup {path}

PrintJson ==
  /\ PrintAt("-j")
  /\ k_v' = PutAt(k_v, Here.path)
  /\ GoOn
  /\ UNCHANGED <<flag, Nodes, out>>

\* -target and -path: printSpecific, and the loop ends at a match.
Asked(t) == (args.option = "-t" /\ t.name = args.name) \/ (args.option = "-p" /\ t.path = args.path)

PrintSpecific ==
  /\ PrintAt("-t") \/ PrintAt("-p")
  /\ IF Asked(Here)
     THEN flag' = 1 /\ out' = Append(out, Here.path) /\ pc' = "finish" /\ UNCHANGED idx
     ELSE GoOn /\ UNCHANGED <<flag, out>>
  /\ UNCHANGED <<Nodes, k_v>>

\* -nodes <path> takes targets in whose path the text of each element is found.
Listed(t) == \A k \in DOMAIN args.path : FoundIn(t.path, args.path[k])

listNodes ==
  /\ PrintAt("-n") \/ PrintAt("-n -fullpath")
  /\ flag' = 1
  /\ Nodes' = IF args.option = "-n" /\ ~Listed(Here) THEN Nodes
              ELSE Nodes \cup {SubSeq(Here.path, 1, n) : n \in 1 .. Len(Here.path)}
  /\ GoOn
  /\ UNCHANGED <<k_v, out>>

-----------------------------------------------------------------------------
(* -find. *)

\* assignValues: the bits of the state, in the order of Hwas.
BitSet(t, name) == \E j \in 2 .. 7 : Hwas[j - 1] = name /\ (t.hwas \div 2^j) % 2 = 1

ValueOf(t, key) ==
  IF key = "ATTR_ECO_MODE" THEN t.eco
  ELSE IF BitSet(t, key) THEN "True" ELSE "False"

\* The script's flag says that a condition does not hold.
Mismatch(t) == \E c \in args.conditions : ValueOf(t, c.key) # c.value

HasAttribute(t, key) == key \in ToSet(Hwas) \/ (key = "ATTR_ECO_MODE" /\ t.eco # NoEco)

\* A fault: the ECO mode is looked up whatever the condition names.
NoEcoMode(t) == t.eco = NoEco /\ args.conditions # {}

\* A condition has no value, or names an attribute the target does not have.
CannotCompare(t) == \E c \in args.conditions : c.value = NoValue \/ ~HasAttribute(t, c.key)

\* A fault: the flag of the target before is not reset.
FlagKept == IF flag = 1 \/ Mismatch(Here) THEN 1 ELSE 0

FlagAfter == IF Mismatch(Here) THEN 1 ELSE 0

FindTargets ==
  /\ PrintAt("-f")
  /\ IF ~LastBegins(Here.path, args.text) THEN GoOn /\ flag' = 0 /\ UNCHANGED out
     ELSE IF CannotCompare(Here) THEN pc' = "crashed" /\ UNCHANGED <<idx, flag, out>>
     ELSE /\ flag' = FlagAfter
          /\ out' = IF flag' = 0 THEN Append(out, Here.path) ELSE out
          /\ GoOn
  /\ UNCHANGED <<Nodes, k_v>>

-----------------------------------------------------------------------------
(* After the loop. *)

RankOf(unit) == CHOOSE r \in DOMAIN Units : Units[r] = unit

\* A fault: indices are compared as text.
FirstDigit(n) == IF n < 10 THEN n ELSE n \div 10
TextSorted(e, f) ==
  \/ RankOf(e.unit) < RankOf(f.unit)
  \/ /\ e.unit = f.unit
     /\ \/ FirstDigit(e.index) < FirstDigit(f.index)
        \/ FirstDigit(e.index) = FirstDigit(f.index) /\ e.index < f.index

\* sortNodes: by the text before the last dash, then by the number after it.
Sorted(e, f) == RankOf(e.unit) < RankOf(f.unit) \/ (e.unit = f.unit /\ e.index < f.index)

Least(S) == CHOOSE e \in S : \A f \in S \ {e} : Sorted(e, f)

\* The nodes below one, by the last element of their paths.
Below(path) == {Last(p) : p \in {q \in Nodes : Len(q) = Len(path) + 1 /\ IsPrefix(path, q)}}

\* The node printNodes is called for.
Root == IF args.option = "-n" THEN <<>> ELSE args.path

\* printSubTree prints the path, which has to be given and to be in the tree, before
\* what is below it.
Finish ==
  /\ \/ pc = "print" /\ idx = Len(content) + 1
     \/ pc = "finish"
  /\ CASE args.option = "-n" ->
            pc' = "below" /\ UNCHANGED <<l, out>>
       [] args.option = "-n -fullpath" /\ args.path \in Nodes ->
            pc' = "below" /\ l' = args.path /\ out' = Append(out, args.path)
       [] args.option = "-n -fullpath" /\ args.path \notin Nodes ->
            pc' = "crashed" /\ UNCHANGED <<l, out>>
       [] args.option \in {"-t", "-p"} /\ flag = 0 ->
            pc' = "done" /\ out' = Append(out, Invalid) /\ UNCHANGED l
       [] OTHER ->
            pc' = "done" /\ UNCHANGED <<l, out>>
  /\ UNCHANGED <<args, file, content, idx, flag, Nodes, k_v>>

PrintNode(path) ==
  /\ l' = path
  /\ out' = Append(out, path)
  /\ pc' = "below"

\* printNodes goes down to the first node below the one it has printed.
PrintBelow ==
  /\ pc = "below"
  /\ IF Below(l) = {}
     THEN pc' = "behind" /\ UNCHANGED <<l, out>>
     ELSE PrintNode(Append(l, Least(Below(l))))
  /\ UNCHANGED <<args, file, content, idx, flag, Nodes, k_v>>

\* It is through with a node and goes on to the next one beside it, or returns.
PrintBehind ==
  /\ pc = "behind"
  /\ IF l = Root THEN pc' = "done" /\ UNCHANGED <<l, out>>
     ELSE LET ahead == {e \in Below(Front(l)) : Sorted(Last(l), e)}
          IN  IF ahead = {} THEN l' = Front(l) /\ UNCHANGED <<pc, out>>
              ELSE PrintNode(Append(Front(l), Least(ahead)))
  /\ UNCHANGED <<args, file, content, idx, flag, Nodes, k_v>>

ScriptFinished ==
  /\ pc \in {"done", "crashed"}
  /\ UNCHANGED scriptVars

ScriptNext ==
  \/ processFile
  \/ Processed
  \/ PrintAll
  \/ PrintJson
  \/ PrintSpecific
  \/ listNodes
  \/ FindTargets
  \/ Finish
  \/ PrintBelow
  \/ PrintBehind
  \/ ScriptFinished

ScriptSpec == ScriptInit /\ [][ScriptNext]_scriptVars

-----------------------------------------------------------------------------
(* Properties. *)

Done(option) == pc = "done" /\ args.option = option

\* The order in which a tree of paths is read: what is above comes before what
\* is below, and elements beside each other by unit and number.
Before(p, q) ==
  \/ IsStrictPrefix(p, q)
  \/ \E n \in DOMAIN p \cap DOMAIN q :
       /\ \A k \in 1 .. n - 1 : p[k] = q[k]
       /\ \/ RankOf(p[n].unit) < RankOf(q[n].unit)
          \/ p[n].unit = q[n].unit /\ p[n].index < q[n].index

\* -nodes prints every element of the tree once, in the order of the tree,
\* however the targets are ordered in the file (L63-109).
TreeInOrder ==
  Done("-n") \/ Done("-n -fullpath") =>
    \A m, n \in DOMAIN out : m < n => Before(out[m], out[n])

\* -nodes <path> leaves nothing out of the subtree it was asked for, although it
\* searches for the path's elements one by one and as text (L66-69).
SubtreeShown ==
  Done("-n") \/ Done("-n -fullpath") =>
    \A t \in ToSet(file) : IsPrefix(args.path, t.path) => t.path \in ToSet(out)

\* -nodes prints the tree in order and the whole subtree.
TreeShown == TreeInOrder /\ SubtreeShown

\* -target and -path print one target, the one asked for, or say that there is
\* none; never both, and nothing of other targets (L136-167, L229-238, L367).
FoundIsAsked ==
  Done("-t") \/ Done("-p") =>
    /\ Len(out) = 1
    /\ \/ \E t \in ToSet(file) : Asked(t) /\ out[1] = t.path
       \/ out[1] = Invalid /\ \A t \in ToSet(file) : ~Asked(t)

\* What the names of the HWAS state stand for.
Weight(name) ==
  CASE name = "POWEREDON" -> 128 [] name = "PRESENT" -> 64 [] name = "FUNCTIONAL" -> 32
    [] name = "DUMPFUNCTIONAL" -> 16 [] name = "SPECDECONFIG" -> 8 [] OTHER -> 4

Holds(t, c) ==
  IF c.key = "ATTR_ECO_MODE" THEN t.eco = c.value
  ELSE c.value = IF t.hwas % (2 * Weight(c.key)) >= Weight(c.key) THEN "True" ELSE "False"

Wanted(t) == LastBegins(t.path, args.text) /\ \A c \in args.conditions : Holds(t, c)

\* -find prints the targets below the top whose last element begins with the text
\* asked for (omic-0 for omi, too) and for which all the conditions hold, those and no
\* others, in the order of the file (L246-268, L24-32).
FindIsExact ==
  Done("-f") =>
    LET found == {n \in DOMAIN content : Wanted(content[n])}
    IN  /\ Len(out) = Cardinality(found)
        /\ \A n \in found : out[Cardinality({m \in found : m <= n})] = content[n].path

\* -target, -path and -find select exactly what they were asked for.
SelectsAsked == FoundIsAsked /\ FindIsExact

\* The JSON tree holds targets of the file only, and every one that no target above it
\* comes after: all of them, if what is above comes first (L184-216).
JsonHoldsOrdered ==
  Done("-j") =>
    /\ k_v \subseteq {t.path : t \in ToSet(file)}
    /\ \A n \in DOMAIN file :
         (\A later \in n + 1 .. Len(file) : ~IsStrictPrefix(file[later].path, file[n].path))
           => file[n].path \in k_v

\* help_usage.txt L60-62 says that -j displays all targets.
JsonHoldsAll == Done("-j") => \A t \in ToSet(file) : t.path \in k_v

\* A core-0 has no target before it, or no ECO mode to give (L119-121).
CopyFails == \E n \in DOMAIN file : IsCore0(file[n]) /\ (n = 1 \/ file[n].eco = NoEco)

\* -nodes -fullpath goes without a path, or with one that is not there (L277, L106).
PathMissing ==
  /\ args.option = "-n -fullpath"
  /\ args.path = <<>> \/ \A t \in ToSet(file) : ~IsPrefix(args.path, t.path)

\* The file, or a core-0 behind the target, gives it an ECO mode.
GivesEco(n) == file[n].eco # NoEco \/ (n < Len(file) /\ IsCore0(file[n + 1]))

\* A target looked at has not what a condition names, or the condition no value (L263).
ConditionFails ==
  /\ args.option = "-f"
  /\ \E n \in DOMAIN file :
       /\ LastBegins(file[n].path, args.text)
       /\ \E c \in args.conditions :
            \/ c.value = NoValue
            \/ c.key \notin ToSet(Hwas) /\ ~(c.key = "ATTR_ECO_MODE" /\ GivesEco(n))

\* The script ends with an exception in these cases and in no others: the file and the
\* command line decide it (L106, L119-121, L263, L277).
CrashIsExplained ==
  pc \in {"done", "crashed"} =>
    (pc = "crashed" <=> CopyFails \/ PathMissing \/ ConditionFails)

=============================================================================
