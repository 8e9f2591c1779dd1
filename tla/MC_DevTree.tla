----------------------------- MODULE MC_DevTree -----------------------------
(* Instances for DevTree: nine targets, and the options over them. *)
EXTENDS DevTree

El(unit, index) == [unit |-> unit, index |-> index]
Target(name, path, eco, hwas) == [name |-> name, path |-> path, eco |-> eco, hwas |-> hwas]

Sys    == <<El("sys", 0)>>
Proc1  == Append(Sys, El("proc", 1))
Proc10 == Append(Sys, El("proc", 10))
Fc     == Append(Proc10, El("fc", 0))

MCTargets == {
  Target("sys", Sys, NoEco, 224),
  Target("proc1", Proc1, NoEco, 192),
  Target("proc2", Append(Sys, El("proc", 2)), "on", 224),
  Target("proc10", Proc10, NoEco, 96),
  Target("fc", Fc, NoEco, 224),
  Target("core0", Append(Fc, El("core", 0)), "on", 228),
  Target("core1", Append(Fc, El("core", 1)), NoEco, 24),
  Target("omi0", Append(Proc10, El("omi", 0)), NoEco, 224),
  Target("omic0", Append(Proc10, El("omic", 0)), NoEco, 128)}

MCUnits  == <<"core", "fc", "mi", "omi", "omic", "proc", "sys">>
MCBegins == {<<"omi", "omic">>}
MCEnds   == {<<"mi", "omi">>}
MCInside == {<<"mi", "omic">>}

\* The last two end the script when a target is looked at: no such attribute, no value.
Conditions ==
  {{}, {[key |-> "ATTR_ECO_MODE", value |-> "on"]}}
    \cup {{[key |-> k, value |-> v]} : k \in {"FUNCTIONAL", "PRESENT", "SPECDECONFIG"}, v \in {"True", "False"}}
    \cup {{[key |-> "ATTR_NONE", value |-> "on"]}, {[key |-> "PRESENT", value |-> NoValue]}}

\* mi-0 is found in omi-0, and mi in omic-0, too.
MCArgs ==
  {[option |-> o] : o \in {"none", "-l", "-j"}}
    \cup {[option |-> "-t", name |-> n] : n \in {"proc10", "core1"}}
    \cup {[option |-> "-p", path |-> p] : p \in {Proc10, Proc1}}
    \cup {[option |-> "-n", path |-> p] :
            p \in {<<>>, Proc1, Fc, <<El("mi", 0)>>, <<El("mi", AnyIndex)>>}}
    \cup {[option |-> "-n -fullpath", path |-> p] : p \in {<<>>, Proc10, Proc1}}
    \cup {[option |-> "-f", text |-> El(u, x), conditions |-> c] :
            u \in {"proc", "omi"}, x \in {1, AnyIndex}, c \in Conditions}

=============================================================================
