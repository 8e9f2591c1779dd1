---------------------------- MODULE TargetTools ----------------------------
(***************************************************************************)
(* The command-line tools that scan the device tree and work on its chips:  *)
(* each main() sets the targeting up, loops over the targets of a class and *)
(* makes a few library calls per target.  A tool is given by what it does   *)
(* to one chip of a class; runs of tools go on side by side, may be killed, *)
(* and share the chips' registers and attributes.                           *)
(*                                                                         *)
(* The calls themselves (libpdbg, libphal, the FIFO and FSI drivers) are    *)
(* outside this repository: each one succeeds or fails, and is one step, as *)
(* the driver serves one request at a time.                                 *)
(***************************************************************************)
EXTENDS Naturals, Sequences, Functions

CONSTANTS
  Runs,           \* the runs of tools
  Mixes,          \* which tools run together: functions from Runs to tools
  Tree,           \* the chips, in the order of the device tree
  Class,          \* the class of a chip
  Index,          \* the number of a chip in its class
  SbeStates,      \* the states an SBE can be in
  MaxMoves        \* bound: how often an SBE changes state by itself

Chips == Range(Tree)
Cells == {"scom", "mru", "sbe"}

-----------------------------------------------------------------------------
(* Tools. *)

\* A step works on a device (the chip itself, or its pib, fsi or fifo), and
\* says what its failure means: "ignore" it, "continue" with the next chip,
\* "leave" the rest of the loop's body, "return" -1, or "crash" on a null
\* pointer.
Step(op, dev, fail, cell, var) ==
  [op |-> op, dev |-> dev, fail |-> fail, cell |-> cell, var |-> var]

Probe(dev, fail) == Step("probe", dev, fail, "none", "none")
Find(dev, fail)  == Step("find", dev, fail, "none", "none")
Call(dev, fail)  == Step("call", dev, fail, "none", "none")

Get(cell, var) == Step("get", "self", "ignore", cell, var)
Put(cell, var) == Step("put", "self", "ignore", cell, var)

\* The index of the processor above the target, which is only printed: a null
\* pointer is not checked for.  The tools that print it do so before they look
\* whether an OCMB is an Odyssey.
Parent == Find("parent", "crash")

\* A loop over the classes the body is given for: to the last of their targets,
\* or with a break at the end of the body, which a DDR4 OCMB never gets to.
EachOf(body)  == [body |-> body, breaks |-> {}]
FirstOf(body) == [body |-> body, breaks |-> DOMAIN body \ {"ddr4"}]

\* A fault: both reads are into the same variable.
sbescomOneVariable ==
  <<EachOf([odyssey |-> <<Probe("self", "return"), Get("scom", "orig"), Put("scom", "pattern"),
                          Get("scom", "orig"), Put("scom", "orig"), Get("scom", "mod")>>,
            ddr4    |-> <<Probe("self", "return"), Get("scom", "orig")>>])>>

\* A register is tried out with a pattern and put back.
sbescom ==
  <<EachOf([odyssey |-> <<Probe("self", "return"), Get("scom", "orig"), Put("scom", "pattern"),
                          Get("scom", "mod"), Put("scom", "orig"), Get("scom", "mod")>>,
            ddr4    |-> <<Probe("self", "return"), Get("scom", "orig")>>])>>

sbegetscom ==
  <<EachOf([odyssey |-> <<Get("scom", "orig")>>, ddr4 |-> <<Get("scom", "orig")>>])>>

ocmbsbescom ==
  <<EachOf([odyssey |-> <<Parent, Find("pib", "crash"), Probe("pib", "continue"),
                          Probe("self", "continue"), Get("scom", "orig")>>,
            ddr4    |-> <<Parent>>])>>

sbefifo ==
  <<FirstOf([odyssey |-> <<Parent, Probe("self", "return"), Find("fifo", "crash"),
                           Probe("fifo", "return"), Get("scom", "orig")>>,
             ddr4    |-> <<Parent>>])>>

\* The state of the SBE is read and written back, over an FSI device that is
\* not probed.
sbegetstate ==
  <<EachOf([odyssey |-> <<Parent, Probe("self", "continue"), Find("fsi", "crash"),
                          [Get("sbe", "orig") EXCEPT !.dev = "fsi"],
                          [Put("sbe", "orig") EXCEPT !.dev = "fsi"]>>,
            ddr4    |-> <<Parent>>])>>

\* A fault: the device is not probed.
sbecfamUnprobed ==
  <<EachOf([odyssey |-> <<Probe("self", "return"), Find("fsi", "crash"), Call("fsi", "ignore")>>])>>

sbecfam ==
  <<EachOf([odyssey |-> <<Probe("self", "return"), Find("fsi", "crash"),
                          Probe("fsi", "return"), Call("fsi", "ignore")>>])>>

sbekernel ==
  <<FirstOf([odyssey |-> <<Parent, Probe("self", "continue"), Find("pib", "continue"),
                           Call("pib", "continue")>>,
             ddr4    |-> <<Parent>>])>>

sbedump ==
  <<FirstOf([odyssey |-> <<Parent, Probe("self", "return"), Call("self", "ignore")>>,
             ddr4    |-> <<Parent>>])>>

\* A processor's FFDC and then an OCMB's; getPibTarget's probe may fail.
sbeffdc ==
  <<FirstOf([proc |-> <<Probe("self", "return"), Find("pib", "crash"),
                        Probe("pib", "ignore"), Call("pib", "ignore")>>]),
    FirstOf([odyssey |-> <<Probe("self", "return"), Call("self", "ignore")>>])>>

\* collectDumpFromSBE is DumpCollect's child; what it throws is caught.
collectdump ==
  <<FirstOf([odyssey |-> <<Probe("self", "return"), Get("scom", "orig"),
                           Call("self", "ignore")>>])>>

\* capturePOZFFDC, and createPOZSbeErrorPEL (SbeErrorPel) with what it returned.
multiffdc ==
  <<FirstOf([odyssey |-> <<Probe("self", "return"), Get("scom", "orig"), Call("self", "leave"),
                           Call("self", "ignore")>>])>>

extract ==
  <<FirstOf([odyssey |-> <<Parent, Call("self", "ignore")>>, ddr4 |-> <<Parent>>])>>

\* The PEL tools: what they call creates PELs (SbeErrorPel) and what it throws is
\* caught.
ffdcpel     == <<FirstOf([proc |-> <<Probe("self", "return"), Call("self", "ignore")>>])>>
ffdcpozpel  == <<FirstOf([proc |-> <<Probe("self", "return"), Call("self", "ignore")>>])>>
captureffdc == <<FirstOf([odyssey |-> <<Probe("self", "return"), Call("self", "ignore")>>])>>

createodypel ==
  <<FirstOf([proc |-> <<Parent, Probe("self", "return"), Call("self", "ignore")>>])>>

p12istep ==
  <<FirstOf([hubchip |-> <<Probe("self", "return"), Find("pib", "crash"),
                           Probe("pib", "return"), Call("pib", "ignore")>>])>>

\* ps_sppe_config_update, and ps_cbs_start whatever it returned.
p12startcbs ==
  <<FirstOf([hubchip |-> <<Probe("self", "return"), Find("pib", "crash"), Probe("pib", "return"),
                           Call("self", "ignore"), Call("self", "ignore")>>])>>

ocmbfapi ==
  <<EachOf([odyssey |-> <<Parent, Call("self", "ignore")>>, ddr4 |-> <<Parent>>])>>

\* The attribute is read and another value is written, to the processors the
\* path names: a path that is missing is checked for only before it is printed.
attr_write ==
  <<EachOf([proc |-> <<Parent, Get("mru", "orig"), Find("path", "crash"), Put("mru", "fixed")>>])>>
attr_read  == <<EachOf([proc |-> <<Parent, Get("mru", "orig")>>])>>

Tools ==
  [sbescom |-> sbescom, sbegetscom |-> sbegetscom, ocmbsbescom |-> ocmbsbescom,
   sbefifo |-> sbefifo, sbegetstate |-> sbegetstate, sbecfam |-> sbecfam,
   sbekernel |-> sbekernel, sbedump |-> sbedump, sbeffdc |-> sbeffdc,
   collectdump |-> collectdump, multiffdc |-> multiffdc, extract |-> extract,
   ffdcpel |-> ffdcpel, ffdcpozpel |-> ffdcpozpel, captureffdc |-> captureffdc,
   createodypel |-> createodypel,
   p12istep |-> p12istep, p12startcbs |-> p12startcbs, ocmbfapi |-> ocmbfapi,
   attr_write |-> attr_write, attr_read |-> attr_read]

\* Where a tool can be: a loop of it, and a chip of a class the loop is over.
Places ==
  [t \in DOMAIN Tools |->
     {p \in (1 .. Len(Tools[t])) \X (1 .. Len(Tree)) :
        Class[Tree[p[2]]] \in DOMAIN Tools[t][p[1]].body}]

\* What is done there.
Programs ==
  [t \in DOMAIN Tools |-> [p \in Places[t] |-> Tools[t][p[1]].body[Class[Tree[p[2]]]]]]

\* The targets behind one, and those of the loops behind its loop.
Precedes(p, q) == p[1] < q[1] \/ (p[1] = q[1] /\ p[2] < q[2])

NextTarget ==
  [t \in DOMAIN Tools |-> [p \in Places[t] |-> {q \in Places[t] : Precedes(p, q)}]]
NextLoop ==
  [t \in DOMAIN Tools |-> [p \in Places[t] |-> {q \in Places[t] : p[1] < q[1]}]]

First(S) == CHOOSE p \in S : \A q \in S : ~Precedes(q, p)

ASSUME TreeAssumption ==
  /\ Tree \in Seq(Chips)
  /\ \A i, j \in 1 .. Len(Tree) : Tree[i] = Tree[j] => i = j
  /\ Class \in [Chips -> {"proc", "odyssey", "ddr4", "hubchip"}]
  /\ Index \in [Chips -> 0 .. 7]            \* attr_write names proc0 to proc7
ASSUME MixesAssumption == Mixes \subseteq [Runs -> DOMAIN Tools]
ASSUME MovesAssumption == MaxMoves \in Nat
ASSUME StatesAssumption == "initial" \notin SbeStates

-----------------------------------------------------------------------------

VARIABLES
  run,            \* the state of each run, a process with its local variables
  cells,          \* what a register or attribute of a chip holds
  own,            \* history: what it would hold had no tool written to it
  disturbed,      \* history: cells whose test was cut short, failed or overlapped
  moves           \* how often an SBE has changed state by itself

vars == <<run, cells, own, disturbed, moves>>

Ends == {"ended", "return", "crash", "noInit", "killed"}

\* A variable of main that was not read into holds its initial value; the one
\* for the state of an SBE has none.
Values == {"own", "pattern", "even", "odd", "initial"} \cup SbeStates

Loop(x)    == Tools[x.tool][x.place[1]]
Chip(x)    == Tree[x.place[2]]
Program(x) == Programs[x.tool][x.place]
Now(x)     == Program(x)[x.step]

Started(t) ==
  [tool |-> t, place |-> <<1, 1>>, step |-> 1, orig |-> "initial", enabled |-> {}, end |-> "start"]

\* A process that is over; its variables are gone.
Over(x, end) == [Started(x.tool) EXCEPT !.end = end]

TypeOK ==
  /\ \A r \in Runs :
       /\ run[r].tool \in DOMAIN Tools
       /\ run[r].end \in Ends \cup {"start", "running"}
       /\ run[r].end = "running" =>
            /\ run[r].place \in Places[run[r].tool]
            /\ run[r].step \in 1 .. Len(Program(run[r]))
       /\ run[r].orig \in Values
       /\ run[r].enabled \subseteq {"self", "pib", "fsi", "fifo"}
  /\ cells \in [Chips \X Cells -> Values]
  /\ own \in [Chips \X Cells -> Values]
  /\ disturbed \subseteq Chips \X Cells
  /\ moves \in 0 .. MaxMoves

Init ==
  /\ \E mix \in Mixes : run = [r \in Runs |-> Started(mix[r])]
  /\ \E s \in SbeStates :
       cells = [k \in Chips \X Cells |-> IF k[2] = "sbe" THEN s ELSE "own"]
  /\ own = cells
  /\ disturbed = {}
  /\ moves = 0

-----------------------------------------------------------------------------
(* Where a run goes. *)

\* At the first of the places ahead, or past the last one, with new local
\* variables.
EnterPlace(x, ahead) ==
  IF ahead = {} THEN Over(x, "ended")
  ELSE [Started(x.tool) EXCEPT !.place = First(ahead), !.end = "running"]

\* A fault: the loop stays at its target.
StaysThere(x) == {x.place}

BodyEnds(x) ==
  IF Class[Chip(x)] \in Loop(x).breaks
  THEN NextLoop[x.tool][x.place]
  ELSE NextTarget[x.tool][x.place]

After(x, how) ==
  CASE how \in {"return", "crash"} -> Over(x, how)
    [] how = "continue" -> EnterPlace(x, NextTarget[x.tool][x.place])
    [] how = "next" /\ x.step < Len(Program(x)) -> [x EXCEPT !.step = @ + 1]
    [] OTHER -> EnterPlace(x, BodyEnds(x))

Succeeded(x) == After(x, "next")
Failed(x)    == After(x, IF Now(x).fail = "ignore" THEN "next" ELSE Now(x).fail)

\* The cell a run is testing: it is between reading the cell and putting back
\* what it has read.
Tested(x) ==
  IF x.end # "running" THEN {}
  ELSE LET p    == Program(x)
           read == {p[i].cell : i \in {k \in 1 .. x.step - 1 : p[k].op = "get" /\ p[k].var = "orig"}}
           put  == {p[i].cell : i \in {k \in x.step .. Len(p) : p[k].op = "put" /\ p[k].var = "orig"}}
       IN  {Chip(x)} \X (read \cap put)

\* The cells that the runs other than r are testing.
TestedBesides(r) == UNION {Tested(run[q]) : q \in Runs \ {r}}

-----------------------------------------------------------------------------
(* Actions. *)

Continue(r, x) ==
  /\ run' = [run EXCEPT ![r] = x]
  /\ UNCHANGED <<own, moves>>

At(r, op) == run[r].end = "running" /\ Now(run[r]).op = op

\* The environment is set and the targeting initialized, or main returns 0.
Begin(r) ==
  /\ run[r].end = "start"
  /\ \/ Continue(r, EnterPlace(run[r], Places[run[r].tool]))
     \/ Continue(r, Over(run[r], "noInit"))
  /\ UNCHANGED <<cells, disturbed>>

\* pdbg_target_probe enables a device or does not.
DoProbe(r) ==
  /\ At(r, "probe")
  /\ \/ Continue(r, Succeeded([run[r] EXCEPT !.enabled = @ \cup {Now(run[r]).dev}]))
     \/ Continue(r, Failed(run[r]))
  /\ UNCHANGED <<cells, disturbed>>

\* A device is looked up, or a call made that leaves the cells alone.
DoCall(r) ==
  /\ At(r, "find") \/ At(r, "call")
  /\ \/ Continue(r, Succeeded(run[r]))
     \/ Continue(r, Failed(run[r]))
  /\ UNCHANGED <<cells, disturbed>>

\* What is read into another variable than orig is only printed.
DoGet(r) ==
  /\ At(r, "get")
  /\ LET x == run[r]
         k == <<Chip(x), Now(x).cell>>
         y == Succeeded(IF Now(x).var = "orig" THEN [x EXCEPT !.orig = cells[k]] ELSE x)
         z == Failed(x)
     IN  \/ /\ Continue(r, y)
            /\ disturbed' = disturbed \cup (Tested(y) \cap TestedBesides(r))
         \/ /\ Continue(r, z)
            /\ disturbed' = disturbed \cup
                 (IF Now(x).var = "orig" THEN Tested(z) ELSE {})
  /\ UNCHANGED cells

\* What a put writes: an uninitialized state is any state.
Written(x) ==
  CASE Now(x).var = "pattern" -> {"pattern"}
    [] Now(x).var = "fixed" -> {IF Index[Chip(x)] % 2 = 0 THEN "even" ELSE "odd"}
    [] OTHER -> IF x.orig = "initial" /\ Now(x).cell = "sbe" THEN SbeStates ELSE {x.orig}

DoPut(r) ==
  /\ At(r, "put")
  /\ LET x == run[r]
         k == <<Chip(x), Now(x).cell>>
     IN  \/ /\ Continue(r, Succeeded(x))
            /\ \E v \in Written(x) : cells' = [cells EXCEPT ![k] = v]
            /\ UNCHANGED disturbed
         \/ /\ Continue(r, Failed(x))
            /\ disturbed' = disturbed \cup (IF Now(x).var = "orig" THEN {k} ELSE {})
            /\ UNCHANGED cells

\* The user interrupts a run.
Killed(r) ==
  /\ run[r].end = "running"
  /\ disturbed' = disturbed \cup Tested(run[r])
  /\ Continue(r, Over(run[r], "killed"))
  /\ UNCHANGED cells

\* The SBE, or the host firmware, changes the state of an SBE.
SbeMoves(c, s) ==
  /\ moves < MaxMoves
  /\ Class[c] = "odyssey"
  /\ s # cells[<<c, "sbe">>]
  /\ moves' = moves + 1
  /\ cells' = [cells EXCEPT ![<<c, "sbe">>] = s]
  /\ own' = [own EXCEPT ![<<c, "sbe">>] = s]
  /\ disturbed' = disturbed \cup ({<<c, "sbe">>} \cap UNION {Tested(run[r]) : r \in Runs})
  /\ UNCHANGED run

RunStep(r) == Begin(r) \/ DoProbe(r) \/ DoCall(r) \/ DoGet(r) \/ DoPut(r)

Finished ==
  /\ \A r \in Runs : run[r].end \in Ends
  /\ UNCHANGED vars

Next ==
  \/ \E r \in Runs : RunStep(r) \/ Killed(r)
  \/ \E c \in Chips, s \in SbeStates : SbeMoves(c, s)
  \/ Finished

\* The kernel schedules every run, and the calls return.
Spec == Init /\ [][Next]_vars /\ \A r \in Runs : WF_vars(RunStep(r))

-----------------------------------------------------------------------------
(* Properties. *)

\* A register that sbescom tries out, and an SBE state that sbegetstate writes
\* back, hold what they would without the tools whenever no run is between its
\* read and its write, unless such a test was killed, a read or the restoring
\* write failed, two tests overlapped or the SBE moved under one (sbescom.cpp
\* L123-143, sbegetstate.cpp L137-145).
PutBack ==
  \A k \in (Chips \X {"scom", "sbe"}) \ (disturbed \cup UNION {Tested(run[r]) : r \in Runs}) :
    cells[k] = own[k]

\* What the tools use without a successful probe of it, by intent or not.
Unprobed ==
  {<<"sbegetscom", "self">>, <<"sbegetstate", "fsi">>, <<"sbekernel", "pib">>,
   <<"sbeffdc", "pib">>, <<"extract", "self">>, <<"ocmbfapi", "self">>,
   <<"attr_write", "self">>, <<"attr_read", "self">>}

\* A tool that acts on the result of a probe uses the device only if the probe
\* enabled it, whichever targets before it failed and however the tool goes on
\* after a failure.  (sbeffdc does not act on the result of its pib's probe,
\* L110-113, and uses the pib whatever it was.)
UsesEnabled ==
  \A r \in Runs :
    At(r, "get") \/ At(r, "put") \/ At(r, "call") =>
      \/ Now(run[r]).dev \in run[r].enabled
      \/ <<run[r].tool, Now(run[r]).dev>> \in Unprobed

\* Every run comes to an end, whatever fails.
RunsEnd == \A r \in Runs : <>(run[r].end \in Ends)

=============================================================================
