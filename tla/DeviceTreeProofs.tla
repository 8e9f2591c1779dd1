-------------------------- MODULE DeviceTreeProofs --------------------------
(***************************************************************************)
(* Two ways over the targets of the device tree.                            *)
(*                                                                         *)
(* The tools, for any runs of them on any device tree, whichever calls fail *)
(* and whoever is killed: a device is used behind its probe, and a register *)
(* that is tried out is put back.  What depends on the text of a tool is    *)
(* said of one program at a time (Sound), and checked program by program;   *)
(* the rest of the argument is about any sound programs.                    *)
(*                                                                         *)
(* The attribute script, for any listing and any command line: what it      *)
(* selects, puts into the JSON tree and prints of the tree of nodes, and    *)
(* when it ends in an exception.                                            *)
(***************************************************************************)
EXTENDS TargetTools, DevTree, TLAPS, WellFoundedInduction, FiniteSetTheorems, SequenceTheorems

LEMMA LeastNatural ==
  ASSUME NEW S \in SUBSET Nat, S # {}
  PROVE  \E m \in S : \A x \in S : m <= x
<1>1. PICK m \in S : \A y \in S : ~ (<<y, m>> \in OpToRel(<, Nat))
  BY WFMin, NatLessThanWellFounded, Zenon
<1>2. \A y \in S : ~ (y < m)
  BY <1>1 DEF OpToRel
<1>. QED
  BY <1>2

-----------------------------------------------------------------------------
(* The tools. *)

Devices == {"self", "pib", "fsi", "fifo"}

\* A cell is under test at step j of a program: it has been read, and what was read
\* will be put back.
UnderTest(p, j, c) ==
  /\ \E i \in 1 .. j - 1 : p[i].op = "get" /\ p[i].var = "orig" /\ p[i].cell = c
  /\ \E i \in j .. Len(p) : p[i].op = "put" /\ p[i].var = "orig" /\ p[i].cell = c

StepTyped(s) ==
  /\ s.op \in {"probe", "find", "call", "get", "put"}
  /\ s.op = "probe" => s.dev \in Devices
  /\ s.op \in {"get", "put"} => s.cell \in Cells /\ s.fail = "ignore"
  /\ s.op = "put" => s.var \in {"pattern", "fixed", "orig"}
  /\ s.fail \in {"ignore", "continue", "leave", "return", "crash"}

\* Only puts and reads into another variable happen within a test, and what a put
\* writes to is under test, but for the attribute.
Reads(s) == s.op = "get" /\ s.var = "orig"

StepInTest(p, j) ==
  /\ p[j].op \in {"probe", "find", "call"} \/ Reads(p[j]) =>
       \A c \in Cells : ~UnderTest(p, j, c)
  /\ p[j].op = "put" /\ p[j].cell \in {"scom", "sbe"} => UnderTest(p, j, p[j].cell)

\* A step that uses a device is behind a probe of it that may not fail.
Probes(s) == s.op = "probe" /\ s.fail # "ignore"

StepGuarded(t, p, j) ==
  p[j].op \in {"get", "put", "call"} =>
    \/ <<t, p[j].dev>> \in Unprobed
    \/ \E i \in 1 .. j - 1 : Probes(p[i]) /\ p[i].dev = p[j].dev

Sound(t, p) ==
  /\ Len(p) \in Nat \ {0}
  /\ \A j \in 1 .. Len(p) : StepTyped(p[j]) /\ StepInTest(p, j) /\ StepGuarded(t, p, j)

-----------------------------------------------------------------------------
(* The programs of the tools, one by one. *)

\* What the tools do to a DDR4 OCMB.
LEMMA ParentIsSound ==
  ASSUME NEW t
  PROVE  Sound(t, <<Parent>>)
<1>. DEFINE p == <<Parent>>
<1>1. Len(p) = 1 /\ 1 .. Len(p) = {1}
  OBVIOUS
<1>2. p[1].op = "find" /\ p[1].fail = "crash"
  BY DEF Parent, Find, Step
<1>. QED
  BY <1>1, <1>2 DEF Sound, StepTyped, StepInTest, StepGuarded, Reads, UnderTest

LEMMA ProgramsAreSound ==
  ASSUME NEW t \in DOMAIN Tools, NEW loop \in 1 .. Len(Tools[t]),
         NEW c \in DOMAIN Tools[t][loop].body
  PROVE  Sound(t, Tools[t][loop].body[c])
<1>. USE DEF Step, Probe, Find, Parent, Call, Get, Put, EachOf, FirstOf, Tools
<1>. DEFINE here == Tools[t][loop].body[c]
<1>1. CASE t = "sbescom"
  <2>. DEFINE p == <<Probe("self", "return"), Get("scom", "orig"), Put("scom", "pattern"),
                     Get("scom", "mod"), Put("scom", "orig"), Get("scom", "mod")>>
  <2>. DEFINE q == <<Probe("self", "return"), Get("scom", "orig")>>
  <2>1. here \in {p, q}
    BY <1>1 DEF sbescom
  <2>2. Sound("sbescom", p)
    <3>1. Len(p) = 6 /\ 1 .. Len(p) = {1, 2, 3, 4, 5, 6}
      OBVIOUS
    <3>. QED
      BY <3>1 DEF Sound, StepTyped, StepInTest, StepGuarded, Reads, Probes,
            UnderTest, Unprobed, Cells, Devices
  <2>3. Sound("sbescom", q)
    <3>1. Len(q) = 2 /\ 1 .. Len(q) = {1, 2}
      OBVIOUS
    <3>. QED
      BY <3>1 DEF Sound, StepTyped, StepInTest, StepGuarded, Reads, Probes,
            UnderTest, Unprobed, Cells, Devices
  <2>. QED
    BY <1>1, <2>1, <2>2, <2>3
<1>2. CASE t = "sbegetscom"
  <2>. DEFINE p == <<Get("scom", "orig")>>
  <2>1. here = p
    BY <1>2 DEF sbegetscom
  <2>2. Sound("sbegetscom", p)
    <3>1. Len(p) = 1 /\ 1 .. Len(p) = {1}
      OBVIOUS
    <3>. QED
      BY <3>1 DEF Sound, StepTyped, StepInTest, StepGuarded, Reads, Probes,
            UnderTest, Unprobed, Cells, Devices
  <2>. QED
    BY <1>2, <2>1, <2>2
<1>3. CASE t = "ocmbsbescom"
  <2>. DEFINE p == <<Parent, Find("pib", "crash"), Probe("pib", "continue"),
                       Probe("self", "continue"), Get("scom", "orig")>>
  <2>1. here \in {p, <<Parent>>}
    BY <1>3 DEF ocmbsbescom
  <2>2. Sound("ocmbsbescom", p)
    <3>1. Len(p) = 5 /\ 1 .. Len(p) = {1, 2, 3, 4, 5}
      OBVIOUS
    <3>. QED
      BY <3>1 DEF Sound, StepTyped, StepInTest, StepGuarded, Reads, Probes,
            UnderTest, Unprobed, Cells, Devices
  <2>. QED
    BY <1>3, <2>1, <2>2, ParentIsSound
<1>4. CASE t = "sbefifo"
  <2>. DEFINE p == <<Parent, Probe("self", "return"), Find("fifo", "crash"),
                       Probe("fifo", "return"), Get("scom", "orig")>>
  <2>1. here \in {p, <<Parent>>}
    BY <1>4 DEF sbefifo
  <2>2. Sound("sbefifo", p)
    <3>1. Len(p) = 5 /\ 1 .. Len(p) = {1, 2, 3, 4, 5}
      OBVIOUS
    <3>. QED
      BY <3>1 DEF Sound, StepTyped, StepInTest, StepGuarded, Reads, Probes,
            UnderTest, Unprobed, Cells, Devices
  <2>. QED
    BY <1>4, <2>1, <2>2, ParentIsSound
<1>5. CASE t = "sbegetstate"
  <2>. DEFINE p == <<Parent, Probe("self", "continue"), Find("fsi", "crash"),
                       [Get("sbe", "orig") EXCEPT !.dev = "fsi"],
                       [Put("sbe", "orig") EXCEPT !.dev = "fsi"]>>
  <2>1. here \in {p, <<Parent>>}
    BY <1>5 DEF sbegetstate
  <2>2. Sound("sbegetstate", p)
    <3>1. Len(p) = 5 /\ 1 .. Len(p) = {1, 2, 3, 4, 5}
      OBVIOUS
    <3>. QED
      BY <3>1 DEF Sound, StepTyped, StepInTest, StepGuarded, Reads, Probes,
            UnderTest, Unprobed, Cells, Devices
  <2>. QED
    BY <1>5, <2>1, <2>2, ParentIsSound
<1>6. CASE t = "sbecfam"
  <2>. DEFINE p == <<Probe("self", "return"), Find("fsi", "crash"), Probe("fsi", "return"),
                     Call("fsi", "ignore")>>
  <2>1. here = p
    BY <1>6 DEF sbecfam
  <2>2. Sound("sbecfam", p)
    <3>1. Len(p) = 4 /\ 1 .. Len(p) = {1, 2, 3, 4}
      OBVIOUS
    <3>. QED
      BY <3>1 DEF Sound, StepTyped, StepInTest, StepGuarded, Reads, Probes,
            UnderTest, Unprobed, Cells, Devices
  <2>. QED
    BY <1>6, <2>1, <2>2
<1>7. CASE t = "sbekernel"
  <2>. DEFINE p == <<Parent, Probe("self", "continue"), Find("pib", "continue"),
                       Call("pib", "continue")>>
  <2>1. here \in {p, <<Parent>>}
    BY <1>7 DEF sbekernel
  <2>2. Sound("sbekernel", p)
    <3>1. Len(p) = 4 /\ 1 .. Len(p) = {1, 2, 3, 4}
      OBVIOUS
    <3>. QED
      BY <3>1 DEF Sound, StepTyped, StepInTest, StepGuarded, Reads, Probes,
            UnderTest, Unprobed, Cells, Devices
  <2>. QED
    BY <1>7, <2>1, <2>2, ParentIsSound
<1>8. CASE t = "sbedump"
  <2>. DEFINE p == <<Parent, Probe("self", "return"), Call("self", "ignore")>>
  <2>1. here \in {p, <<Parent>>}
    BY <1>8 DEF sbedump
  <2>2. Sound("sbedump", p)
    <3>1. Len(p) = 3 /\ 1 .. Len(p) = {1, 2, 3}
      OBVIOUS
    <3>. QED
      BY <3>1 DEF Sound, StepTyped, StepInTest, StepGuarded, Reads, Probes,
            UnderTest, Unprobed, Cells, Devices
  <2>. QED
    BY <1>8, <2>1, <2>2, ParentIsSound
<1>9. CASE t = "sbeffdc"
  <2>. DEFINE p == <<Probe("self", "return"), Find("pib", "crash"), Probe("pib", "ignore"),
                     Call("pib", "ignore")>>
  <2>. DEFINE q == <<Probe("self", "return"), Call("self", "ignore")>>
  <2>1. here \in {p, q}
    BY <1>9 DEF sbeffdc
  <2>2. Sound("sbeffdc", p)
    <3>1. Len(p) = 4 /\ 1 .. Len(p) = {1, 2, 3, 4}
      OBVIOUS
    <3>. QED
      BY <3>1 DEF Sound, StepTyped, StepInTest, StepGuarded, Reads, Probes,
            UnderTest, Unprobed, Cells, Devices
  <2>3. Sound("sbeffdc", q)
    <3>1. Len(q) = 2 /\ 1 .. Len(q) = {1, 2}
      OBVIOUS
    <3>. QED
      BY <3>1 DEF Sound, StepTyped, StepInTest, StepGuarded, Reads, Probes,
            UnderTest, Unprobed, Cells, Devices
  <2>. QED
    BY <1>9, <2>1, <2>2, <2>3
<1>10. CASE t = "collectdump"
  <2>. DEFINE p == <<Probe("self", "return"), Get("scom", "orig"), Call("self", "ignore")>>
  <2>1. here = p
    BY <1>10 DEF collectdump
  <2>2. Sound("collectdump", p)
    <3>1. Len(p) = 3 /\ 1 .. Len(p) = {1, 2, 3}
      OBVIOUS
    <3>. QED
      BY <3>1 DEF Sound, StepTyped, StepInTest, StepGuarded, Reads, Probes,
            UnderTest, Unprobed, Cells, Devices
  <2>. QED
    BY <1>10, <2>1, <2>2
<1>11. CASE t = "multiffdc"
  <2>. DEFINE p == <<Probe("self", "return"), Get("scom", "orig"), Call("self", "leave"),
                       Call("self", "ignore")>>
  <2>1. here = p
    BY <1>11 DEF multiffdc
  <2>2. Sound("multiffdc", p)
    <3>1. Len(p) = 4 /\ 1 .. Len(p) = {1, 2, 3, 4}
      OBVIOUS
    <3>. QED
      BY <3>1 DEF Sound, StepTyped, StepInTest, StepGuarded, Reads, Probes,
            UnderTest, Unprobed, Cells, Devices
  <2>. QED
    BY <1>11, <2>1, <2>2
<1>12. CASE t = "extract"
  <2>. DEFINE p == <<Parent, Call("self", "ignore")>>
  <2>1. here \in {p, <<Parent>>}
    BY <1>12 DEF extract
  <2>2. Sound("extract", p)
    <3>1. Len(p) = 2 /\ 1 .. Len(p) = {1, 2}
      OBVIOUS
    <3>. QED
      BY <3>1 DEF Sound, StepTyped, StepInTest, StepGuarded, Reads, Probes,
            UnderTest, Unprobed, Cells, Devices
  <2>. QED
    BY <1>12, <2>1, <2>2, ParentIsSound
<1>13. CASE t = "ffdcpel"
  <2>. DEFINE p == <<Probe("self", "return"), Call("self", "ignore")>>
  <2>1. here = p
    BY <1>13 DEF ffdcpel
  <2>2. Sound("ffdcpel", p)
    <3>1. Len(p) = 2 /\ 1 .. Len(p) = {1, 2}
      OBVIOUS
    <3>. QED
      BY <3>1 DEF Sound, StepTyped, StepInTest, StepGuarded, Reads, Probes,
            UnderTest, Unprobed, Cells, Devices
  <2>. QED
    BY <1>13, <2>1, <2>2
<1>14. CASE t = "ffdcpozpel"
  <2>. DEFINE p == <<Probe("self", "return"), Call("self", "ignore")>>
  <2>1. here = p
    BY <1>14 DEF ffdcpozpel
  <2>2. Sound("ffdcpozpel", p)
    <3>1. Len(p) = 2 /\ 1 .. Len(p) = {1, 2}
      OBVIOUS
    <3>. QED
      BY <3>1 DEF Sound, StepTyped, StepInTest, StepGuarded, Reads, Probes,
            UnderTest, Unprobed, Cells, Devices
  <2>. QED
    BY <1>14, <2>1, <2>2
<1>15. CASE t = "captureffdc"
  <2>. DEFINE p == <<Probe("self", "return"), Call("self", "ignore")>>
  <2>1. here = p
    BY <1>15 DEF captureffdc
  <2>2. Sound("captureffdc", p)
    <3>1. Len(p) = 2 /\ 1 .. Len(p) = {1, 2}
      OBVIOUS
    <3>. QED
      BY <3>1 DEF Sound, StepTyped, StepInTest, StepGuarded, Reads, Probes,
            UnderTest, Unprobed, Cells, Devices
  <2>. QED
    BY <1>15, <2>1, <2>2
<1>16. CASE t = "createodypel"
  <2>. DEFINE p == <<Parent, Probe("self", "return"), Call("self", "ignore")>>
  <2>1. here = p
    BY <1>16 DEF createodypel
  <2>2. Sound("createodypel", p)
    <3>1. Len(p) = 3 /\ 1 .. Len(p) = {1, 2, 3}
      OBVIOUS
    <3>. QED
      BY <3>1 DEF Sound, StepTyped, StepInTest, StepGuarded, Reads, Probes,
            UnderTest, Unprobed, Cells, Devices
  <2>. QED
    BY <1>16, <2>1, <2>2
<1>17. CASE t = "p12istep"
  <2>. DEFINE p == <<Probe("self", "return"), Find("pib", "crash"), Probe("pib", "return"),
                     Call("pib", "ignore")>>
  <2>1. here = p
    BY <1>17 DEF p12istep
  <2>2. Sound("p12istep", p)
    <3>1. Len(p) = 4 /\ 1 .. Len(p) = {1, 2, 3, 4}
      OBVIOUS
    <3>. QED
      BY <3>1 DEF Sound, StepTyped, StepInTest, StepGuarded, Reads, Probes,
            UnderTest, Unprobed, Cells, Devices
  <2>. QED
    BY <1>17, <2>1, <2>2
<1>18. CASE t = "p12startcbs"
  <2>. DEFINE p == <<Probe("self", "return"), Find("pib", "crash"), Probe("pib", "return"),
                     Call("self", "ignore"), Call("self", "ignore")>>
  <2>1. here = p
    BY <1>18 DEF p12startcbs
  <2>2. Sound("p12startcbs", p)
    <3>1. Len(p) = 5 /\ 1 .. Len(p) = {1, 2, 3, 4, 5}
      OBVIOUS
    <3>. QED
      BY <3>1 DEF Sound, StepTyped, StepInTest, StepGuarded, Reads, Probes,
            UnderTest, Unprobed, Cells, Devices
  <2>. QED
    BY <1>18, <2>1, <2>2
<1>19. CASE t = "ocmbfapi"
  <2>. DEFINE p == <<Parent, Call("self", "ignore")>>
  <2>1. here \in {p, <<Parent>>}
    BY <1>19 DEF ocmbfapi
  <2>2. Sound("ocmbfapi", p)
    <3>1. Len(p) = 2 /\ 1 .. Len(p) = {1, 2}
      OBVIOUS
    <3>. QED
      BY <3>1 DEF Sound, StepTyped, StepInTest, StepGuarded, Reads, Probes,
            UnderTest, Unprobed, Cells, Devices
  <2>. QED
    BY <1>19, <2>1, <2>2, ParentIsSound
<1>20. CASE t = "attr_write"
  <2>. DEFINE p == <<Parent, Get("mru", "orig"), Find("path", "crash"), Put("mru", "fixed")>>
  <2>1. here = p
    BY <1>20 DEF attr_write
  <2>2. Sound("attr_write", p)
    <3>1. Len(p) = 4 /\ 1 .. Len(p) = {1, 2, 3, 4}
      OBVIOUS
    <3>. QED
      BY <3>1 DEF Sound, StepTyped, StepInTest, StepGuarded, Reads, Probes,
            UnderTest, Unprobed, Cells, Devices
  <2>. QED
    BY <1>20, <2>1, <2>2
<1>21. CASE t = "attr_read"
  <2>. DEFINE p == <<Parent, Get("mru", "orig")>>
  <2>1. here = p
    BY <1>21 DEF attr_read
  <2>2. Sound("attr_read", p)
    <3>1. Len(p) = 2 /\ 1 .. Len(p) = {1, 2}
      OBVIOUS
    <3>. QED
      BY <3>1 DEF Sound, StepTyped, StepInTest, StepGuarded, Reads, Probes,
            UnderTest, Unprobed, Cells, Devices
  <2>. QED
    BY <1>21, <2>1, <2>2
<1>. QED
  BY <1>1, <1>2, <1>3, <1>4, <1>5, <1>6, <1>7, <1>8, <1>9, <1>10,
     <1>11, <1>12, <1>13, <1>14, <1>15, <1>16, <1>17, <1>18, <1>19, <1>20, <1>21

-----------------------------------------------------------------------------
(* How a test goes on from one step of a program to the next. *)

LEMMA TestGoesOn ==
  ASSUME NEW t, NEW p, Sound(t, p), NEW j \in 1 .. Len(p) - 1, NEW c \in Cells
  PROVE  /\ p[j].op # "put" /\ ~Reads(p[j]) => (UnderTest(p, j + 1, c) <=> UnderTest(p, j, c))
         /\ Reads(p[j]) /\ UnderTest(p, j + 1, c) => c = p[j].cell
         /\ p[j].op = "put" => (UnderTest(p, j + 1, c) => UnderTest(p, j, c))
         /\ p[j].op = "put" /\ UnderTest(p, j, c) /\ ~UnderTest(p, j + 1, c) =>
              c = p[j].cell /\ p[j].var = "orig"
<1>1. Len(p) \in Nat /\ j \in 1 .. Len(p) /\ StepInTest(p, j)
  BY DEF Sound
<1>2. \A i : i \in 1 .. (j + 1) - 1 <=> i \in 1 .. j - 1 \/ i = j
  BY <1>1
<1>3. \A i : i \in j .. Len(p) <=> i = j \/ i \in j + 1 .. Len(p)
  BY <1>1
<1>4. Reads(p[j]) => ~UnderTest(p, j, c)
  BY <1>1 DEF StepInTest
<1>. QED
  BY <1>2, <1>3, <1>4 DEF UnderTest, Reads

LEMMA TestEnds ==
  ASSUME NEW t, NEW p, Sound(t, p), NEW c \in Cells, UnderTest(p, Len(p), c)
  PROVE  LET s == p[Len(p)] IN s.op = "put" /\ s.var = "orig" /\ s.cell = c
<1>1. Len(p) \in Nat
  BY DEF Sound
<1>2. \A i : i \in Len(p) .. Len(p) <=> i = Len(p)
  BY <1>1
<1>. QED
  BY <1>2 DEF UnderTest

LEMMA NoTestAtStart ==
  ASSUME NEW p, NEW c
  PROVE  ~UnderTest(p, 1, c)
BY DEF UnderTest

-----------------------------------------------------------------------------
(* Where a run can be, and where it goes. *)

LEMMA PlacesTyped ==
  ASSUME NEW t \in DOMAIN Tools
  PROVE  Places[t] \subseteq Nat \X Nat
BY DEF Places

LEMMA FirstIsIn ==
  ASSUME NEW S \in SUBSET (Nat \X Nat), S # {}
  PROVE  First(S) \in S
<1>. DEFINE L == {q[1] : q \in S}
<1>1. L \in SUBSET Nat /\ L # {}
  OBVIOUS
<1>2. PICK loop \in L : \A x \in L : loop <= x
  BY <1>1, LeastNatural
<1>. DEFINE I == {q[2] : q \in {q \in S : q[1] = loop}}
<1>3. I \in SUBSET Nat /\ I # {}
  BY <1>2
<1>4. PICK i \in I : \A x \in I : i <= x
  BY <1>3, LeastNatural
<1>5. PICK p \in S : p[1] = loop /\ p[2] = i
  BY <1>4
<1>6. \A q \in S : ~Precedes(q, p)
  <2>. SUFFICES ASSUME NEW q \in S, Precedes(q, p) PROVE FALSE
    OBVIOUS
  <2>1. q[1] \in Nat /\ q[2] \in Nat /\ loop \in Nat /\ i \in Nat
    BY <1>2, <1>4
  <2>2. loop <= q[1]
    BY <1>2
  <2>3. q[1] = loop => i <= q[2]
    BY <1>4
  <2>. QED
    BY <1>5, <2>1, <2>2, <2>3 DEF Precedes
<1>. QED
  BY <1>6 DEF First

RunStates ==
  [tool : DOMAIN Tools, place : Nat \X Nat, step : Nat, orig : Values,
   enabled : SUBSET Devices, end : Ends \cup {"start", "running"}]

\* A run that is inside a loop is at a step of the program of its place.
Placed(x) ==
  x.end = "running" => x.place \in Places[x.tool] /\ x.step \in 1 .. Len(Program(x))

\* What the probes behind it have enabled.
Enabled(x) ==
  x.end = "running" =>
    \A i \in 1 .. x.step - 1 : Probes(Program(x)[i]) => Program(x)[i].dev \in x.enabled

RunTyped(x) == x \in RunStates /\ Placed(x)

LEMMA ProgramIsSound ==
  ASSUME NEW x \in RunStates, x.place \in Places[x.tool]
  PROVE  Sound(x.tool, Program(x)) /\ Chip(x) \in Chips
<1>1. x.tool \in DOMAIN Tools
  BY DEF RunStates
<1>2. /\ x.place[1] \in 1 .. Len(Tools[x.tool])
      /\ x.place[2] \in 1 .. Len(Tree)
      /\ Class[Tree[x.place[2]]] \in DOMAIN Tools[x.tool][x.place[1]].body
  BY <1>1 DEF Places
<1>3. Program(x) = Tools[x.tool][x.place[1]].body[Class[Tree[x.place[2]]]]
  BY <1>1 DEF Program, Programs
<1>4. Chip(x) \in Chips
  BY <1>2, TreeAssumption DEF Chip
<1>. QED
  BY <1>1, <1>2, <1>3, <1>4, ProgramsAreSound

LEMMA TestedIs ==
  ASSUME NEW x, RunTyped(x), x.end = "running"
  PROVE  Tested(x) = {Chip(x)} \X {c \in Cells : UnderTest(Program(x), x.step, c)}
<1>. DEFINE p == Program(x)
            read == {p[i].cell : i \in {k \in 1 .. x.step - 1 :
                       p[k].op = "get" /\ p[k].var = "orig"}}
            put  == {p[i].cell : i \in {k \in x.step .. Len(p) :
                       p[k].op = "put" /\ p[k].var = "orig"}}
<1>1. Tested(x) = {Chip(x)} \X (read \cap put)
  BY DEF Tested
<1>2. Sound(x.tool, p) /\ x.step \in 1 .. Len(p)
  BY ProgramIsSound DEF RunTyped, Placed
<1>3. ASSUME NEW c PROVE c \in read \cap put <=> UnderTest(p, x.step, c)
  BY DEF UnderTest
<1>4. ASSUME NEW c, c \in put PROVE c \in Cells
  <2>1. PICK i \in x.step .. Len(p) : p[i].op = "put" /\ p[i].cell = c
    BY <1>4
  <2>2. i \in 1 .. Len(p)
    BY <1>2 DEF Sound
  <2>. QED
    BY <1>2, <2>1, <2>2 DEF Sound, StepTyped
<1>5. read \cap put = {c \in Cells : UnderTest(p, x.step, c)}
  BY <1>3, <1>4
<1>. QED
  BY <1>1, <1>5

\* At a new place nothing is enabled and nothing tested.
Fresh(x) == RunTyped(x) /\ Enabled(x) /\ Tested(x) = {}

LEMMA OverIsFresh ==
  ASSUME NEW x \in RunStates, NEW e \in Ends
  PROVE  Fresh(Over(x, e)) /\ Over(x, e).tool = x.tool
<1>1. Over(x, e) = [tool |-> x.tool, place |-> <<1, 1>>, step |-> 1, orig |-> "initial",
                    enabled |-> {}, end |-> e]
  BY DEF Over, Started
<1>2. Over(x, e) \in RunStates
  BY <1>1 DEF RunStates, Values
<1>. QED
  BY <1>1, <1>2 DEF Fresh, RunTyped, Placed, Enabled, Tested, Ends

LEMMA EnteredIsFresh ==
  ASSUME NEW x \in RunStates, NEW ahead \in SUBSET Places[x.tool]
  PROVE  Fresh(EnterPlace(x, ahead)) /\ EnterPlace(x, ahead).tool = x.tool
<1>1. CASE ahead = {}
  BY <1>1, OverIsFresh DEF EnterPlace, Ends
<1>2. CASE ahead # {}
  <2>. DEFINE y == EnterPlace(x, ahead)
  <2>0. x.tool \in DOMAIN Tools
    BY DEF RunStates
  <2>1. First(ahead) \in ahead
    BY <1>2, <2>0, PlacesTyped, FirstIsIn
  <2>2. y = [tool |-> x.tool, place |-> First(ahead), step |-> 1, orig |-> "initial",
             enabled |-> {}, end |-> "running"]
    BY <1>2 DEF EnterPlace, Started
  <2>. HIDE DEF y
  <2>3. y \in RunStates
    BY <2>0, <2>1, <2>2, PlacesTyped DEF RunStates, Values
  <2>4. y.place \in Places[y.tool] /\ Sound(y.tool, Program(y))
    BY <2>1, <2>2, <2>3, ProgramIsSound
  <2>5. RunTyped(y)
    BY <2>2, <2>3, <2>4 DEF RunTyped, Placed, Sound
  <2>6. Enabled(y)
    BY <2>2 DEF Enabled
  <2>7. Tested(y) = {}
    BY <2>2, <2>5, TestedIs, NoTestAtStart
  <2>. QED
    BY <2>2, <2>5, <2>6, <2>7 DEF Fresh, y
<1>. QED
  BY <1>1, <1>2

\* A step leads to the next step of the program, or to a new place or the end.
LEMMA GoesOn ==
  ASSUME NEW x, RunTyped(x), x.end = "running",
         NEW how \in {"next", "continue", "leave", "return", "crash"}
  PROVE  /\ After(x, how).tool = x.tool
         /\ \/ how = "next" /\ x.step < Len(Program(x)) /\ After(x, how) = [x EXCEPT !.step = @ + 1]
            \/ ~(how = "next" /\ x.step < Len(Program(x))) /\ Fresh(After(x, how))
<1>1. x \in RunStates /\ x.tool \in DOMAIN Tools /\ x.place \in Places[x.tool]
  BY DEF RunTyped, Placed, RunStates
<1>2. NextTarget[x.tool][x.place] \in SUBSET Places[x.tool]
  BY <1>1 DEF NextTarget
<1>3. BodyEnds(x) \in SUBSET Places[x.tool]
  BY <1>1, <1>2 DEF BodyEnds, NextLoop
<1>4. CASE how \in {"return", "crash"}
  BY <1>1, <1>4, OverIsFresh DEF After, Ends
<1>5. CASE how = "continue"
  BY <1>1, <1>2, <1>5, EnteredIsFresh DEF After
<1>6. CASE how = "next" /\ x.step < Len(Program(x))
  <2>1. After(x, how) = [x EXCEPT !.step = @ + 1]
    BY <1>6 DEF After
  <2>2. [x EXCEPT !.step = @ + 1].tool = x.tool
    BY <1>1 DEF RunStates
  <2>. QED
    BY <1>6, <2>1, <2>2
<1>7. CASE how = "leave" \/ (how = "next" /\ ~(x.step < Len(Program(x))))
  <2>1. After(x, how) = EnterPlace(x, BodyEnds(x))
    BY <1>7 DEF After
  <2>. QED
    BY <1>1, <1>3, <1>7, <2>1, EnteredIsFresh
<1>. QED
  BY <1>4, <1>5, <1>6, <1>7

Keeps(x, z) ==
  z.tool = x.tool /\ z.place = x.place /\ z.step = x.step /\ z.end = x.end

LEMMA SameProgram ==
  ASSUME NEW x, NEW z, Keeps(x, z)
  PROVE  Program(z) = Program(x) /\ Chip(z) = Chip(x) /\ Tested(z) = Tested(x) /\ Now(z) = Now(x)
<1>1. Program(z) = Program(x) /\ Chip(z) = Chip(x)
  BY DEF Keeps, Program, Chip
<1>. QED
  BY <1>1 DEF Keeps, Tested, Now

\* What a step does to the test its run is in.  It is a step of x, whose variables
\* have become those of z.
LEMMA StepsKeepTests ==
  ASSUME NEW x, RunTyped(x), Enabled(x), x.end = "running",
         NEW z, RunTyped(z), Keeps(x, z), x.enabled \subseteq z.enabled,
         NEW how \in {"next", "continue", "leave", "return", "crash"},
         how = "next" /\ Probes(Now(x)) => Now(x).dev \in z.enabled,
         NEW y, y = After(z, how)
  PROVE  /\ RunTyped(y) /\ Enabled(y)
         /\ Tested(y) # {} => y.orig = z.orig
         /\ Now(x).op \in {"probe", "find", "call"} => Tested(x) = {} /\ Tested(y) = {}
         /\ how = "next" =>
              /\ Now(x).op = "get" /\ Now(x).var # "orig" => Tested(y) = Tested(x)
              /\ Reads(Now(x)) => Tested(x) = {} /\ Tested(y) \subseteq {<<Chip(x), Now(x).cell>>}
              /\ Now(x).op = "put" =>
                   /\ Tested(y) \subseteq Tested(x)
                   /\ \A k \in Tested(x) \ Tested(y) :
                        k = <<Chip(x), Now(x).cell>> /\ Now(x).var = "orig"
                   /\ Now(x).cell \in {"scom", "sbe"} => <<Chip(x), Now(x).cell>> \in Tested(x)
<1>. DEFINE p == Program(x)  j == x.step
<1>1. x \in RunStates /\ z \in RunStates /\ x.place \in Places[x.tool]
  BY DEF RunTyped, Placed
<1>2. Sound(x.tool, p) /\ Len(p) \in Nat /\ j \in 1 .. Len(p) /\ Now(x) = p[j]
  BY <1>1, ProgramIsSound DEF RunTyped, Placed, Sound, Now
<1>3. z.step = j /\ z.end = "running" /\ Program(z) = p /\ Chip(z) = Chip(x)
  BY SameProgram DEF Keeps
<1>4. Tested(x) = {Chip(x)} \X {c \in Cells : UnderTest(p, j, c)}
  BY TestedIs
<1>5. /\ StepTyped(p[j])
      /\ p[j].op \in {"probe", "find", "call"} \/ Reads(p[j]) => \A c \in Cells : ~UnderTest(p, j, c)
      /\ p[j].op = "put" /\ p[j].cell \in {"scom", "sbe"} => UnderTest(p, j, p[j].cell)
  BY <1>2 DEF Sound, StepInTest
<1>6. {"scom", "sbe"} \subseteq Cells
  BY DEF Cells
<1>. HIDE DEF p, j
<1>7. CASE how = "next" /\ j < Len(p)
  <2>1. y = [z EXCEPT !.step = j + 1]
    BY <1>3, <1>7, GoesOn
  <2>2. /\ y.tool = x.tool /\ y.place = x.place /\ y.end = "running" /\ y.step = j + 1
        /\ y.orig = z.orig /\ y.enabled = z.enabled
    BY <1>1, <1>3, <2>1 DEF RunStates, Keeps
  <2>3. y \in RunStates
    BY <1>1, <1>2, <2>1 DEF RunStates
  <2>4. Program(y) = p /\ Chip(y) = Chip(x)
    BY <2>2 DEF Program, Chip, p
  <2>5. RunTyped(y)
    BY <1>1, <1>2, <1>7, <2>2, <2>3, <2>4 DEF RunTyped, Placed
  <2>6. Enabled(y)
    <3>1. \A i \in 1 .. j - 1 : Probes(p[i]) => p[i].dev \in x.enabled
      BY DEF Enabled, p, j
    <3>2. \A i : i \in 1 .. (j + 1) - 1 => i \in 1 .. j - 1 \/ i = j
      BY <1>2
    <3>3. Probes(p[j]) => p[j].dev \in z.enabled
      BY <1>2, <1>7
    <3>. QED
      BY <2>2, <2>4, <3>1, <3>2, <3>3 DEF Enabled
  <2>7. Tested(y) = {Chip(x)} \X {c \in Cells : UnderTest(p, j + 1, c)}
    BY <2>2, <2>4, <2>5, TestedIs
  <2>8. j \in 1 .. Len(p) - 1
    BY <1>2, <1>7
  <2>9. \A c \in Cells :
          /\ p[j].op # "put" /\ ~Reads(p[j]) => (UnderTest(p, j + 1, c) <=> UnderTest(p, j, c))
          /\ Reads(p[j]) /\ UnderTest(p, j + 1, c) => c = p[j].cell
          /\ p[j].op = "put" => (UnderTest(p, j + 1, c) => UnderTest(p, j, c))
          /\ p[j].op = "put" /\ UnderTest(p, j, c) /\ ~UnderTest(p, j + 1, c) =>
               c = p[j].cell /\ p[j].var = "orig"
    BY <1>2, <2>8, TestGoesOn
  <2>. HIDE DEF Cells
  <2>10. p[j].op \in {"probe", "find", "call"} => Tested(x) = {} /\ Tested(y) = {}
    BY <1>4, <1>5, <2>7, <2>9 DEF Reads
  <2>11. p[j].op = "get" /\ p[j].var # "orig" => Tested(y) = Tested(x)
    BY <1>4, <2>7, <2>9 DEF Reads
  <2>12. Reads(p[j]) => Tested(x) = {} /\ Tested(y) \subseteq {<<Chip(x), p[j].cell>>}
    BY <1>4, <1>5, <2>7, <2>9
  <2>13. p[j].op = "put" => /\ Tested(y) \subseteq Tested(x)
                            /\ \A k \in Tested(x) \ Tested(y) : k = <<Chip(x), p[j].cell>> /\ p[j].var = "orig"
    BY <1>4, <2>7, <2>9
  <2>14. p[j].op = "put" /\ p[j].cell \in {"scom", "sbe"} => <<Chip(x), p[j].cell>> \in Tested(x)
    BY <1>4, <1>5, <1>6
  <2>. QED
    BY <1>2, <2>2, <2>5, <2>6, <2>10, <2>11, <2>12, <2>13, <2>14
<1>8. CASE ~(how = "next" /\ j < Len(p))
  <2>1. Fresh(y)
    BY <1>3, <1>8, GoesOn
  <2>2. RunTyped(y) /\ Enabled(y) /\ Tested(y) = {}
    BY <2>1 DEF Fresh
  <2>3. p[j].op \in {"probe", "find", "call"} \/ Reads(p[j]) => Tested(x) = {}
    BY <1>4, <1>5
  <2>4. how = "next" => j = Len(p)
    BY <1>2, <1>8
  <2>5. ASSUME how = "next", NEW k \in Tested(x)
        PROVE  p[j].op = "put" /\ p[j].var = "orig" /\ k = <<Chip(x), p[j].cell>>
    <3>1. PICK c \in Cells : k = <<Chip(x), c>> /\ UnderTest(p, j, c)
      BY <1>4, <2>5
    <3>. QED
      BY <1>2, <2>4, <2>5, <3>1, TestEnds
  <2>6. p[j].op = "put" /\ p[j].cell \in {"scom", "sbe"} => <<Chip(x), p[j].cell>> \in Tested(x)
    BY <1>4, <1>5, <1>6
  <2>7. how = "next" /\ p[j].op = "get" => Tested(x) = {}
    BY <2>5
  <2>. QED
    BY <1>2, <2>2, <2>3, <2>5, <2>6, <2>7
<1>. QED
  BY <1>7, <1>8

-----------------------------------------------------------------------------
(* The invariant. *)

TypeInv ==
  /\ run \in [Runs -> RunStates]
  /\ \A r \in Runs : Placed(run[r])
  /\ cells \in [Chips \X Cells -> Values]
  /\ own \in [Chips \X Cells -> Values]
  /\ disturbed \subseteq Chips \X Cells
  /\ moves \in 0 .. MaxMoves

AllEnabled == \A r \in Runs : Enabled(run[r])

TestCells == Chips \X {"scom", "sbe"}

\* Unless its test was disturbed, a cell under test is tested by one run, which holds
\* what it is to put back; any other cell holds it itself.
Restores ==
  \A k \in TestCells \ disturbed :
    /\ own[k] # "initial"
    /\ (\A r \in Runs : k \notin Tested(run[r])) => cells[k] = own[k]
    /\ \A r \in Runs : k \in Tested(run[r]) =>
         /\ run[r].orig = own[k]
         /\ \A q \in Runs \ {r} : k \notin Tested(run[q])

Inv == TypeInv /\ AllEnabled /\ Restores

LEMMA TypedRun ==
  ASSUME TypeInv, NEW r \in Runs
  PROVE  RunTyped(run[r])
BY DEF TypeInv, RunTyped

LEMMA InvImplied ==
  ASSUME Inv
  PROVE  TypeOK /\ PutBack /\ UsesEnabled
<1>1. TypeOK
  BY DEF Inv, TypeInv, TypeOK, RunStates, Placed, Devices
<1>2. PutBack
  BY DEF Inv, Restores, TestCells, PutBack
<1>3. UsesEnabled
  <2>. SUFFICES ASSUME NEW r \in Runs, run[r].end = "running",
                       Now(run[r]).op \in {"get", "put", "call"}
                PROVE  \/ Now(run[r]).dev \in run[r].enabled
                       \/ <<run[r].tool, Now(run[r]).dev>> \in Unprobed
    BY DEF UsesEnabled, At
  <2>. DEFINE x == run[r]  p == Program(x)
  <2>1. RunTyped(x) /\ Enabled(x)
    BY TypedRun DEF Inv, AllEnabled
  <2>2. Sound(x.tool, p) /\ x.step \in 1 .. Len(p) /\ Now(x) = p[x.step]
    BY <2>1, ProgramIsSound DEF RunTyped, Placed, Now
  <2>3. StepGuarded(x.tool, p, x.step)
    BY <2>2 DEF Sound
  <2>. QED
    BY <2>1, <2>2, <2>3 DEF StepGuarded, Enabled
<1>. QED
  BY <1>1, <1>2, <1>3

LEMMA InitInv == Init => Inv
<1>. SUFFICES ASSUME Init PROVE Inv
  OBVIOUS
<1>1. PICK mix \in Mixes : run = [r \in Runs |-> Started(mix[r])]
  BY DEF Init
<1>2. \A r \in Runs : mix[r] \in DOMAIN Tools
  BY MixesAssumption
<1>3. \A t \in DOMAIN Tools : Started(t) \in RunStates /\ Started(t).end = "start"
  BY DEF Started, RunStates, Values
<1>4. \A r \in Runs : run[r] \in RunStates /\ run[r].end = "start"
  BY <1>1, <1>2, <1>3
<1>5. PICK s \in SbeStates : cells = [k \in Chips \X Cells |-> IF k[2] = "sbe" THEN s ELSE "own"]
  BY DEF Init
<1>6. cells \in [Chips \X Cells -> Values] /\ \A k \in Chips \X Cells : cells[k] # "initial"
  BY <1>5, StatesAssumption DEF Values
<1>7. run \in [Runs -> RunStates]
  BY <1>1, <1>2, <1>3
<1>8. own = cells /\ disturbed = {} /\ moves = 0
  BY DEF Init
<1>9. TypeInv
  BY <1>4, <1>6, <1>7, <1>8, MovesAssumption DEF TypeInv, Placed
<1>10. AllEnabled
  BY <1>4 DEF AllEnabled, Enabled
<1>11. \A r \in Runs : Tested(run[r]) = {}
  BY <1>4 DEF Tested
<1>12. Restores
  BY <1>6, <1>8, <1>11 DEF Restores, TestCells, Cells
<1>. QED
  BY <1>9, <1>10, <1>12 DEF Inv

\* What a step may do to a cell whose test it does not disturb: leave it and its
\* test alone, but for writing within the test; begin a test; end it by putting back
\* what was read.
Goes(k, r, x, y, cell) ==
  \/ /\ k \in Tested(y) <=> k \in Tested(x)
     /\ k \in Tested(y) => y.orig = x.orig
     /\ cell = cells[k] \/ k \in Tested(y)
  \/ k \notin Tested(x) /\ k \notin TestedBesides(r) /\ k \in Tested(y) /\ y.orig = cells[k]
  \/ k \in Tested(x) /\ k \notin Tested(y) /\ cell = x.orig

LEMMA RunMoves ==
  ASSUME Inv, NEW r \in Runs, NEW y, RunTyped(y), Enabled(y),
         run' = [run EXCEPT ![r] = y],
         own' = own, moves' = moves,
         cells' \in [Chips \X Cells -> Values],
         disturbed' \subseteq Chips \X Cells,
         disturbed \subseteq disturbed',
         \A k \in TestCells \ disturbed' : Goes(k, r, run[r], y, cells'[k])
  PROVE  Inv'
<1>1. /\ run' \in [Runs -> RunStates]
      /\ run'[r] = y
      /\ \A q \in Runs \ {r} : run'[q] = run[q]
  BY DEF Inv, TypeInv, RunTyped
<1>2. TypeInv'
  <2>1. \A q \in Runs : Placed(run'[q])
    BY <1>1 DEF Inv, TypeInv, RunTyped
  <2>. QED
    BY <1>1, <2>1 DEF Inv, TypeInv
<1>3. AllEnabled'
  <2>1. \A q \in Runs : Enabled(run'[q])
    BY <1>1 DEF Inv, AllEnabled
  <2>. QED
    BY <2>1 DEF AllEnabled
<1>4. ASSUME NEW k \in TestCells \ disturbed'
      PROVE  /\ own[k] # "initial"
             /\ (\A q \in Runs : k \notin Tested(run'[q])) => cells'[k] = own[k]
             /\ \A q \in Runs : k \in Tested(run'[q]) =>
                  /\ run'[q].orig = own[k]
                  /\ \A s \in Runs \ {q} : k \notin Tested(run'[s])
  <2>1. /\ own[k] # "initial"
        /\ (\A q \in Runs : k \notin Tested(run[q])) => cells[k] = own[k]
        /\ \A q \in Runs : k \in Tested(run[q]) =>
             /\ run[q].orig = own[k]
             /\ \A s \in Runs \ {q} : k \notin Tested(run[s])
    BY <1>4 DEF Inv, Restores
  <2>2. Goes(k, r, run[r], y, cells'[k])
    BY <1>4
  <2>3. k \notin TestedBesides(r) <=> \A q \in Runs \ {r} : k \notin Tested(run[q])
    BY DEF TestedBesides
  <2>4. CASE /\ k \in Tested(y) <=> k \in Tested(run[r])
             /\ k \in Tested(y) => y.orig = run[r].orig
             /\ cells'[k] = cells[k] \/ k \in Tested(y)
    BY <1>1, <2>1, <2>4
  <2>5. CASE /\ k \notin Tested(run[r]) /\ k \notin TestedBesides(r)
             /\ k \in Tested(y) /\ y.orig = cells[k]
    BY <1>1, <2>1, <2>3, <2>5
  <2>6. CASE k \in Tested(run[r]) /\ k \notin Tested(y) /\ cells'[k] = run[r].orig
    BY <1>1, <2>1, <2>6
  <2>. QED
    BY <2>2, <2>4, <2>5, <2>6 DEF Goes
<1>5. Restores'
  BY <1>4 DEF Restores, TestCells
<1>. QED
  BY <1>2, <1>3, <1>5 DEF Inv

-----------------------------------------------------------------------------
(* The actions. *)

LEMMA FreshRunMoves ==
  ASSUME Inv, NEW r \in Runs, NEW y, RunTyped(y), Enabled(y), Tested(y) = {},
         run' = [run EXCEPT ![r] = y],
         UNCHANGED <<own, moves, cells>>,
         disturbed' = disturbed \cup Tested(run[r])
  PROVE  Inv'
<1>1. Tested(run[r]) \subseteq Chips \X Cells
  <2>. DEFINE x == run[r]
  <2>1. RunTyped(x)
    BY TypedRun DEF Inv
  <2>2. CASE x.end = "running"
    <3>1. Chip(x) \in Chips
      BY <2>1, <2>2, ProgramIsSound DEF RunTyped, Placed
    <3>. QED
      BY <2>1, <2>2, <3>1, TestedIs
  <2>3. CASE x.end # "running"
    BY <2>3 DEF Tested
  <2>. QED
    BY <2>2, <2>3
<1>2. disturbed' \subseteq Chips \X Cells /\ cells' \in [Chips \X Cells -> Values]
  BY <1>1 DEF Inv, TypeInv
<1>3. \A k \in TestCells \ disturbed' : Goes(k, r, run[r], y, cells'[k])
  BY DEF Goes
<1>. QED
  BY <1>2, <1>3, RunMoves

LEMMA BeginStep ==
  ASSUME Inv, NEW r \in Runs, Begin(r)
  PROVE  Inv'
<1>. DEFINE x == run[r]
<1>1. x \in RunStates /\ x.tool \in DOMAIN Tools /\ Tested(x) = {}
  BY DEF Inv, TypeInv, Begin, RunStates, Tested
<1>2. Fresh(EnterPlace(x, Places[x.tool])) /\ Fresh(Over(x, "noInit"))
  BY <1>1, EnteredIsFresh, OverIsFresh DEF Ends
<1>3. PICK y : Fresh(y) /\ Continue(r, y)
  BY <1>2 DEF Begin
<1>4. UNCHANGED <<own, moves, cells, disturbed>> /\ run' = [run EXCEPT ![r] = y]
  BY <1>3 DEF Begin, Continue
<1>5. disturbed' = disturbed \cup Tested(run[r])
  BY <1>1, <1>4
<1>. QED
  BY <1>3, <1>4, <1>5, FreshRunMoves DEF Fresh

LEMMA KilledStep ==
  ASSUME Inv, NEW r \in Runs, Killed(r)
  PROVE  Inv'
<1>1. run[r] \in RunStates
  BY DEF Inv, TypeInv
<1>2. Fresh(Over(run[r], "killed"))
  BY <1>1, OverIsFresh DEF Ends
<1>. QED
  BY <1>2, FreshRunMoves DEF Killed, Continue, Fresh

\* The step a run is at, and the ways it goes on.
LEMMA AtStep ==
  ASSUME Inv, NEW r \in Runs, run[r].end = "running"
  PROVE  LET x == run[r]
             how == IF Now(x).fail = "ignore" THEN "next" ELSE Now(x).fail
         IN  /\ RunTyped(x) /\ Enabled(x) /\ Keeps(x, x)
             /\ StepTyped(Now(x)) /\ Chip(x) \in Chips
             /\ Failed(x) = After(x, how)
             /\ how \in {"next", "continue", "leave", "return", "crash"}
             /\ how = "next" => ~Probes(Now(x))
             /\ Tested(x) \subseteq {Chip(x)} \X Cells
<1>. DEFINE x == run[r]
<1>1. RunTyped(x) /\ Enabled(x)
  BY TypedRun DEF Inv, AllEnabled
<1>2. Sound(x.tool, Program(x)) /\ Chip(x) \in Chips /\ x.step \in 1 .. Len(Program(x))
  BY <1>1, ProgramIsSound DEF RunTyped, Placed
<1>3. StepTyped(Now(x))
  BY <1>2 DEF Sound, Now
<1>4. Tested(x) \subseteq {Chip(x)} \X Cells
  BY <1>1, TestedIs
<1>. QED
  BY <1>1, <1>2, <1>3, <1>4 DEF Failed, Keeps, StepTyped, Probes

LEMMA ProbeStep ==
  ASSUME Inv, NEW r \in Runs, DoProbe(r)
  PROVE  Inv'
<1>. DEFINE x == run[r]
            z == [x EXCEPT !.enabled = @ \cup {Now(x).dev}]
            how == IF Now(x).fail = "ignore" THEN "next" ELSE Now(x).fail
<1>1. x.end = "running" /\ Now(x).op = "probe"
  BY DEF DoProbe, At
<1>2. /\ RunTyped(x) /\ Enabled(x) /\ Keeps(x, x)
      /\ StepTyped(Now(x)) /\ Failed(x) = After(x, how)
      /\ how \in {"next", "continue", "leave", "return", "crash"}
      /\ how = "next" => ~Probes(Now(x))
  BY <1>1, AtStep
<1>3. /\ z.tool = x.tool /\ z.place = x.place /\ z.step = x.step /\ z.end = x.end
      /\ z.enabled = x.enabled \cup {Now(x).dev} /\ z \in RunStates
  BY <1>1, <1>2 DEF RunTyped, RunStates, StepTyped
<1>4. Keeps(x, z)
  BY <1>3 DEF Keeps
<1>5. RunTyped(z)
  BY <1>2, <1>3, <1>4, SameProgram DEF RunTyped, Placed
<1>. HIDE DEF z, how, x
<1>6. Tested(x) = {}
  BY <1>1, <1>2, StepsKeepTests
<1>7. ASSUME NEW y, y \in {Succeeded(z), Failed(x)}
      PROVE  RunTyped(y) /\ Enabled(y) /\ Tested(y) = {}
  <2>1. CASE y = Succeeded(z)
    <3>1. y = After(z, "next")
      BY <2>1 DEF Succeeded
    <3>. QED
      BY <1>1, <1>2, <1>3, <1>4, <1>5, <3>1, StepsKeepTests
  <2>2. CASE y = Failed(x)
    <3>1. y = After(x, how) /\ x.enabled \subseteq x.enabled
      BY <1>2, <2>2
    <3>. QED
      BY <1>1, <1>2, <3>1, StepsKeepTests
  <2>. QED
    BY <1>7, <2>1, <2>2
<1>8. PICK y \in {Succeeded(z), Failed(x)} : Continue(r, y)
  BY DEF DoProbe, z, x
<1>9. UNCHANGED <<own, moves, cells, disturbed>> /\ run' = [run EXCEPT ![r] = y]
  BY <1>8 DEF DoProbe, Continue
<1>10. disturbed' = disturbed \cup Tested(run[r])
  BY <1>6, <1>9 DEF x
<1>. QED
  BY <1>7, <1>8, <1>9, <1>10, FreshRunMoves

LEMMA CallStep ==
  ASSUME Inv, NEW r \in Runs, DoCall(r)
  PROVE  Inv'
<1>. DEFINE x == run[r]
            how == IF Now(x).fail = "ignore" THEN "next" ELSE Now(x).fail
<1>1. x.end = "running" /\ Now(x).op \in {"find", "call"}
  BY DEF DoCall, At
<1>2. /\ RunTyped(x) /\ Enabled(x) /\ Keeps(x, x) /\ Failed(x) = After(x, how)
      /\ how \in {"next", "continue", "leave", "return", "crash"}
      /\ ~Probes(Now(x))
  BY <1>1, AtStep DEF Probes
<1>. HIDE DEF how, x
<1>3. PICK w \in {"next", how} : Continue(r, After(x, w))
  BY <1>2 DEF DoCall, Succeeded, x
<1>. DEFINE y == After(x, w)
<1>4. w \in {"next", "continue", "leave", "return", "crash"}
  BY <1>2
<1>5. RunTyped(y) /\ Enabled(y) /\ Tested(y) = {} /\ Tested(x) = {}
  BY <1>1, <1>2, <1>4, StepsKeepTests
<1>6. UNCHANGED <<own, moves, cells, disturbed>> /\ run' = [run EXCEPT ![r] = y]
  BY <1>3 DEF DoCall, Continue
<1>7. disturbed' = disturbed \cup Tested(run[r])
  BY <1>5, <1>6 DEF x
<1>. QED
  BY <1>5, <1>6, <1>7, FreshRunMoves

LEMMA GetStep ==
  ASSUME Inv, NEW r \in Runs, DoGet(r)
  PROVE  Inv'
<1>. DEFINE x == run[r]
            k == <<Chip(x), Now(x).cell>>
            z == IF Now(x).var = "orig" THEN [x EXCEPT !.orig = cells[k]] ELSE x
<1>1. x.end = "running" /\ Now(x).op = "get" /\ UNCHANGED cells
  BY DEF DoGet, At
<1>2. /\ RunTyped(x) /\ Enabled(x) /\ Keeps(x, x) /\ ~Probes(Now(x))
      /\ StepTyped(Now(x)) /\ Chip(x) \in Chips
      /\ Tested(x) \subseteq {Chip(x)} \X Cells
      /\ Failed(x) = After(x, IF Now(x).fail = "ignore" THEN "next" ELSE Now(x).fail)
  BY <1>1, AtStep DEF Probes
<1>3. Failed(x) = After(x, "next") /\ k \in Chips \X Cells
  BY <1>1, <1>2 DEF StepTyped
<1>4. cells[k] \in Values
  BY <1>3 DEF Inv, TypeInv
<1>5. /\ z.tool = x.tool /\ z.place = x.place /\ z.step = x.step /\ z.end = x.end
      /\ z.enabled = x.enabled /\ z \in RunStates
      /\ z.orig = IF Now(x).var = "orig" THEN cells[k] ELSE x.orig
  BY <1>2, <1>4 DEF RunTyped, RunStates
<1>6. Keeps(x, z)
  BY <1>5 DEF Keeps
<1>7. RunTyped(z)
  BY <1>2, <1>5, <1>6, SameProgram DEF RunTyped, Placed
<1>8. \/ /\ Continue(r, Succeeded(z))
         /\ disturbed' = disturbed \cup (Tested(Succeeded(z)) \cap TestedBesides(r))
      \/ /\ Continue(r, Failed(x))
         /\ disturbed' = disturbed \cup (IF Now(x).var = "orig" THEN Tested(Failed(x)) ELSE {})
  BY DEF DoGet
<1>. HIDE DEF z, k, x
<1>9. CASE /\ Continue(r, Succeeded(z))
           /\ disturbed' = disturbed \cup (Tested(Succeeded(z)) \cap TestedBesides(r))
  <2>. DEFINE y == Succeeded(z)
  <2>1. y = After(z, "next")
    BY DEF Succeeded
  <2>2. /\ RunTyped(y) /\ Enabled(y) /\ (Tested(y) # {} => y.orig = z.orig)
        /\ Now(x).var # "orig" => Tested(y) = Tested(x)
        /\ Now(x).var = "orig" => Tested(x) = {} /\ Tested(y) \subseteq {k}
    BY <1>1, <1>2, <1>5, <1>6, <1>7, <2>1, StepsKeepTests DEF Reads, k
  <2>. HIDE DEF y
  <2>3. Tested(y) \subseteq Chips \X Cells
    BY <1>2, <1>3, <2>2
  <2>4. /\ run' = [run EXCEPT ![r] = y] /\ own' = own /\ moves' = moves /\ cells' = cells
        /\ disturbed' = disturbed \cup (Tested(y) \cap TestedBesides(r))
    BY <1>1, <1>9 DEF Continue, y
  <2>5. ASSUME NEW c \in TestCells \ disturbed' PROVE Goes(c, r, run[r], y, cells'[c])
    <3>1. CASE Now(x).var = "orig" /\ c \in Tested(y)
      <4>1. c = k /\ c \notin Tested(x) /\ c \notin TestedBesides(r) /\ y.orig = cells[c]
        BY <1>5, <2>2, <2>4, <2>5, <3>1
      <4>. QED
        BY <3>1, <4>1 DEF Goes, x
    <3>2. CASE Now(x).var = "orig" /\ c \notin Tested(y)
      BY <2>2, <2>4, <3>2 DEF Goes, x
    <3>3. CASE Now(x).var # "orig"
      BY <1>5, <2>2, <2>4, <3>3 DEF Goes, x
    <3>. QED
      BY <3>1, <3>2, <3>3
  <2>6. disturbed' \subseteq Chips \X Cells /\ cells' \in [Chips \X Cells -> Values]
    BY <2>3, <2>4 DEF Inv, TypeInv
  <2>. QED
    BY <2>2, <2>4, <2>5, <2>6, RunMoves
<1>10. CASE /\ Continue(r, Failed(x))
            /\ disturbed' = disturbed \cup (IF Now(x).var = "orig" THEN Tested(Failed(x)) ELSE {})
  <2>. DEFINE y == Failed(x)
  <2>1. /\ RunTyped(y) /\ Enabled(y) /\ (Tested(y) # {} => y.orig = x.orig)
        /\ Now(x).var # "orig" => Tested(y) = Tested(x)
        /\ Now(x).var = "orig" => Tested(x) = {} /\ Tested(y) \subseteq {k}
    <3>1. x.enabled \subseteq x.enabled
      OBVIOUS
    <3>. QED
      BY <1>1, <1>2, <1>3, <3>1, StepsKeepTests DEF Reads, k
  <2>. HIDE DEF y
  <2>2. /\ run' = [run EXCEPT ![r] = y] /\ own' = own /\ moves' = moves /\ cells' = cells
        /\ disturbed' = disturbed \cup (IF Now(x).var = "orig" THEN Tested(y) ELSE {})
    BY <1>1, <1>10 DEF Continue, y
  <2>3. disturbed' \subseteq Chips \X Cells /\ cells' \in [Chips \X Cells -> Values]
    BY <1>3, <2>1, <2>2 DEF Inv, TypeInv
  <2>4. \A c \in TestCells \ disturbed' : Goes(c, r, run[r], y, cells'[c])
    BY <2>1, <2>2 DEF Goes, x
  <2>. QED
    BY <2>1, <2>2, <2>3, <2>4, RunMoves
<1>. QED
  BY <1>8, <1>9, <1>10

LEMMA WrittenTyped ==
  ASSUME NEW x \in RunStates
  PROVE  /\ Written(x) \subseteq Values
         /\ Now(x).var = "orig" /\ x.orig # "initial" => Written(x) = {x.orig}
BY DEF Written, Values, RunStates

LEMMA PutStep ==
  ASSUME Inv, NEW r \in Runs, DoPut(r)
  PROVE  Inv'
<1>. DEFINE x == run[r]
            k == <<Chip(x), Now(x).cell>>
            y == After(x, "next")
<1>1. x.end = "running" /\ Now(x).op = "put"
  BY DEF DoPut, At
<1>2. /\ RunTyped(x) /\ Enabled(x) /\ Keeps(x, x) /\ ~Probes(Now(x))
      /\ StepTyped(Now(x)) /\ Chip(x) \in Chips
      /\ Tested(x) \subseteq {Chip(x)} \X Cells
      /\ Failed(x) = After(x, IF Now(x).fail = "ignore" THEN "next" ELSE Now(x).fail)
  BY <1>1, AtStep DEF Probes
<1>3. Failed(x) = y /\ Succeeded(x) = y /\ k \in Chips \X Cells
  BY <1>1, <1>2 DEF StepTyped, Succeeded
<1>4. /\ RunTyped(y) /\ Enabled(y) /\ (Tested(y) # {} => y.orig = x.orig)
      /\ Tested(y) \subseteq Tested(x)
      /\ \A c \in Tested(x) \ Tested(y) : c = k /\ Now(x).var = "orig"
      /\ Now(x).cell \in {"scom", "sbe"} => k \in Tested(x)
  <2>1. x.enabled \subseteq x.enabled
    OBVIOUS
  <2>. QED
    BY <1>1, <1>2, <2>1, StepsKeepTests
<1>5. \/ /\ Continue(r, Succeeded(x))
         /\ \E v \in Written(x) : cells' = [cells EXCEPT ![k] = v]
         /\ UNCHANGED disturbed
      \/ /\ Continue(r, Failed(x))
         /\ disturbed' = disturbed \cup (IF Now(x).var = "orig" THEN {k} ELSE {})
         /\ UNCHANGED cells
  BY DEF DoPut
<1>6. cells \in [Chips \X Cells -> Values] /\ disturbed \subseteq Chips \X Cells
  BY DEF Inv, TypeInv
<1>7. k \in TestCells => Now(x).cell \in {"scom", "sbe"}
  BY DEF TestCells
<1>. HIDE DEF y, k, x
<1>8. CASE /\ Continue(r, Succeeded(x))
           /\ \E v \in Written(x) : cells' = [cells EXCEPT ![k] = v]
           /\ UNCHANGED disturbed
  <2>1. PICK v \in Written(x) : cells' = [cells EXCEPT ![k] = v]
    BY <1>8
  <2>2. run' = [run EXCEPT ![r] = y] /\ own' = own /\ moves' = moves /\ disturbed' = disturbed
    BY <1>3, <1>8 DEF Continue
  <2>3. v \in Values
    BY <1>2, <2>1, WrittenTyped DEF RunTyped
  <2>4. cells' \in [Chips \X Cells -> Values] /\ cells'[k] = v
    BY <1>3, <1>6, <2>1, <2>3
  <2>5. ASSUME NEW c \in TestCells \ disturbed' PROVE Goes(c, r, run[r], y, cells'[c])
    <3>1. CASE c \in Tested(x) /\ c \notin Tested(y)
      <4>1. c = k /\ Now(x).var = "orig"
        BY <1>4, <3>1
      <4>2. x.orig # "initial"
        BY <2>2, <2>5, <3>1 DEF Inv, Restores, x
      <4>3. v = x.orig
        BY <1>2, <2>1, <4>1, <4>2, WrittenTyped DEF RunTyped
      <4>. QED
        BY <2>4, <3>1, <4>1, <4>3 DEF Goes, x
    <3>2. CASE ~(c \in Tested(x) /\ c \notin Tested(y))
      <4>1. c \in Tested(y) <=> c \in Tested(x)
        BY <1>4, <3>2
      <4>2. c \in Tested(y) => y.orig = x.orig
        BY <1>4
      <4>3. cells'[c] = cells[c] \/ c \in Tested(y)
        <5>1. CASE c = k
          BY <1>4, <1>7, <2>5, <4>1, <5>1
        <5>2. CASE c # k
          BY <1>6, <2>1, <2>5, <5>2 DEF TestCells, Cells
        <5>. QED
          BY <5>1, <5>2
      <4>. QED
        BY <4>1, <4>2, <4>3 DEF Goes, x
    <3>. QED
      BY <3>1, <3>2
  <2>6. disturbed' \subseteq Chips \X Cells /\ disturbed \subseteq disturbed'
    BY <1>6, <2>2
  <2>. QED
    BY <1>4, <2>2, <2>4, <2>5, <2>6, RunMoves
<1>9. CASE /\ Continue(r, Failed(x))
           /\ disturbed' = disturbed \cup (IF Now(x).var = "orig" THEN {k} ELSE {})
           /\ UNCHANGED cells
  <2>1. /\ run' = [run EXCEPT ![r] = y] /\ own' = own /\ moves' = moves /\ cells' = cells
        /\ disturbed' \subseteq Chips \X Cells /\ disturbed \subseteq disturbed'
    BY <1>3, <1>6, <1>9 DEF Continue
  <2>2. ASSUME NEW c \in TestCells \ disturbed' PROVE Goes(c, r, run[r], y, cells'[c])
    <3>1. c \in Tested(y) <=> c \in Tested(x)
      BY <1>4, <1>9, <2>2
    <3>. QED
      BY <1>4, <2>1, <3>1 DEF Goes, x
  <2>. QED
    BY <1>4, <1>6, <2>1, <2>2, RunMoves
<1>. QED
  BY <1>5, <1>8, <1>9

\* An SBE that moves takes its own state along, and disturbs the test it moves under.
LEMMA SbeStep ==
  ASSUME Inv, NEW c \in Chips, NEW s \in SbeStates, SbeMoves(c, s)
  PROVE  Inv'
<1>. DEFINE k == <<c, "sbe">>
<1>1. /\ cells' = [cells EXCEPT ![k] = s] /\ own' = [own EXCEPT ![k] = s]
      /\ disturbed' = disturbed \cup ({k} \cap UNION {Tested(run[r]) : r \in Runs})
      /\ run' = run /\ moves < MaxMoves /\ moves' = moves + 1
  BY DEF SbeMoves
<1>2. k \in Chips \X Cells /\ s \in Values /\ s # "initial"
  BY StatesAssumption DEF Cells, Values
<1>. HIDE DEF k
<1>3. TypeInv'
  <2>1. moves' \in 0 .. MaxMoves
    BY <1>1, MovesAssumption DEF Inv, TypeInv
  <2>2. /\ cells' \in [Chips \X Cells -> Values] /\ own' \in [Chips \X Cells -> Values]
        /\ disturbed' \subseteq Chips \X Cells
    BY <1>1, <1>2 DEF Inv, TypeInv
  <2>. QED
    BY <1>1, <2>1, <2>2 DEF Inv, TypeInv
<1>4. AllEnabled'
  BY <1>1 DEF Inv, AllEnabled
<1>5. ASSUME NEW d \in TestCells \ disturbed'
      PROVE  /\ own'[d] # "initial"
             /\ (\A r \in Runs : d \notin Tested(run[r])) => cells'[d] = own'[d]
             /\ \A r \in Runs : d \in Tested(run[r]) =>
                  /\ run[r].orig = own'[d]
                  /\ \A q \in Runs \ {r} : d \notin Tested(run[q])
  <2>1. d \notin disturbed /\ d \in Chips \X Cells
    BY <1>1, <1>5 DEF TestCells, Cells
  <2>2. CASE d = k
    <3>1. \A r \in Runs : d \notin Tested(run[r])
      BY <1>1, <1>5, <2>2
    <3>2. cells'[d] = s /\ own'[d] = s
      BY <1>1, <1>2, <2>2 DEF Inv, TypeInv
    <3>. QED
      BY <1>2, <3>1, <3>2
  <2>3. CASE d # k
    <3>1. cells'[d] = cells[d] /\ own'[d] = own[d]
      BY <1>1, <2>1, <2>3 DEF Inv, TypeInv
    <3>. QED
      BY <1>5, <2>1, <3>1 DEF Inv, Restores
  <2>. QED
    BY <2>2, <2>3
<1>6. Restores'
  BY <1>1, <1>5 DEF Restores, TestCells
<1>. QED
  BY <1>3, <1>4, <1>6 DEF Inv

-----------------------------------------------------------------------------
(* The theorems about the tools. *)

LEMMA NextInv == Inv /\ [Next]_vars => Inv'
<1>. SUFFICES ASSUME Inv, [Next]_vars PROVE Inv'
  OBVIOUS
<1>1. CASE \E r \in Runs : RunStep(r) \/ Killed(r)
  BY <1>1, BeginStep, ProbeStep, CallStep, GetStep, PutStep, KilledStep DEF RunStep
<1>2. CASE \E c \in Chips, s \in SbeStates : SbeMoves(c, s)
  BY <1>2, SbeStep
<1>3. CASE UNCHANGED vars
  BY <1>3 DEF vars, Inv, TypeInv, AllEnabled, Restores
<1>. QED
  BY <1>1, <1>2, <1>3 DEF Next, Finished

\* The variables have their types: a run is at a step of the program of its place.
THEOREM TypeCorrect == Spec => []TypeOK
<1>1. Spec => []Inv
  BY InitInv, NextInv, PTL DEF Spec
<1>2. Inv => TypeOK
  BY InvImplied
<1>. QED
  BY <1>1, <1>2, PTL

\* A register that sbescom tries out and a state that sbegetstate writes back hold what
\* they would without the tools, unless their test was disturbed, however many runs
\* work on however many chips (sbescom.cpp L123-143, sbegetstate.cpp L137-145).
THEOREM RegistersArePutBack == Spec => []PutBack
<1>1. Spec => []Inv
  BY InitInv, NextInv, PTL DEF Spec
<1>2. Inv => PutBack
  BY InvImplied
<1>. QED
  BY <1>1, <1>2, PTL

\* A device that a tool probes is used only behind a successful probe of it, in the
\* tools' own ways of going on after a failure.
THEOREM OnlyEnabledAreUsed == Spec => []UsesEnabled
<1>1. Spec => []Inv
  BY InitInv, NextInv, PTL DEF Spec
<1>2. Inv => UsesEnabled
  BY InvImplied
<1>. QED
  BY <1>1, <1>2, PTL

-----------------------------------------------------------------------------
(* The attribute script: elements and paths. *)

LEMMA UnitRank ==
  ASSUME NEW u \in ToSet(Units)
  PROVE  RankOf(u) \in DOMAIN Units /\ Units[RankOf(u)] = u
BY DEF RankOf, ToSet

\* The order of elements is total, on any units.
LEMMA SortedIsTotal ==
  ASSUME NEW e \in Elements, NEW f \in Elements
  PROVE  /\ Sorted(e, f) \/ e = f \/ Sorted(f, e)
         /\ ~Sorted(e, e)
         /\ Sorted(e, f) => ~Sorted(f, e)
         /\ \A g \in Elements : Sorted(e, f) /\ Sorted(f, g) => Sorted(e, g)
<1>. DEFINE rank(x) == RankOf(x.unit)
<1>0. Units \in Seq(ToSet(Units))
  BY UnitsAssumption
<1>1. \A x \in Elements : rank(x) \in Nat /\ x.index \in Nat /\ Units[rank(x)] = x.unit
  BY <1>0, UnitRank DEF Elements
<1>2. e = f <=> e.unit = f.unit /\ e.index = f.index
  BY DEF Elements
<1>3. \A x \in Elements : Sorted(e, x) <=> rank(e) < rank(x) \/ (rank(e) = rank(x) /\ e.index < x.index)
  BY <1>1 DEF Sorted
<1>4. \A x \in Elements : Sorted(f, x) <=> rank(f) < rank(x) \/ (rank(f) = rank(x) /\ f.index < x.index)
  BY <1>1 DEF Sorted
<1>5. rank(e) = rank(f) <=> e.unit = f.unit
  BY <1>1
<1>. HIDE DEF rank
<1>. QED
  BY <1>1, <1>2, <1>3, <1>4, <1>5

LEMMA LeastIsLeast ==
  ASSUME NEW S \in SUBSET Elements, S # {}
  PROVE  Least(S) \in S /\ \A f \in S : f = Least(S) \/ Sorted(Least(S), f)
<1>. DEFINE R == {RankOf(e.unit) : e \in S}
<1>1. R \in SUBSET Nat /\ R # {}
  BY UnitsAssumption, UnitRank DEF Elements
<1>2. PICK r \in R : \A x \in R : r <= x
  BY <1>1, LeastNatural
<1>. DEFINE I == {e.index : e \in {e \in S : RankOf(e.unit) = r}}
<1>3. I \in SUBSET Nat /\ I # {}
  BY <1>2 DEF Elements
<1>4. PICK n \in I : \A x \in I : n <= x
  BY <1>3, LeastNatural
<1>5. PICK e \in S : RankOf(e.unit) = r /\ e.index = n
  BY <1>4
<1>6. ASSUME NEW f \in S \ {e}
      PROVE  Sorted(e, f)
  <2>1. RankOf(f.unit) \in Nat /\ f.index \in Nat /\ r \in Nat /\ n \in Nat
    BY <1>1, <1>2, <1>3, <1>4 DEF Elements
  <2>2. r <= RankOf(f.unit) /\ (r = RankOf(f.unit) => n <= f.index)
    BY <1>2, <1>4
  <2>3. ~Sorted(f, e)
    <3>1. RankOf(f.unit) = r => e.unit = f.unit
      BY <1>5, UnitRank DEF Elements
    <3>. QED
      BY <1>5, <2>1, <2>2, <3>1 DEF Sorted
  <2>. QED
    BY <1>6, <2>3, SortedIsTotal
<1>. QED
  BY <1>6 DEF Least

\* What begins with what, element by element.
Starts(p, q) == Len(p) <= Len(q) /\ \A k \in 1 .. Len(p) : p[k] = q[k]

LEMMA PrefixStarts ==
  ASSUME NEW p \in Seq(Elements), NEW q \in Seq(Elements)
  PROVE  /\ IsPrefix(p, q) <=> Starts(p, q)
         /\ IsStrictPrefix(p, q) <=> Starts(p, q) /\ Len(p) < Len(q)
<1>1. IsPrefix(p, q) <=> Starts(p, q)
  BY DEF IsPrefix, Starts
<1>2. Starts(p, q) /\ Len(p) = Len(q) => p = q
  BY DEF Starts
<1>. QED
  BY <1>1, <1>2 DEF IsStrictPrefix, Starts

LEMMA BeforeIs ==
  ASSUME NEW p \in Seq(Elements), NEW q \in Seq(Elements)
  PROVE  Before(q, p) <=>
           \/ Starts(q, p) /\ Len(q) < Len(p)
           \/ \E n \in 1 .. Len(p) : n <= Len(q) /\ (\A k \in 1 .. n - 1 : q[k] = p[k]) /\ Sorted(q[n], p[n])
BY PrefixStarts DEF Before, Sorted

\* What comes before a node is what comes before the one above it, that one, and the
\* nodes beside it before its element with what is below them.
LEMMA BeforeChild ==
  ASSUME NEW f \in Seq(Elements), NEW e \in Elements, NEW q \in Seq(Elements)
  PROVE  Before(q, Append(f, e)) <=>
           \/ q = f
           \/ Before(q, f)
           \/ Starts(f, q) /\ Len(q) > Len(f) /\ Sorted(q[Len(f) + 1], e)
<1>. DEFINE p == Append(f, e)
<1>1. p \in Seq(Elements) /\ Len(p) = Len(f) + 1 /\ p[Len(f) + 1] = e
  OBVIOUS
<1>2. \A k \in 1 .. Len(f) : p[k] = f[k]
  OBVIOUS
<1>. HIDE DEF p
<1>3. Starts(q, p) /\ Len(q) < Len(p) <=> Starts(q, f)
  BY <1>1, <1>2 DEF Starts
<1>4. Starts(q, f) <=> q = f \/ (Starts(q, f) /\ Len(q) < Len(f))
  BY DEF Starts
<1>5. ASSUME NEW n \in 1 .. Len(f)
      PROVE  (\A k \in 1 .. n - 1 : q[k] = p[k]) /\ Sorted(q[n], p[n])
               <=> (\A k \in 1 .. n - 1 : q[k] = f[k]) /\ Sorted(q[n], f[n])
  BY <1>2
<1>6. Len(f) + 1 <= Len(q) /\ (\A k \in 1 .. Len(f) : q[k] = p[k]) <=> Starts(f, q) /\ Len(q) > Len(f)
  BY <1>2 DEF Starts
<1>7. (\E n \in 1 .. Len(p) : n <= Len(q) /\ (\A k \in 1 .. n - 1 : q[k] = p[k]) /\ Sorted(q[n], p[n])) <=>
        \/ \E n \in 1 .. Len(f) : n <= Len(q) /\ (\A k \in 1 .. n - 1 : q[k] = p[k]) /\ Sorted(q[n], p[n])
        \/ Len(f) + 1 <= Len(q) /\ (\A k \in 1 .. Len(f) : q[k] = p[k]) /\ Sorted(q[Len(f) + 1], e)
  <2>. DEFINE here(n) == n <= Len(q) /\ (\A k \in 1 .. n - 1 : q[k] = p[k]) /\ Sorted(q[n], p[n])
  <2>1. \A n : n \in 1 .. Len(p) <=> n \in 1 .. Len(f) \/ n = Len(f) + 1
    BY <1>1
  <2>2. here(Len(f) + 1) <=>
          Len(f) + 1 <= Len(q) /\ (\A k \in 1 .. Len(f) : q[k] = p[k]) /\ Sorted(q[Len(f) + 1], e)
    BY <1>1
  <2>. HIDE DEF here
  <2>3. (\E n \in 1 .. Len(p) : here(n)) <=> (\E n \in 1 .. Len(f) : here(n)) \/ here(Len(f) + 1)
    BY <2>1
  <2>. QED
    BY <2>2, <2>3 DEF here
<1>8. Before(q, p) <=>
        \/ Starts(q, p) /\ Len(q) < Len(p)
        \/ \E n \in 1 .. Len(p) : n <= Len(q) /\ (\A k \in 1 .. n - 1 : q[k] = p[k]) /\ Sorted(q[n], p[n])
  BY <1>1, BeforeIs
<1>9. Before(q, f) <=>
        \/ Starts(q, f) /\ Len(q) < Len(f)
        \/ \E n \in 1 .. Len(f) : n <= Len(q) /\ (\A k \in 1 .. n - 1 : q[k] = f[k]) /\ Sorted(q[n], f[n])
  BY BeforeIs
<1>. QED
  BY <1>3, <1>4, <1>5, <1>6, <1>7, <1>8, <1>9 DEF p

LEMMA PathsTyped ==
  /\ Paths \subseteq Seq(Elements) \ {<<>>}
  /\ \A t \in Targets : t.path \in Paths
  /\ \A p \in Paths : \A n \in 1 .. Len(p) : SubSeq(p, 1, n) \in Paths
<1>1. \A t \in Targets : t.path \in Seq(Elements) /\ Len(t.path) > 0
  BY TargetsAssumption
<1>2. ASSUME NEW p \in Paths
      PROVE  /\ p \in Seq(Elements) \ {<<>>}
             /\ \A n \in 1 .. Len(p) : SubSeq(p, 1, n) \in Paths
  <2>0. PICK t \in Targets : \E m \in 1 .. Len(t.path) : p = SubSeq(t.path, 1, m)
    BY DEF Paths
  <2>1. PICK m \in 1 .. Len(t.path) : p = SubSeq(t.path, 1, m)
    BY <2>0
  <2>2. p \in Seq(Elements) /\ Len(p) = m /\ m > 0
    BY <1>1, <2>1
  <2>3. ASSUME NEW n \in 1 .. Len(p)
        PROVE  SubSeq(p, 1, n) \in Paths
    <3>1. SubSeq(p, 1, n) = SubSeq(t.path, 1, n) /\ n \in 1 .. Len(t.path)
      BY <1>1, <2>1, <2>2
    <3>. QED
      BY <3>1 DEF Paths
  <2>. QED
    BY <2>2, <2>3
<1>3. ASSUME NEW t \in Targets
      PROVE  t.path \in Paths
  <2>1. t.path = SubSeq(t.path, 1, Len(t.path)) /\ Len(t.path) \in 1 .. Len(t.path)
    BY <1>1
  <2>. QED
    BY <2>1 DEF Paths
<1>. QED
  BY <1>2, <1>3

-----------------------------------------------------------------------------
(* Invariants. *)

Contents == [name : {t.name : t \in Targets}, path : Paths, eco : {t.eco : t \in Targets}, hwas : Nat]

\* How many targets processFile, or printTargets, is through with.
Taken == IF pc = "process" THEN idx - 1 ELSE Len(file)
Handled == IF pc = "process" THEN 0 ELSE idx - 1

\* The ECO mode of a target after its core-0, if there is one behind it.
EcoOf(n, taken) == IF n < taken /\ IsCore0(file[n + 1]) THEN file[n + 1].eco ELSE file[n].eco

Copied ==
  pc # "crashed" =>
    /\ content = [n \in 1 .. Len(file) |-> [file[n] EXCEPT !.eco = EcoOf(n, Taken)]]
    /\ \A n \in 1 .. Taken : IsCore0(file[n]) => n # 1 /\ file[n].eco # NoEco

\* What is the same in every loop: where it is left.
OptionsInPlace ==
  /\ pc = "finish" => args.option \in {"-t", "-p"}
  /\ pc \in {"below", "behind"} => args.option \in {"-n", "-n -fullpath"}
  /\ pc \in {"below", "behind", "done"} /\ args.option \notin {"-t", "-p"} => idx = Len(file) + 1

LEMMA InitTyped == ScriptInit => ScriptTypeOK /\ Copied /\ OptionsInPlace
<1>. SUFFICES ASSUME ScriptInit PROVE ScriptTypeOK /\ Copied /\ OptionsInPlace
  OBVIOUS
<1>1. PICK n \in Nat : file \in [1 .. n -> Targets]
  BY DEF ScriptInit, Files, Injection
<1>2. file \in Seq(Targets) /\ Len(file) = n
  BY <1>1
<1>3. \A t \in Targets : t \in Contents
  BY TargetsAssumption, PathsTyped DEF Contents
<1>4. content = file /\ content \in Seq(Contents)
  BY <1>2, <1>3 DEF ScriptInit
<1>5. ScriptTypeOK
  BY <1>2, <1>4 DEF ScriptInit, ScriptTypeOK, Contents
<1>6. Copied
  <2>1. pc = "process" /\ idx = 1 /\ Taken = 0
    BY DEF ScriptInit, Taken
  <2>2. ASSUME NEW m \in 1 .. Len(file) PROVE file[m] = [file[m] EXCEPT !.eco = EcoOf(m, 0)]
    <3>1. EcoOf(m, 0) = file[m].eco
      BY <1>2 DEF EcoOf
    <3>2. file[m] \in Targets
      BY <1>2
    <3>. QED
      BY <3>1, <3>2, <1>3 DEF Contents
  <2>3. content = [m \in 1 .. Len(file) |-> file[m]]
    BY <1>2, <1>4
  <2>4. content = [m \in 1 .. Len(file) |-> [file[m] EXCEPT !.eco = EcoOf(m, 0)]]
    BY <2>2, <2>3
  <2>. QED
    BY <2>1, <2>4 DEF Copied
<1>7. OptionsInPlace
  BY DEF ScriptInit, OptionsInPlace
<1>. QED
  BY <1>5, <1>6, <1>7

LEMMA CopyStep ==
  ASSUME ScriptTypeOK, Copied, OptionsInPlace, processFile
  PROVE  ScriptTypeOK' /\ Copied' /\ OptionsInPlace'
<1>1. file \in Seq(Targets) /\ file' = file /\ idx \in 1 .. Len(file) /\ pc = "process"
  BY DEF processFile, ScriptTypeOK
<1>2. content \in Seq(Contents) /\ Len(content) = Len(file)
  BY DEF ScriptTypeOK, Contents
<1>3. Taken = idx - 1 /\ content[idx] = [file[idx] EXCEPT !.eco = EcoOf(idx, idx - 1)]
  BY <1>1 DEF Taken, Copied
<1>4. EcoOf(idx, idx - 1) = file[idx].eco
  BY <1>1 DEF EcoOf
<1>5. file[idx] \in Targets /\ file[idx] \in Contents
  BY <1>1, TargetsAssumption, PathsTyped DEF Contents
<1>6. content[idx] = file[idx]
  BY <1>3, <1>4, <1>5 DEF Contents
<1>7. CASE IsCore0(content[idx]) /\ CannotCopy
  <2>1. pc' = "crashed" /\ content' = content /\ idx' = idx
    BY <1>7 DEF processFile
  <2>. QED
    BY <1>1, <1>7, <2>1 DEF processFile, ScriptTypeOK, Copied, OptionsInPlace
<1>8. CASE ~(IsCore0(content[idx]) /\ CannotCopy)
  <2>1. pc' = pc /\ idx' = idx + 1 /\ Taken' = idx
    BY <1>1, <1>8 DEF processFile, Taken
  <2>2. content' = IF IsCore0(file[idx]) THEN CopyEco ELSE content
    BY <1>1, <1>6, <1>8 DEF processFile
  <2>3. IsCore0(file[idx]) => idx # 1 /\ file[idx].eco # NoEco
    BY <1>6, <1>8 DEF CannotCopy
  <2>4. ASSUME NEW n \in 1 .. Len(file)
        PROVE  EcoOf(n, idx) = IF IsCore0(file[idx]) /\ n = idx - 1 THEN file[idx].eco
                               ELSE EcoOf(n, idx - 1)
    BY <1>1 DEF EcoOf
  <2>5. \A n \in 1 .. Len(file) : content[n] = [file[n] EXCEPT !.eco = EcoOf(n, idx - 1)]
    BY <1>1, <1>3 DEF Copied
  <2>6. content \in [1 .. Len(file) -> Contents]
    BY <1>2
  <2>7. CopyEco = [content EXCEPT ![idx - 1] = [content[idx - 1] EXCEPT !.eco = content[idx].eco]]
    BY DEF CopyEco
  <2>8. IsCore0(file[idx]) => idx - 1 \in 1 .. Len(file)
    BY <1>1, <2>3
  <2>9. \A n \in 1 .. Len(file) : content'[n] = [file[n] EXCEPT !.eco = EcoOf(n, idx)]
    <3>1. CASE IsCore0(file[idx])
      <4>1. [content[idx - 1] EXCEPT !.eco = content[idx].eco]
              = [file[idx - 1] EXCEPT !.eco = file[idx].eco]
        <5>1. content[idx - 1] = [file[idx - 1] EXCEPT !.eco = EcoOf(idx - 1, idx - 1)]
          BY <2>5, <2>8, <3>1
        <5>2. file[idx - 1] \in Targets /\ file[idx - 1] \in Contents
          BY <1>1, <2>8, <3>1, TargetsAssumption, PathsTyped DEF Contents
        <5>. QED
          BY <5>1, <5>2, <1>6 DEF Contents
      <4>. QED
        BY <2>2, <2>4, <2>5, <2>6, <2>7, <2>8, <3>1, <4>1
    <3>2. CASE ~IsCore0(file[idx])
      BY <2>2, <2>4, <2>5, <3>2
    <3>. QED
      BY <3>1, <3>2
  <2>10. content' \in [1 .. Len(file) -> Contents]
    <3>1. CASE IsCore0(file[idx])
      <4>1. content[idx - 1] \in Contents /\ content[idx] \in Contents
        BY <2>6, <2>8, <3>1, <1>1
      <4>2. [content[idx - 1] EXCEPT !.eco = content[idx].eco] \in Contents
        BY <4>1 DEF Contents
      <4>. QED
        BY <2>2, <2>6, <2>7, <4>2, <3>1
    <3>. QED
      BY <2>2, <2>6, <3>1
  <2>11. Len(content') = Len(file) /\ content' \in Seq(Contents)
    BY <2>10, <1>1
  <2>12. content' = [n \in 1 .. Len(file) |-> [file[n] EXCEPT !.eco = EcoOf(n, idx)]]
    BY <2>9, <2>10
  <2>13. \A n \in 1 .. idx : IsCore0(file[n]) => n # 1 /\ file[n].eco # NoEco
    BY <1>1, <1>3, <2>3 DEF Copied
  <2>14. ScriptTypeOK'
    BY <1>1, <2>1, <2>11 DEF processFile, ScriptTypeOK, Contents
  <2>15. Copied'
    BY <1>1, <2>1, <2>12, <2>13 DEF Copied, EcoOf
  <2>16. OptionsInPlace'
    BY <1>1, <2>1 DEF OptionsInPlace
  <2>. QED
    BY <2>14, <2>15, <2>16
<1>. QED
  BY <1>7, <1>8

LEMMA ProcessedStep ==
  ASSUME ScriptTypeOK, Copied, OptionsInPlace, Processed
  PROVE  ScriptTypeOK' /\ Copied' /\ OptionsInPlace'
<1>1. /\ pc = "process" /\ idx = Len(file) + 1 /\ Len(file) \in Nat
      /\ pc' = "print" /\ idx' = 1 /\ file' = file /\ content' = content
  BY DEF Processed, ScriptTypeOK
<1>2. Taken = Len(file) /\ Taken' = Len(file)
  BY <1>1 DEF Taken
<1>3. Copied'
  BY <1>1, <1>2 DEF Copied, EcoOf
<1>. QED
  BY <1>1, <1>3 DEF Processed, ScriptTypeOK, OptionsInPlace

\* A target keeps its name and its path, whatever ECO mode it takes over.
LEMMA ContentIs ==
  ASSUME ScriptTypeOK, Copied, pc # "crashed", NEW n \in 1 .. Len(file)
  PROVE  /\ file[n] \in Targets
         /\ content[n] \in Contents
         /\ content[n].name = file[n].name /\ content[n].path = file[n].path
         /\ content[n].hwas = file[n].hwas
         /\ content[n].eco = EcoOf(n, Taken)
<1>1. file[n] \in Targets /\ content[n] = [file[n] EXCEPT !.eco = EcoOf(n, Taken)]
  BY DEF ScriptTypeOK, Copied
<1>2. file[n] = [name |-> file[n].name, path |-> file[n].path, eco |-> file[n].eco, hwas |-> file[n].hwas]
  BY <1>1, TargetsAssumption
<1>3. content \in Seq(Contents) /\ Len(content) = Len(file)
  BY DEF ScriptTypeOK, Contents
<1>. QED
  BY <1>1, <1>2, <1>3

\* The target the loop is at.
LEMMA HereIs ==
  ASSUME ScriptTypeOK, Copied, NEW option, PrintAt(option)
  PROVE  /\ pc = "print" /\ idx \in 1 .. Len(file) /\ args.option = option
         /\ Here.path \in Paths /\ Here.path = file[idx].path /\ Here.name = file[idx].name
         /\ file[idx] \in ToSet(file)
         /\ Taken = Len(file)
         /\ args' = args /\ file' = file /\ content' = content /\ l' = l
<1>1. pc = "print" /\ idx \in 1 .. Len(file) /\ args.option = option
  BY DEF PrintAt, ScriptTypeOK
<1>2. file[idx] \in ToSet(file)
  <2>1. file \in Seq(Targets)
    BY DEF ScriptTypeOK
  <2>2. idx \in DOMAIN file
    BY <1>1, <2>1
  <2>. QED
    BY <2>2 DEF ToSet
<1>. QED
  BY <1>1, <1>2, ContentIs, PathsTyped DEF Here, PrintAt, Taken

LEMMA PrintTyped ==
  ASSUME ScriptTypeOK, Copied, OptionsInPlace,
         PrintAll \/ PrintJson \/ PrintSpecific \/ listNodes \/ FindTargets
  PROVE  ScriptTypeOK' /\ Copied' /\ OptionsInPlace'
<1>1. PICK option : PrintAt(option)
  BY DEF PrintAll, PrintJson, PrintSpecific, listNodes, FindTargets
<1>2. /\ pc = "print" /\ idx \in 1 .. Len(file) /\ Here.path \in Paths /\ Taken = Len(file)
      /\ args' = args /\ file' = file /\ content' = content /\ l' = l
  BY <1>1, HereIs
<1>3. \/ pc' = pc /\ idx' = idx + 1
      \/ pc' = "finish" /\ args.option \in {"-t", "-p"} /\ idx' = idx
      \/ pc' = "crashed" /\ idx' = idx
  BY DEF PrintAll, PrintJson, PrintSpecific, listNodes, FindTargets, GoOn, PrintAt
<1>4. flag' \in {0, 1}
  BY DEF PrintAll, PrintJson, PrintSpecific, listNodes, FindTargets, FlagAfter, ScriptTypeOK
<1>5. Nodes' \subseteq Paths
  <2>1. \A n \in 1 .. Len(Here.path) : SubSeq(Here.path, 1, n) \in Paths
    BY <1>2, PathsTyped
  <2>. DEFINE above == {SubSeq(Here.path, 1, n) : n \in 1 .. Len(Here.path)}
  <2>2. above \subseteq Paths
    BY <2>1
  <2>3. Nodes' \in {Nodes, Nodes \cup above}
    BY DEF PrintAll, PrintJson, PrintSpecific, listNodes, FindTargets
  <2>. HIDE DEF above
  <2>. QED
    BY <2>2, <2>3 DEF ScriptTypeOK
<1>6. k_v' \subseteq Paths
  BY <1>2 DEF PrintAll, PrintJson, PrintSpecific, listNodes, FindTargets, ScriptTypeOK, PutAt
<1>7. out' \in Seq(Paths \cup {Invalid})
  <2>1. Append(out, Here.path) \in Seq(Paths \cup {Invalid}) /\ out \in Seq(Paths \cup {Invalid})
    BY <1>2 DEF ScriptTypeOK
  <2>2. out' \in {out, Append(out, Here.path)}
    BY DEF PrintAll, PrintJson, PrintSpecific, listNodes, FindTargets
  <2>. QED
    BY <2>1, <2>2
<1>8. ScriptTypeOK'
  BY <1>2, <1>3, <1>4, <1>5, <1>6, <1>7 DEF ScriptTypeOK
<1>9. Copied'
  <2>1. pc' # "crashed" => Taken' = Len(file)
    BY <1>2, <1>3 DEF Taken
  <2>. QED
    BY <1>2, <2>1 DEF Copied, EcoOf
<1>10. OptionsInPlace'
  BY <1>2, <1>3 DEF OptionsInPlace
<1>. QED
  BY <1>8, <1>9, <1>10

\* What Finish and the printing of the tree leave alone.
LEMMA RestKept ==
  ASSUME ScriptTypeOK, Copied, OptionsInPlace,
         pc \in {"print", "finish", "below", "behind"},
         pc' \in {"below", "behind", "done", "crashed"},
         pc' \in {"below", "behind"} => args.option \in {"-n", "-n -fullpath"},
         pc = "print" => idx = Len(content) + 1,
         l' \in Paths \cup {<<>>}, out' \in Seq(Paths \cup {Invalid}),
         UNCHANGED <<args, file, content, idx, flag, Nodes, k_v>>
  PROVE  ScriptTypeOK' /\ Copied' /\ OptionsInPlace'
<1>1. Len(content) = Len(file)
  BY DEF ScriptTypeOK
<1>2. Taken = Len(file) /\ Taken' = Len(file)
  BY DEF Taken
<1>3. ScriptTypeOK'
  BY DEF ScriptTypeOK
<1>4. Copied'
  BY <1>2 DEF Copied, EcoOf
<1>5. OptionsInPlace'
  BY <1>1 DEF OptionsInPlace
<1>. QED
  BY <1>3, <1>4, <1>5

LEMMA FinishTyped ==
  ASSUME ScriptTypeOK, Copied, OptionsInPlace, Finish
  PROVE  ScriptTypeOK' /\ Copied' /\ OptionsInPlace'
<1>1. /\ pc \in {"print", "finish"} /\ (pc = "print" => idx = Len(content) + 1)
      /\ UNCHANGED <<args, file, content, idx, flag, Nodes, k_v>>
  BY DEF Finish
<1>2. /\ pc' \in {"below", "done", "crashed"}
      /\ pc' = "below" => args.option \in {"-n", "-n -fullpath"}
  BY DEF Finish
<1>3. out \in Seq(Paths \cup {Invalid}) /\ Nodes \subseteq Paths /\ l \in Paths \cup {<<>>}
  BY DEF ScriptTypeOK
<1>4. out' \in Seq(Paths \cup {Invalid}) /\ l' \in Paths \cup {<<>>}
  <2>1. \/ out' = out /\ l' = l
        \/ out' = Append(out, Invalid) /\ l' = l
        \/ args.path \in Nodes /\ out' = Append(out, args.path) /\ l' = args.path
    BY DEF Finish
  <2>. QED
    BY <1>3, <2>1
<1>. QED
  BY <1>1, <1>2, <1>4, RestKept

-----------------------------------------------------------------------------
(* The printed tree. *)

Closed(N) ==
  /\ N \subseteq Seq(Elements) \ {<<>>}
  /\ \A q \in N : \A n \in 1 .. Len(q) : SubSeq(q, 1, n) \in N

LEMMA FrontAndLast ==
  ASSUME NEW s \in Seq(Elements), Len(s) > 0
  PROVE  /\ Front(s) \in Seq(Elements) /\ Last(s) \in Elements /\ s = Append(Front(s), Last(s))
         /\ Len(Front(s)) = Len(s) - 1
<1>. DEFINE n == Len(s) - 1
<1>1. n \in Nat /\ Len(s) = n + 1
  OBVIOUS
<1>2. n <= Len(s) /\ \A k \in 1 .. n : k \in 1 .. Len(s) /\ s[k] \in Elements
  BY <1>1
<1>. HIDE DEF n
<1>3. /\ SubSeq(s, 1, n) \in Seq(Elements) /\ Len(SubSeq(s, 1, n)) = n
      /\ \A k \in 1 .. n : SubSeq(s, 1, n)[k] = s[k]
  BY <1>1, <1>2
<1>4. s[n + 1] \in Elements
  BY <1>1
<1>. DEFINE f == SubSeq(s, 1, n)
<1>. HIDE DEF f
<1>5. s = Append(f, s[n + 1])
  BY <1>1, <1>3, <1>4 DEF f
<1>. QED
  BY <1>1, <1>3, <1>4, <1>5 DEF n, f, Front, Last

LEMMA BelowIs ==
  ASSUME Closed(Nodes), NEW f \in Seq(Elements)
  PROVE  /\ Below(f) \subseteq Elements
         /\ \A e \in Below(f) : Append(f, e) \in Nodes
         /\ \A q \in Nodes : Starts(f, q) /\ Len(q) > Len(f) => q[Len(f) + 1] \in Below(f)
<1>1. ASSUME NEW e \in Below(f)
      PROVE  e \in Elements /\ Append(f, e) \in Nodes
  <2>1. PICK q \in Nodes : Len(q) = Len(f) + 1 /\ IsPrefix(f, q) /\ e = Last(q)
    BY DEF Below
  <2>2. q \in Seq(Elements) /\ Starts(f, q)
    BY <2>1, PrefixStarts DEF Closed
  <2>3. q[Len(f) + 1] = e /\ e \in Elements
    BY <2>1, <2>2 DEF Last
  <2>4. q = Append(f, e)
    BY <2>1, <2>2, <2>3 DEF Starts
  <2>. QED
    BY <2>3, <2>4
<1>2. ASSUME NEW q \in Nodes, Starts(f, q), Len(q) > Len(f)
      PROVE  q[Len(f) + 1] \in Below(f)
  <2>. DEFINE p == SubSeq(q, 1, Len(f) + 1)
  <2>1. q \in Seq(Elements) /\ Len(f) + 1 \in 1 .. Len(q)
    BY <1>2 DEF Closed
  <2>2. p \in Nodes
    BY <2>1 DEF Closed
  <2>3. p \in Seq(Elements) /\ Len(p) = Len(f) + 1 /\ \A k \in 1 .. Len(f) + 1 : p[k] = q[k]
    BY <2>1
  <2>. HIDE DEF p
  <2>4. IsPrefix(f, p)
    BY <1>2, <2>3, PrefixStarts DEF Starts
  <2>5. Last(p) = q[Len(f) + 1]
    BY <2>3 DEF Last
  <2>. QED
    BY <2>2, <2>3, <2>4, <2>5 DEF Below
<1>. QED
  BY <1>1, <1>2

\* The nodes that have been printed when printNodes is at p, or through with what
\* is below p.
Visited(N, root, p, through) ==
  {q \in N : Starts(root, q) /\ (q = p \/ Before(q, p) \/ (through /\ Starts(p, q)))}

InOrder(s) == \A m, n \in DOMAIN s : m < n => Before(s[m], s[n])

LEMMA NothingBefore ==
  ASSUME NEW N, Closed(N), NEW p \in Seq(Elements)
  PROVE  Visited(N, p, p, FALSE) = N \cap {p}
<1>1. ASSUME NEW q \in N, Starts(p, q), Before(q, p) PROVE FALSE
  <2>1. q \in Seq(Elements)
    BY DEF Closed
  <2>2. PICK n \in 1 .. Len(p) : n <= Len(q) /\ Sorted(q[n], p[n])
    BY <1>1, <2>1, BeforeIs DEF Starts
  <2>3. q[n] = p[n] /\ p[n] \in Elements
    BY <1>1 DEF Starts
  <2>. QED
    BY <2>2, <2>3, SortedIsTotal
<1>. QED
  BY <1>1 DEF Visited, Starts, Closed

\* Down to the first node below.
LEMMA VisitedBelow ==
  ASSUME Closed(Nodes), NEW root \in Seq(Elements), NEW f \in Seq(Elements), Starts(root, f),
         NEW e \in Below(f), \A x \in Below(f) : x = e \/ Sorted(e, x)
  PROVE  /\ Visited(Nodes, root, Append(f, e), FALSE) = Visited(Nodes, root, f, FALSE) \cup {Append(f, e)}
         /\ \A q \in Visited(Nodes, root, f, FALSE) : Before(q, Append(f, e))
<1>. DEFINE p == Append(f, e)
<1>1. p \in Nodes /\ e \in Elements
  BY BelowIs
<1>2. Starts(root, p)
  BY <1>1 DEF Starts
<1>3. ASSUME NEW q \in Nodes
      PROVE  Before(q, p) <=> q = f \/ Before(q, f)
  <2>1. q \in Seq(Elements)
    BY DEF Closed
  <2>2. Starts(f, q) /\ Len(q) > Len(f) => ~Sorted(q[Len(f) + 1], e)
    BY <1>1, BelowIs, SortedIsTotal
  <2>. QED
    BY <1>1, <2>1, <2>2, BeforeChild
<1>. HIDE DEF p
<1>4. Visited(Nodes, root, p, FALSE) = Visited(Nodes, root, f, FALSE) \cup {p}
  BY <1>1, <1>2, <1>3 DEF Visited
<1>5. \A q \in Visited(Nodes, root, f, FALSE) : Before(q, p)
  BY <1>3 DEF Visited
<1>. QED
  BY <1>4, <1>5 DEF p

\* Nothing below: printNodes is through with the node.
LEMMA VisitedThrough ==
  ASSUME Closed(Nodes), NEW root \in Seq(Elements), NEW f \in Seq(Elements), Below(f) = {}
  PROVE  Visited(Nodes, root, f, TRUE) = Visited(Nodes, root, f, FALSE)
<1>1. ASSUME NEW q \in Nodes, Starts(f, q)
      PROVE  q = f
  <2>1. q \in Seq(Elements) /\ Len(q) = Len(f)
    BY <1>1, BelowIs DEF Closed, Starts
  <2>. QED
    BY <1>1, <2>1 DEF Starts
<1>. QED
  BY <1>1 DEF Visited

\* What is through with f and its element e, beside which there is more or no more.
LEMMA ThroughChild ==
  ASSUME Closed(Nodes), NEW f \in Seq(Elements), NEW e \in Elements, NEW q \in Nodes
  PROVE  (q = Append(f, e) \/ Before(q, Append(f, e)) \/ Starts(Append(f, e), q)) <=>
           \/ q = f
           \/ Before(q, f)
           \/ Starts(f, q) /\ Len(q) > Len(f) /\ (q[Len(f) + 1] = e \/ Sorted(q[Len(f) + 1], e))
<1>. DEFINE p == Append(f, e)
<1>1. q \in Seq(Elements) /\ p \in Seq(Elements) /\ Len(p) = Len(f) + 1 /\ p[Len(f) + 1] = e
  BY DEF Closed
<1>2. \A k \in 1 .. Len(f) : p[k] = f[k]
  OBVIOUS
<1>3. Before(q, p) <=>
        q = f \/ Before(q, f) \/ (Starts(f, q) /\ Len(q) > Len(f) /\ Sorted(q[Len(f) + 1], e))
  BY <1>1, BeforeChild
<1>. HIDE DEF p
<1>4. q = p => Starts(p, q)
  BY <1>1 DEF Starts
<1>5. Starts(p, q) <=> Starts(f, q) /\ Len(q) > Len(f) /\ q[Len(f) + 1] = e
  BY <1>1, <1>2 DEF Starts
<1>. QED
  BY <1>3, <1>4, <1>5 DEF p

LEMMA VisitedBeside ==
  ASSUME Closed(Nodes), NEW root \in Seq(Elements), NEW f \in Seq(Elements), Starts(root, f),
         NEW e \in Elements, NEW g \in Below(f), Sorted(e, g),
         \A x \in Below(f) : Sorted(e, x) => x = g \/ Sorted(g, x)
  PROVE  /\ Visited(Nodes, root, Append(f, g), FALSE)
              = Visited(Nodes, root, Append(f, e), TRUE) \cup {Append(f, g)}
         /\ \A q \in Visited(Nodes, root, Append(f, e), TRUE) : Before(q, Append(f, g))
<1>. DEFINE p == Append(f, g)
<1>1. p \in Nodes /\ g \in Elements
  BY BelowIs
<1>2. Starts(root, p)
  BY <1>1 DEF Starts
<1>3. ASSUME NEW q \in Nodes
      PROVE  Before(q, p) <=> q = Append(f, e) \/ Before(q, Append(f, e)) \/ Starts(Append(f, e), q)
  <2>1. q \in Seq(Elements)
    BY DEF Closed
  <2>2. ASSUME Starts(f, q), Len(q) > Len(f)
        PROVE  Sorted(q[Len(f) + 1], g) <=> q[Len(f) + 1] = e \/ Sorted(q[Len(f) + 1], e)
    <3>1. q[Len(f) + 1] \in Below(f) /\ q[Len(f) + 1] \in Elements
      BY <2>2, BelowIs
    <3>. QED
      BY <1>1, <3>1, SortedIsTotal
  <2>. QED
    BY <1>1, <2>1, <2>2, BeforeChild, ThroughChild
<1>. HIDE DEF p
<1>4. Visited(Nodes, root, p, FALSE) = Visited(Nodes, root, Append(f, e), TRUE) \cup {p}
  BY <1>1, <1>2, <1>3 DEF Visited
<1>5. \A q \in Visited(Nodes, root, Append(f, e), TRUE) : Before(q, p)
  BY <1>3 DEF Visited
<1>. QED
  BY <1>4, <1>5 DEF p

LEMMA VisitedAbove ==
  ASSUME Closed(Nodes), NEW root \in Seq(Elements), NEW f \in Seq(Elements),
         NEW e \in Elements, \A x \in Below(f) : ~Sorted(e, x)
  PROVE  Visited(Nodes, root, f, TRUE) = Visited(Nodes, root, Append(f, e), TRUE)
<1>1. ASSUME NEW q \in Nodes
      PROVE  (q = f \/ Before(q, f) \/ Starts(f, q)) <=>
             (q = Append(f, e) \/ Before(q, Append(f, e)) \/ Starts(Append(f, e), q))
  <2>1. q \in Seq(Elements)
    BY DEF Closed
  <2>2. ASSUME Starts(f, q), Len(q) > Len(f)
        PROVE  q[Len(f) + 1] = e \/ Sorted(q[Len(f) + 1], e)
    <3>1. q[Len(f) + 1] \in Below(f) /\ q[Len(f) + 1] \in Elements
      BY <2>2, BelowIs
    <3>. QED
      BY <3>1, SortedIsTotal
  <2>3. Starts(f, q) => q = f \/ Len(q) > Len(f)
    BY <2>1 DEF Starts
  <2>. QED
    BY <2>2, <2>3, ThroughChild
<1>. QED
  BY <1>1 DEF Visited

\* Where the tree is being printed, or has been.
TreeOption == args.option \in {"-n", "-n -fullpath"}

InTree(t) == args.option = "-n -fullpath" \/ Listed(t)

TreeInv ==
  /\ Closed(Nodes)
  /\ TreeOption =>
       /\ pc # "crashed" => \A n \in 1 .. Handled : InTree(file[n]) => file[n].path \in Nodes
       /\ pc \in {"process", "print"} => out = <<>> /\ l = <<>>
       /\ pc \in {"below", "behind"} =>
            /\ l \in Nodes \cup {<<>>} /\ Starts(Root, l)
            /\ ToSet(out) = Visited(Nodes, Root, l, pc = "behind")
            /\ InOrder(out)
       /\ pc = "done" =>
            /\ ToSet(out) = {q \in Nodes : Starts(Root, q)}
            /\ InOrder(out)

LEMMA RootTyped ==
  ASSUME args \in Args, TreeOption
  PROVE  args.path \in Seq(Elements) /\ Root \in Seq(Elements)
<1>1. args.path \in Seq(Elements)
  BY ArgsAssumption DEF TreeOption
<1>2. <<>> \in Seq(Elements)
  OBVIOUS
<1>. QED
  BY <1>1, <1>2 DEF Root

LEMMA AppendInOrder ==
  ASSUME NEW S, NEW s \in Seq(S), NEW p \in S, InOrder(s), \A q \in ToSet(s) : Before(q, p)
  PROVE  InOrder(Append(s, p)) /\ ToSet(Append(s, p)) = ToSet(s) \cup {p}
<1>1. /\ Append(s, p) \in Seq(S) /\ Len(Append(s, p)) = Len(s) + 1
      /\ \A k \in 1 .. Len(s) : Append(s, p)[k] = s[k]
      /\ Append(s, p)[Len(s) + 1] = p
      /\ DOMAIN Append(s, p) = 1 .. Len(s) + 1 /\ DOMAIN s = 1 .. Len(s)
  OBVIOUS
<1>2. ToSet(Append(s, p)) = ToSet(s) \cup {p}
  BY <1>1 DEF ToSet
<1>3. ASSUME NEW m \in 1 .. Len(s) + 1, NEW n \in 1 .. Len(s) + 1, m < n
      PROVE  Before(Append(s, p)[m], Append(s, p)[n])
  <2>1. m \in 1 .. Len(s) /\ Append(s, p)[m] = s[m]
    BY <1>1, <1>3
  <2>2. CASE n \in 1 .. Len(s)
    BY <1>1, <1>3, <2>1, <2>2 DEF InOrder
  <2>3. CASE n = Len(s) + 1
    <3>1. s[m] \in ToSet(s)
      BY <1>1, <2>1 DEF ToSet
    <3>. QED
      BY <1>1, <2>1, <2>3, <3>1
  <2>. QED
    BY <1>3, <2>2, <2>3
<1>. QED
  BY <1>1, <1>2, <1>3 DEF InOrder

\* The state after a step that leaves the tree alone.
LEMMA WalkGoesOn ==
  ASSUME TreeInv, TreeOption, pc' \in {"below", "behind"}, pc \in {"print", "below", "behind"},
         UNCHANGED <<args, file, content, idx, flag, Nodes, k_v>>,
         l' \in Nodes \cup {<<>>}, Starts(Root, l'),
         ToSet(out') = Visited(Nodes, Root, l', pc' = "behind"), InOrder(out')
  PROVE  TreeInv'
<1>1. Root' = Root /\ Handled' = Handled /\ TreeOption' = TreeOption
  BY DEF Root, Handled, TreeOption
<1>2. \A n \in 1 .. Handled : InTree(file[n])' <=> InTree(file[n])
  BY DEF InTree, Listed
<1>. QED
  BY <1>1, <1>2 DEF TreeInv

LEMMA BelowStep ==
  ASSUME ScriptTypeOK, OptionsInPlace, TreeInv, PrintBelow
  PROVE  ScriptTypeOK' /\ TreeInv'
<1>1. /\ pc = "below" /\ TreeOption
      /\ UNCHANGED <<args, file, content, idx, flag, Nodes, k_v>>
  BY DEF PrintBelow, OptionsInPlace, TreeOption
<1>2. /\ Closed(Nodes) /\ Nodes \subseteq Paths
      /\ l \in Nodes \cup {<<>>} /\ l \in Seq(Elements) /\ Starts(Root, l)
      /\ ToSet(out) = Visited(Nodes, Root, l, FALSE) /\ InOrder(out)
      /\ out \in Seq(Paths \cup {Invalid})
  <2>1. /\ Closed(Nodes) /\ l \in Nodes \cup {<<>>} /\ Starts(Root, l)
        /\ ToSet(out) = Visited(Nodes, Root, l, FALSE) /\ InOrder(out)
    BY <1>1 DEF TreeInv
  <2>2. <<>> \in Seq(Elements)
    OBVIOUS
  <2>3. l \in Seq(Elements)
    BY <2>1, <2>2 DEF Closed
  <2>4. Nodes \subseteq Paths /\ out \in Seq(Paths \cup {Invalid})
    BY DEF ScriptTypeOK
  <2>. QED
    BY <2>1, <2>3, <2>4
<1>3. Root \in Seq(Elements)
  BY <1>1, RootTyped DEF ScriptTypeOK
<1>4. CASE Below(l) = {}
  <2>1. pc' = "behind" /\ l' = l /\ out' = out
    BY <1>4 DEF PrintBelow
  <2>2. ToSet(out') = Visited(Nodes, Root, l', TRUE)
    BY <1>2, <1>3, <1>4, <2>1, VisitedThrough
  <2>3. TreeInv'
    BY <1>1, <1>2, <2>1, <2>2, WalkGoesOn
  <2>. QED
    BY <1>1, <2>1, <2>3 DEF ScriptTypeOK
<1>5. CASE Below(l) # {}
  <2>. DEFINE e == Least(Below(l))
  <2>. DEFINE p == Append(l, e)
  <2>1. Below(l) \subseteq Elements /\ e \in Below(l) /\ \A x \in Below(l) : x = e \/ Sorted(e, x)
    BY <1>2, <1>5, BelowIs, LeastIsLeast
  <2>2. pc' = "below" /\ l' = p /\ out' = Append(out, p)
    BY <1>5 DEF PrintBelow, PrintNode
  <2>. HIDE DEF e
  <2>3. p \in Nodes /\ p \in Paths /\ e \in Elements
    BY <1>2, <2>1, BelowIs
  <2>4. Starts(Root, p)
    BY <1>2, <1>3, <2>3 DEF Starts
  <2>5. /\ Visited(Nodes, Root, p, FALSE) = ToSet(out) \cup {p}
        /\ \A q \in ToSet(out) : Before(q, p)
    <3>1. /\ Visited(Nodes, Root, Append(l, e), FALSE) = Visited(Nodes, Root, l, FALSE) \cup {Append(l, e)}
          /\ \A q \in Visited(Nodes, Root, l, FALSE) : Before(q, Append(l, e))
      BY <1>2, <1>3, <2>1, VisitedBelow
    <3>. QED
      BY <1>2, <3>1
  <2>. HIDE DEF p
  <2>6. InOrder(out') /\ ToSet(out') = Visited(Nodes, Root, p, FALSE) /\ out' \in Seq(Paths \cup {Invalid})
    <3>1. p \in Paths \cup {Invalid}
      BY <2>3
    <3>2. InOrder(Append(out, p)) /\ ToSet(Append(out, p)) = ToSet(out) \cup {p}
      <4>. DEFINE S == Paths \cup {Invalid}
      <4>1. out \in Seq(S) /\ p \in S /\ InOrder(out) /\ \A q \in ToSet(out) : Before(q, p)
        BY <1>2, <2>5, <3>1
      <4>. HIDE DEF S
      <4>. QED
        BY <4>1, AppendInOrder
    <3>3. Append(out, p) \in Seq(Paths \cup {Invalid})
      BY <1>2, <3>1
    <3>. QED
      BY <2>2, <2>5, <3>2, <3>3, Zenon
  <2>7. TreeInv'
    BY <1>1, <2>2, <2>3, <2>4, <2>6, WalkGoesOn
  <2>. QED
    BY <1>1, <2>2, <2>3, <2>6, <2>7 DEF ScriptTypeOK
<1>. QED
  BY <1>4, <1>5

LEMMA BehindStep ==
  ASSUME ScriptTypeOK, OptionsInPlace, TreeInv, PrintBehind
  PROVE  ScriptTypeOK' /\ TreeInv'
<1>1. /\ pc = "behind" /\ TreeOption
      /\ UNCHANGED <<args, file, content, idx, flag, Nodes, k_v>>
  BY DEF PrintBehind, OptionsInPlace, TreeOption
<1>2. /\ Closed(Nodes) /\ Nodes \subseteq Paths
      /\ l \in Nodes \cup {<<>>} /\ l \in Seq(Elements) /\ Starts(Root, l)
      /\ ToSet(out) = Visited(Nodes, Root, l, TRUE) /\ InOrder(out)
      /\ out \in Seq(Paths \cup {Invalid})
  <2>1. /\ Closed(Nodes) /\ l \in Nodes \cup {<<>>} /\ Starts(Root, l)
        /\ ToSet(out) = Visited(Nodes, Root, l, TRUE) /\ InOrder(out)
    BY <1>1 DEF TreeInv
  <2>2. <<>> \in Seq(Elements)
    OBVIOUS
  <2>3. l \in Seq(Elements)
    BY <2>1, <2>2 DEF Closed
  <2>4. Nodes \subseteq Paths /\ out \in Seq(Paths \cup {Invalid})
    BY DEF ScriptTypeOK
  <2>. QED
    BY <2>1, <2>3, <2>4
<1>3. Root \in Seq(Elements)
  BY <1>1, RootTyped DEF ScriptTypeOK
<1>4. CASE l = Root
  <2>1. pc' = "done" /\ l' = l /\ out' = out
    BY <1>4 DEF PrintBehind
  <2>2. ToSet(out) = {q \in Nodes : Starts(Root, q)}
    BY <1>2, <1>4 DEF Visited
  <2>3. Root' = Root /\ Handled' = Handled /\ TreeOption' = TreeOption
    BY <1>1, <2>1 DEF Root, Handled, TreeOption
  <2>4. \A n \in 1 .. Handled : InTree(file[n])' <=> InTree(file[n])
    BY <1>1 DEF InTree, Listed
  <2>5. TreeInv'
    BY <1>1, <1>2, <2>1, <2>2, <2>3, <2>4 DEF TreeInv
  <2>. QED
    BY <1>1, <2>1, <2>5 DEF ScriptTypeOK
<1>5. CASE l # Root
  <2>. DEFINE f == Front(l)
  <2>. DEFINE e == Last(l)
  <2>1. Len(Root) < Len(l)
    BY <1>2, <1>3, <1>5 DEF Starts
  <2>2. f \in Seq(Elements) /\ e \in Elements /\ l = Append(f, e) /\ Len(f) = Len(l) - 1
    <3>1. Len(l) > 0
      BY <1>2, <1>3, <2>1
    <3>. QED
      BY <1>2, <3>1, FrontAndLast
  <2>3. Starts(Root, f)
    BY <1>2, <1>3, <2>1, <2>2 DEF Starts
  <2>4. f \in Nodes \cup {<<>>}
    BY <1>2, <2>1, <2>2 DEF Front, Closed
  <2>. DEFINE ahead == {x \in Below(f) : Sorted(e, x)}
  <2>5. Below(f) \subseteq Elements
    BY <1>2, <2>2, BelowIs
  <2>6. CASE ahead = {}
    <3>1. pc' = "behind" /\ l' = f /\ out' = out
      BY <1>1, <1>5, <2>6 DEF PrintBehind
    <3>. HIDE DEF f, e
    <3>2. ToSet(out') = Visited(Nodes, Root, f, TRUE)
      BY <1>2, <1>3, <2>2, <2>6, <3>1, VisitedAbove
    <3>3. TreeInv'
      BY <1>1, <1>2, <2>3, <2>4, <3>1, <3>2, WalkGoesOn
    <3>. QED
      BY <1>1, <1>2, <2>4, <3>1, <3>3 DEF ScriptTypeOK
  <2>7. CASE ahead # {}
    <3>. DEFINE g == Least(ahead)
    <3>. DEFINE p == Append(f, g)
    <3>1. g \in ahead /\ \A x \in ahead : x = g \/ Sorted(g, x)
      BY <2>5, <2>7, LeastIsLeast
    <3>2. pc' = "below" /\ l' = p /\ out' = Append(out, p)
      BY <1>5, <2>7 DEF PrintBehind, PrintNode
    <3>. HIDE DEF f, e, g
    <3>3. p \in Nodes /\ p \in Paths /\ g \in Elements /\ g \in Below(f)
      BY <1>2, <2>2, <3>1, BelowIs
    <3>4. Starts(Root, p)
      BY <1>3, <2>2, <2>3, <3>3 DEF Starts
    <3>5. /\ Visited(Nodes, Root, p, FALSE) = ToSet(out) \cup {p}
          /\ \A q \in ToSet(out) : Before(q, p)
      <4>1. \A x \in Below(f) : Sorted(e, x) => x = g \/ Sorted(g, x)
        BY <3>1
      <4>2. Sorted(e, g)
        BY <3>1
      <4>3. /\ Visited(Nodes, Root, Append(f, g), FALSE)
                 = Visited(Nodes, Root, Append(f, e), TRUE) \cup {Append(f, g)}
            /\ \A q \in Visited(Nodes, Root, Append(f, e), TRUE) : Before(q, Append(f, g))
        BY <1>2, <1>3, <2>2, <2>3, <3>3, <4>1, <4>2, VisitedBeside
      <4>4. ToSet(out) = Visited(Nodes, Root, Append(f, e), TRUE)
        BY <1>2, <2>2
      <4>. QED
        BY <4>3, <4>4
    <3>. HIDE DEF p
    <3>6. InOrder(out') /\ ToSet(out') = Visited(Nodes, Root, p, FALSE) /\ out' \in Seq(Paths \cup {Invalid})
      <4>1. p \in Paths \cup {Invalid}
        BY <3>3
      <4>2. InOrder(Append(out, p)) /\ ToSet(Append(out, p)) = ToSet(out) \cup {p}
        <5>. DEFINE S == Paths \cup {Invalid}
        <5>1. out \in Seq(S) /\ p \in S /\ InOrder(out) /\ \A q \in ToSet(out) : Before(q, p)
          BY <1>2, <3>5, <4>1
        <5>. HIDE DEF S
        <5>. QED
          BY <5>1, AppendInOrder
      <4>3. Append(out, p) \in Seq(Paths \cup {Invalid})
        BY <1>2, <4>1
      <4>. QED
        BY <3>2, <3>5, <4>2, <4>3, Zenon
    <3>7. TreeInv'
      BY <1>1, <3>2, <3>3, <3>4, <3>6, WalkGoesOn
    <3>. QED
      BY <1>1, <3>2, <3>3, <3>6, <3>7 DEF ScriptTypeOK
  <2>. QED
    BY <2>6, <2>7
<1>. QED
  BY <1>4, <1>5

Above(path) == {SubSeq(path, 1, n) : n \in 1 .. Len(path)}

LEMMA ClosedGrows ==
  ASSUME NEW N, Closed(N), NEW path \in Seq(Elements) \ {<<>>}
  PROVE  Closed(N \cup Above(path)) /\ path \in Above(path)
<1>1. ASSUME NEW n \in 1 .. Len(path)
      PROVE  /\ SubSeq(path, 1, n) \in Seq(Elements) \ {<<>>} /\ Len(SubSeq(path, 1, n)) = n
             /\ \A m \in 1 .. n : SubSeq(SubSeq(path, 1, n), 1, m) = SubSeq(path, 1, m)
  <2>1. SubSeq(path, 1, n) \in Seq(Elements) /\ Len(SubSeq(path, 1, n)) = n
    OBVIOUS
  <2>2. ASSUME NEW m \in 1 .. n
        PROVE  SubSeq(SubSeq(path, 1, n), 1, m) = SubSeq(path, 1, m)
    BY <2>1
  <2>. QED
    BY <2>1, <2>2
<1>2. ASSUME NEW q \in Above(path)
      PROVE  q \in Seq(Elements) \ {<<>>} /\ \A m \in 1 .. Len(q) : SubSeq(q, 1, m) \in Above(path)
  <2>1. PICK n \in 1 .. Len(path) : q = SubSeq(path, 1, n)
    BY DEF Above
  <2>2. q \in Seq(Elements) \ {<<>>} /\ Len(q) = n
    BY <1>1, <2>1
  <2>3. ASSUME NEW m \in 1 .. Len(q)
        PROVE  SubSeq(q, 1, m) \in Above(path)
    <3>1. SubSeq(q, 1, m) = SubSeq(path, 1, m) /\ m \in 1 .. Len(path)
      BY <1>1, <2>1, <2>2
    <3>. QED
      BY <3>1 DEF Above
  <2>. QED
    BY <2>2, <2>3
<1>3. path \in Above(path)
  <2>1. SubSeq(path, 1, Len(path)) = path /\ Len(path) \in 1 .. Len(path)
    OBVIOUS
  <2>. QED
    BY <2>1 DEF Above
<1>. QED
  BY <1>2, <1>3 DEF Closed

LEMMA InitTree == ScriptInit => TreeInv
<1>. SUFFICES ASSUME ScriptInit PROVE TreeInv
  OBVIOUS
<1>1. pc = "process" /\ Nodes = {} /\ out = <<>> /\ l = <<>>
  BY DEF ScriptInit
<1>. QED
  BY <1>1 DEF TreeInv, Closed, Handled

LEMMA FileStepsTree ==
  ASSUME ScriptTypeOK, TreeInv, processFile \/ Processed
  PROVE  TreeInv'
<1>1. /\ pc = "process" /\ pc' \in {"process", "print", "crashed"}
      /\ args' = args /\ file' = file /\ Nodes' = Nodes /\ l' = l /\ out' = out
      /\ pc' = "print" => idx' = 1
  BY DEF processFile, Processed
<1>2. pc' # "crashed" => 1 .. Handled' = {}
  BY <1>1 DEF Handled
<1>3. CASE pc' # "crashed"
  BY <1>1, <1>2, <1>3 DEF TreeInv, TreeOption
<1>4. CASE pc' = "crashed"
  BY <1>1, <1>4 DEF TreeInv, TreeOption
<1>. QED
  BY <1>3, <1>4

LEMMA ListTree ==
  ASSUME ScriptTypeOK, Copied, TreeInv, listNodes
  PROVE  TreeInv'
<1>1. PICK option : PrintAt(option)
  BY DEF listNodes
<1>2. /\ pc = "print" /\ idx \in 1 .. Len(file) /\ Here.path = file[idx].path
      /\ Here.path \in Seq(Elements) \ {<<>>}
      /\ args' = args /\ file' = file /\ content' = content /\ l' = l
  BY <1>1, HereIs, PathsTyped
<1>3. pc' = pc /\ idx' = idx + 1 /\ out' = out /\ TreeOption
  BY DEF listNodes, GoOn, TreeOption, PrintAt
<1>4. \/ Nodes' = Nodes /\ args.option = "-n" /\ ~Listed(Here)
      \/ Nodes' = Nodes \cup Above(Here.path)
  BY DEF listNodes, Above
<1>5. Listed(Here) <=> Listed(file[idx])
  BY <1>2 DEF Listed
<1>6. Closed(Nodes')
  BY <1>2, <1>4, ClosedGrows DEF TreeInv
<1>7. \A n \in 1 .. Handled : InTree(file[n]) => file[n].path \in Nodes
  BY <1>2, <1>3 DEF TreeInv
<1>8. InTree(file[idx]) => file[idx].path \in Nodes'
  BY <1>2, <1>4, <1>5, ClosedGrows DEF InTree, TreeInv
<1>9. Handled = idx - 1 /\ Handled' = idx
  BY <1>2, <1>3 DEF Handled
<1>10. \A n \in 1 .. Handled' : InTree(file[n])' => file[n].path \in Nodes'
  <2>. SUFFICES ASSUME NEW n \in 1 .. idx, InTree(file[n]) PROVE file[n].path \in Nodes'
    BY <1>2, <1>9 DEF InTree, Listed
  <2>1. Nodes \subseteq Nodes'
    BY <1>4
  <2>2. n \in 1 .. idx - 1 \/ n = idx
    BY <1>2
  <2>. QED
    BY <1>7, <1>8, <1>9, <2>1, <2>2
<1>. QED
  BY <1>2, <1>3, <1>6, <1>10 DEF TreeInv, TreeOption

\* The other loops have nothing to do with the tree.
LEMMA OtherStepsTree ==
  ASSUME TreeInv, PrintAll \/ PrintJson \/ PrintSpecific \/ FindTargets
  PROVE  TreeInv'
<1>1. args' = args /\ ~TreeOption /\ Nodes' = Nodes
  BY DEF PrintAll, PrintJson, PrintSpecific, FindTargets, PrintAt, TreeOption
<1>. QED
  BY <1>1 DEF TreeInv, TreeOption

LEMMA FinishTree ==
  ASSUME ScriptTypeOK, OptionsInPlace, TreeInv, Finish
  PROVE  TreeInv'
<1>1. UNCHANGED <<args, file, content, idx, flag, Nodes, k_v>>
  BY DEF Finish
<1>2. CASE ~TreeOption
  BY <1>1, <1>2 DEF TreeInv, TreeOption
<1>3. CASE pc' = "crashed"
  BY <1>1, <1>3 DEF TreeInv, TreeOption
<1>4. CASE TreeOption /\ pc' # "crashed"
  <2>1. pc = "print"
    BY <1>4 DEF Finish, OptionsInPlace, TreeOption
  <2>2. out = <<>> /\ l = <<>> /\ Closed(Nodes)
    BY <1>4, <2>1 DEF TreeInv
  <2>3. Root \in Seq(Elements)
    BY <1>4, RootTyped DEF ScriptTypeOK
  <2>4. /\ pc' = "below" /\ l' = Root
        /\ \/ args.option = "-n" /\ Root = <<>> /\ out' = out
           \/ Root \in Nodes /\ out' = Append(out, Root)
    BY <1>4, <2>2 DEF Finish, TreeOption, Root
  <2>5. Visited(Nodes, Root, Root, FALSE) = Nodes \cap {Root}
    BY <2>2, <2>3, NothingBefore
  <2>6. ToSet(out') = Nodes \cap {Root} /\ InOrder(out')
    <3>1. CASE Root = <<>> /\ out' = <<>>
      <4>1. ToSet(<<>>) = {} /\ InOrder(<<>>)
        BY DEF ToSet, InOrder
      <4>2. <<>> \notin Nodes
        BY <2>2 DEF Closed
      <4>. QED
        BY <3>1, <4>1, <4>2
    <3>2. CASE Root \in Nodes /\ out' = <<Root>>
      <4>1. DOMAIN <<Root>> = {1} /\ <<Root>>[1] = Root
        OBVIOUS
      <4>2. ToSet(<<Root>>) = {Root} /\ InOrder(<<Root>>)
        BY <4>1 DEF ToSet, InOrder
      <4>. QED
        BY <3>2, <4>2
    <3>3. Append(<<>>, Root) = <<Root>>
      OBVIOUS
    <3>. QED
      BY <2>2, <2>4, <3>1, <3>2, <3>3
  <2>7. Starts(Root, Root)
    BY <2>3 DEF Starts
  <2>. QED
    BY <1>1, <1>4, <2>1, <2>4, <2>5, <2>6, <2>7, WalkGoesOn
<1>. QED
  BY <1>2, <1>3, <1>4

LEMMA SubtreeInTree ==
  ASSUME ScriptTypeOK, OptionsInPlace, TreeInv, TreeOption, pc # "crashed", Handled = Len(file),
         NEW t \in ToSet(file), IsPrefix(args.path, t.path)
  PROVE  t.path \in Nodes /\ Starts(args.path, t.path)
<1>1. PICK n \in 1 .. Len(file) : t = file[n]
  BY DEF ScriptTypeOK, ToSet
<1>2. t \in Targets /\ t.path \in Seq(Elements)
  BY <1>1, TargetsAssumption DEF ScriptTypeOK
<1>3. args.path \in Seq(Elements)
  BY RootTyped DEF ScriptTypeOK
<1>4. Starts(args.path, t.path)
  BY <1>2, <1>3, PrefixStarts
<1>5. ASSUME NEW k \in DOMAIN args.path
      PROVE  FoundIn(t.path, args.path[k])
  <2>1. k \in DOMAIN t.path /\ t.path[k] = args.path[k]
    BY <1>2, <1>3, <1>4 DEF Starts
  <2>. QED
    BY <2>1 DEF FoundIn, Has, UnitHas, UnitEnds, DigitsBegin
<1>6. InTree(t)
  BY <1>5 DEF InTree, Listed, TreeOption
<1>. QED
  BY <1>1, <1>4, <1>6 DEF TreeInv

LEMMA TreeImplied == ScriptTypeOK /\ OptionsInPlace /\ TreeInv => TreeShown
<1>. SUFFICES ASSUME ScriptTypeOK, OptionsInPlace, TreeInv, pc = "done", TreeOption
              PROVE  /\ \A m, n \in DOMAIN out : m < n => Before(out[m], out[n])
                     /\ \A t \in ToSet(file) : IsPrefix(args.path, t.path) => t.path \in ToSet(out)
  BY DEF TreeShown, TreeInOrder, SubtreeShown, Done, TreeOption
<1>1. InOrder(out) /\ ToSet(out) = {q \in Nodes : Starts(Root, q)}
  BY DEF TreeInv
<1>2. Handled = Len(file)
  <2>1. idx = Len(file) + 1
    BY DEF OptionsInPlace, TreeOption
  <2>2. Len(file) \in Nat
    BY DEF ScriptTypeOK
  <2>. QED
    BY <2>1, <2>2 DEF Handled
<1>3. ASSUME NEW t \in ToSet(file), IsPrefix(args.path, t.path)
      PROVE  t.path \in ToSet(out)
  <2>1. t.path \in Nodes /\ Starts(args.path, t.path)
    BY <1>2, <1>3, SubtreeInTree
  <2>2. t.path \in Seq(Elements)
    BY <2>1 DEF TreeInv, Closed
  <2>3. Starts(<<>>, t.path)
    BY <2>2 DEF Starts
  <2>. QED
    BY <1>1, <2>1, <2>3 DEF Root
<1>. QED
  BY <1>1, <1>3 DEF InOrder

-----------------------------------------------------------------------------
(* One target by name or path. *)

AskedInv ==
  args.option \in {"-t", "-p"} =>
    /\ pc \in {"process", "print"} =>
         /\ flag = 0 /\ out = <<>>
         /\ \A n \in 1 .. Handled : ~Asked(file[n])
    /\ pc = "finish" =>
         /\ flag = 1 /\ Len(out) = 1
         /\ \E t \in ToSet(file) : Asked(t) /\ out[1] = t.path
    /\ FoundIsAsked

LEMMA InitAsked == ScriptInit => AskedInv
BY DEF ScriptInit, AskedInv, Handled, FoundIsAsked, Done

LEMMA FileStepsAsked ==
  ASSUME AskedInv, processFile \/ Processed
  PROVE  AskedInv'
<1>1. /\ pc = "process" /\ pc' \in {"process", "print", "crashed"}
      /\ args' = args /\ file' = file /\ flag' = flag /\ out' = out
      /\ pc' = "print" => idx' = 1
  BY DEF processFile, Processed
<1>2. pc' # "crashed" => 1 .. Handled' = {}
  BY <1>1 DEF Handled
<1>. QED
  BY <1>1, <1>2 DEF AskedInv, FoundIsAsked, Done

LEMMA SpecificAsked ==
  ASSUME ScriptTypeOK, Copied, AskedInv, PrintSpecific
  PROVE  AskedInv'
<1>1. PICK option \in {"-t", "-p"} : PrintAt(option)
  BY DEF PrintSpecific
<1>2. /\ pc = "print" /\ idx \in 1 .. Len(file) /\ args.option \in {"-t", "-p"}
      /\ Here.path = file[idx].path /\ Here.name = file[idx].name /\ file[idx] \in ToSet(file)
      /\ args' = args /\ file' = file
  BY <1>1, HereIs
<1>3. Asked(Here) <=> Asked(file[idx])
  BY <1>2 DEF Asked
<1>4. \A n : Asked(file[n])' <=> Asked(file[n])
  BY <1>2 DEF Asked
<1>5. flag = 0 /\ out = <<>> /\ \A n \in 1 .. idx - 1 : ~Asked(file[n])
  BY <1>2 DEF AskedInv, Handled
<1>6. CASE Asked(Here)
  <2>1. flag' = 1 /\ out' = <<file[idx].path>> /\ pc' = "finish"
    BY <1>2, <1>5, <1>6 DEF PrintSpecific
  <2>3. \E t \in ToSet(file') : Asked(t)' /\ out'[1] = t.path
    BY <1>2, <1>3, <1>6, <2>1 DEF Asked
  <2>. QED
    BY <2>1, <2>3 DEF AskedInv, FoundIsAsked, Done
<1>7. CASE ~Asked(Here)
  <2>1. flag' = 0 /\ out' = <<>> /\ pc' = "print" /\ idx' = idx + 1
    BY <1>2, <1>5, <1>7 DEF PrintSpecific, GoOn
  <2>2. Handled' = idx
    BY <1>2, <2>1 DEF Handled
  <2>3. \A n \in 1 .. idx : ~Asked(file[n])'
    BY <1>2, <1>3, <1>4, <1>5, <1>7
  <2>. QED
    BY <2>1, <2>2, <2>3 DEF AskedInv, FoundIsAsked, Done
<1>. QED
  BY <1>6, <1>7

LEMMA OtherStepsAsked ==
  ASSUME OptionsInPlace, AskedInv,
         PrintAll \/ PrintJson \/ listNodes \/ FindTargets \/ PrintBelow \/ PrintBehind
  PROVE  AskedInv'
<1>1. args' = args /\ args.option \notin {"-t", "-p"}
  BY DEF PrintAll, PrintJson, listNodes, FindTargets, PrintAt, PrintBelow, PrintBehind, OptionsInPlace
<1>. QED
  BY <1>1 DEF AskedInv

LEMMA FinishAsked ==
  ASSUME ScriptTypeOK, OptionsInPlace, AskedInv, Finish
  PROVE  AskedInv'
<1>1. UNCHANGED <<args, file, content, idx, flag>>
  BY DEF Finish
<1>2. CASE args.option \in {"-t", "-p"} /\ pc = "print"
  <2>1. idx = Len(file) + 1 /\ flag = 0 /\ out = <<>>
    BY <1>2 DEF Finish, ScriptTypeOK, AskedInv
  <2>2. pc' = "done" /\ out' = <<Invalid>>
    BY <1>2, <2>1 DEF Finish
  <2>3. \A n \in 1 .. Len(file) : ~Asked(file[n])
    BY <1>2, <2>1 DEF AskedInv, Handled, ScriptTypeOK
  <2>4. \A t \in ToSet(file) : ~Asked(t)
    BY <2>3 DEF ScriptTypeOK, ToSet
  <2>5. \A t \in ToSet(file') : ~Asked(t)'
    BY <1>1, <2>4 DEF Asked
  <2>. QED
    BY <2>2, <2>5 DEF AskedInv, FoundIsAsked, Done
<1>3. CASE args.option \in {"-t", "-p"} /\ pc = "finish"
  <2>0. flag = 1
    BY <1>3 DEF AskedInv
  <2>1. pc' = "done" /\ out' = out
    <3>1. CASE args.option = "-t"
      BY <2>0, <3>1 DEF Finish
    <3>2. CASE args.option = "-p"
      BY <2>0, <3>2 DEF Finish
    <3>. QED
      BY <1>3, <3>1, <3>2
  <2>2. PICK t \in ToSet(file) : Asked(t) /\ out[1] = t.path /\ Len(out) = 1
    BY <1>3 DEF AskedInv
  <2>3. Asked(t)'
    BY <1>1, <2>2 DEF Asked
  <2>4. FoundIsAsked'
    BY <1>1, <2>1, <2>2, <2>3 DEF FoundIsAsked
  <2>. QED
    BY <2>1, <2>4 DEF AskedInv
<1>4. pc \in {"print", "finish"}
  BY DEF Finish
<1>. QED
  BY <1>1, <1>2, <1>3, <1>4 DEF AskedInv

-----------------------------------------------------------------------------
(* Targets found by their attributes. *)

\* A bit that is shifted down and a bit that is weighed.
LEMMA BitIsWeighed ==
  ASSUME NEW t, t.hwas \in Nat, NEW name \in ToSet(Hwas)
  PROVE  BitSet(t, name) <=> t.hwas % (2 * Weight(name)) >= Weight(name)
<1>. DEFINE h == t.hwas
<1>. DEFINE bit(j) == (h \div 2^j) % 2 = 1
<1>1. Hwas[1] = "FUNCTIONALOVERRIDE" /\ Hwas[2] = "SPECDECONFIG" /\ Hwas[3] = "DUMPFUNCTIONAL"
      /\ Hwas[4] = "FUNCTIONAL" /\ Hwas[5] = "PRESENT" /\ Hwas[6] = "POWEREDON"
  BY DEF Hwas
<1>2. \A j \in 2 .. 7 : j \in {2, 3, 4, 5, 6, 7}
  OBVIOUS
<1>3. BitSet(t, name) <=> \E j \in {2, 3, 4, 5, 6, 7} : Hwas[j - 1] = name /\ bit(j)
  BY <1>2 DEF BitSet
<1>4. BitSet(t, name) <=>
        \/ Hwas[1] = name /\ bit(2)
        \/ Hwas[2] = name /\ bit(3)
        \/ Hwas[3] = name /\ bit(4)
        \/ Hwas[4] = name /\ bit(5)
        \/ Hwas[5] = name /\ bit(6)
        \/ Hwas[6] = name /\ bit(7)
  <2>. DEFINE at(j) == Hwas[j - 1] = name /\ bit(j)
  <2>1. /\ at(2) <=> Hwas[1] = name /\ bit(2)
        /\ at(3) <=> Hwas[2] = name /\ bit(3)
        /\ at(4) <=> Hwas[3] = name /\ bit(4)
        /\ at(5) <=> Hwas[4] = name /\ bit(5)
        /\ at(6) <=> Hwas[5] = name /\ bit(6)
        /\ at(7) <=> Hwas[6] = name /\ bit(7)
    <3>1. 2 - 1 = 1 /\ 3 - 1 = 2 /\ 4 - 1 = 3 /\ 5 - 1 = 4 /\ 6 - 1 = 5 /\ 7 - 1 = 6
      OBVIOUS
    <3>. HIDE DEF bit
    <3>. QED
      BY <3>1
  <2>2. BitSet(t, name) <=> \E j \in {2, 3, 4, 5, 6, 7} : at(j)
    BY <1>3
  <2>. HIDE DEF at, bit
  <2>3. BitSet(t, name) <=> at(2) \/ at(3) \/ at(4) \/ at(5) \/ at(6) \/ at(7)
    BY <2>2
  <2>. QED
    BY <2>1, <2>3
<1>5. /\ bit(2) <=> h % (2 * 4) >= 4
      /\ bit(3) <=> h % (2 * 8) >= 8
      /\ bit(4) <=> h % (2 * 16) >= 16
      /\ bit(5) <=> h % (2 * 32) >= 32
      /\ bit(6) <=> h % (2 * 64) >= 64
      /\ bit(7) <=> h % (2 * 128) >= 128
  <2>1. bit(2) <=> h % (2 * 4) >= 4
    OBVIOUS
  <2>2. bit(3) <=> h % (2 * 8) >= 8
    OBVIOUS
  <2>3. bit(4) <=> h % (2 * 16) >= 16
    OBVIOUS
  <2>4. bit(5) <=> h % (2 * 32) >= 32
    OBVIOUS
  <2>5. bit(6) <=> h % (2 * 64) >= 64
    OBVIOUS
  <2>6. bit(7) <=> h % (2 * 128) >= 128
    OBVIOUS
  <2>. QED
    BY <2>1, <2>2, <2>3, <2>4, <2>5, <2>6
<1>6. name \in {"FUNCTIONALOVERRIDE", "SPECDECONFIG", "DUMPFUNCTIONAL", "FUNCTIONAL", "PRESENT", "POWEREDON"}
  BY DEF Hwas, ToSet
<1>. HIDE DEF bit, h
<1>7. BitSet(t, name) <=> h % (2 * Weight(name)) >= Weight(name)
  <2>1. CASE name = "FUNCTIONALOVERRIDE"
    <3>1. Weight(name) = 4
      BY <2>1 DEF Weight
    <3>2. BitSet(t, name) <=> bit(2)
      BY <1>1, <1>4, <2>1
    <3>. QED
      BY <1>5, <3>1, <3>2
  <2>2. CASE name = "SPECDECONFIG"
    <3>1. Weight(name) = 8
      BY <2>2 DEF Weight
    <3>2. BitSet(t, name) <=> bit(3)
      BY <1>1, <1>4, <2>2
    <3>. QED
      BY <1>5, <3>1, <3>2
  <2>3. CASE name = "DUMPFUNCTIONAL"
    <3>1. Weight(name) = 16
      BY <2>3 DEF Weight
    <3>2. BitSet(t, name) <=> bit(4)
      BY <1>1, <1>4, <2>3
    <3>. QED
      BY <1>5, <3>1, <3>2
  <2>4. CASE name = "FUNCTIONAL"
    <3>1. Weight(name) = 32
      BY <2>4 DEF Weight
    <3>2. BitSet(t, name) <=> bit(5)
      BY <1>1, <1>4, <2>4
    <3>. QED
      BY <1>5, <3>1, <3>2
  <2>5. CASE name = "PRESENT"
    <3>1. Weight(name) = 64
      BY <2>5 DEF Weight
    <3>2. BitSet(t, name) <=> bit(6)
      BY <1>1, <1>4, <2>5
    <3>. QED
      BY <1>5, <3>1, <3>2
  <2>6. CASE name = "POWEREDON"
    <3>1. Weight(name) = 128
      BY <2>6 DEF Weight
    <3>2. BitSet(t, name) <=> bit(7)
      BY <1>1, <1>4, <2>6
    <3>. QED
      BY <1>5, <3>1, <3>2
  <2>. QED
    BY <1>6, <2>1, <2>2, <2>3, <2>4, <2>5, <2>6
<1>. QED
  BY <1>7 DEF h

LEMMA MismatchIs ==
  ASSUME NEW t, t.hwas \in Nat, ~CannotCompare(t)
  PROVE  Mismatch(t) <=> ~\A c \in args.conditions : Holds(t, c)
<1>1. ASSUME NEW c \in args.conditions
      PROVE  ValueOf(t, c.key) = c.value <=> Holds(t, c)
  <2>1. c.key \in {"ATTR_ECO_MODE"} \cup ToSet(Hwas)
    BY DEF CannotCompare, HasAttribute
  <2>2. CASE c.key = "ATTR_ECO_MODE"
    BY <2>2 DEF ValueOf, Holds
  <2>3. CASE c.key # "ATTR_ECO_MODE"
    <3>1. BitSet(t, c.key) <=> t.hwas % (2 * Weight(c.key)) >= Weight(c.key)
      BY <2>1, <2>3, BitIsWeighed
    <3>. QED
      BY <2>3, <3>1 DEF ValueOf, Holds
  <2>. QED
    BY <2>2, <2>3
<1>. QED
  BY <1>1 DEF Mismatch

\* The place of one of a set of numbers in their order, and what one more changes.
PlaceIn(F, n) == Cardinality({m \in F : m <= n})

LEMMA OneMore ==
  ASSUME NEW h \in Nat, NEW F \in SUBSET (1 .. h)
  PROVE  /\ Cardinality(F) \in Nat
         /\ Cardinality(F \cup {h + 1}) = Cardinality(F) + 1
         /\ PlaceIn(F \cup {h + 1}, h + 1) = Cardinality(F) + 1
         /\ \A n \in F : /\ PlaceIn(F \cup {h + 1}, n) = PlaceIn(F, n)
                         /\ PlaceIn(F, n) \in 1 .. Cardinality(F)
<1>1. IsFiniteSet(F)
  <2>1. IsFiniteSet(1 .. h)
    BY FS_Interval
  <2>. QED
    BY <2>1, FS_Subset
<1>2. Cardinality(F) \in Nat
  BY <1>1, FS_CardinalityType
<1>3. Cardinality(F \cup {h + 1}) = Cardinality(F) + 1
  <2>1. h + 1 \notin F
    OBVIOUS
  <2>. QED
    BY <1>1, <2>1, FS_AddElement
<1>4. {m \in F \cup {h + 1} : m <= h + 1} = F \cup {h + 1}
  <2>1. \A m \in F \cup {h + 1} : m <= h + 1
    OBVIOUS
  <2>. QED
    BY <2>1
<1>5. ASSUME NEW n \in F
      PROVE  /\ PlaceIn(F \cup {h + 1}, n) = PlaceIn(F, n)
             /\ PlaceIn(F, n) \in 1 .. Cardinality(F)
  <2>. DEFINE G == {m \in F : m <= n}
  <2>1. {m \in F \cup {h + 1} : m <= n} = G
    OBVIOUS
  <2>2. G \subseteq F /\ n \in G
    OBVIOUS
  <2>. HIDE DEF G
  <2>3. IsFiniteSet(G) /\ Cardinality(G) <= Cardinality(F)
    BY <1>1, <2>2, FS_Subset
  <2>4. Cardinality(G) \in Nat /\ Cardinality(G) # 0
    BY <2>2, <2>3, FS_CardinalityType, FS_EmptySet
  <2>. QED
    BY <1>2, <2>1, <2>3, <2>4 DEF PlaceIn, G
<1>. QED
  BY <1>2, <1>3, <1>4, <1>5 DEF PlaceIn

Found(h) == {n \in 1 .. h : Wanted(content[n])}

FindInv ==
  args.option = "-f" /\ pc # "crashed" =>
    /\ Len(out) = Cardinality(Found(Handled))
    /\ \A n \in Found(Handled) : out[PlaceIn(Found(Handled), n)] = content[n].path

LEMMA InitFind == ScriptInit => FindInv
<1>. SUFFICES ASSUME ScriptInit PROVE FindInv
  OBVIOUS
<1>1. Found(Handled) = {} /\ out = <<>>
  BY DEF ScriptInit, Handled, Found
<1>2. Cardinality({}) = 0
  BY FS_EmptySet
<1>. QED
  BY <1>1, <1>2 DEF FindInv

LEMMA FileStepsFind ==
  ASSUME FindInv, processFile \/ Processed
  PROVE  FindInv'
<1>1. /\ pc = "process" /\ pc' \in {"process", "print", "crashed"}
      /\ args' = args /\ out' = out
      /\ pc' = "print" => idx' = 1
  BY DEF processFile, Processed
<1>2. Found(Handled) = {} /\ (pc' # "crashed" => Found(Handled)' = {})
  BY <1>1 DEF Handled, Found
<1>. QED
  BY <1>1, <1>2 DEF FindInv

LEMMA FindStep ==
  ASSUME ScriptTypeOK, Copied, FindInv, FindTargets
  PROVE  FindInv'
<1>1. /\ pc = "print" /\ idx \in 1 .. Len(file) /\ args.option = "-f"
      /\ args' = args /\ file' = file /\ content' = content
  BY HereIs DEF FindTargets
<1>2. CASE pc' = "crashed"
  BY <1>2 DEF FindInv
<1>3. CASE pc' # "crashed"
  <2>1. Here.hwas \in Nat
    BY <1>1, ContentIs DEF Here, Contents
  <2>2. LastBegins(Here.path, args.text) =>
          (Mismatch(Here) <=> ~\A c \in args.conditions : Holds(Here, c))
    <3>1. LastBegins(Here.path, args.text) => ~CannotCompare(Here)
      BY <1>3 DEF FindTargets
    <3>. QED
      BY <2>1, <3>1, MismatchIs
  <2>3. /\ pc' = pc /\ idx' = idx + 1
        /\ out' = IF Wanted(Here) THEN Append(out, Here.path) ELSE out
    BY <1>1, <1>3, <2>2 DEF FindTargets, GoOn, Wanted, FlagAfter
  <2>4. Handled = idx - 1 /\ Handled' = idx /\ idx - 1 \in Nat
    BY <1>1, <2>3 DEF Handled
  <2>. DEFINE F == Found(idx - 1)
  <2>5. Found(idx) = IF Wanted(Here) THEN F \cup {idx} ELSE F
    BY <1>1 DEF Found, Here
  <2>6. Found(Handled)' = Found(idx)
    BY <1>1, <2>4 DEF Found, Wanted, Holds
  <2>7. /\ Len(out) = Cardinality(F)
        /\ \A n \in F : out[PlaceIn(F, n)] = content[n].path
    BY <1>1, <2>4 DEF FindInv
  <2>8. F \in SUBSET (1 .. idx - 1) /\ idx - 1 + 1 = idx
    BY <1>1 DEF Found
  <2>. HIDE DEF F
  <2>9. CASE ~Wanted(Here)
    BY <1>1, <2>3, <2>5, <2>6, <2>7, <2>9 DEF FindInv
  <2>10. CASE Wanted(Here)
    <3>. DEFINE G == F \cup {idx}
    <3>1. /\ Cardinality(F) \in Nat
          /\ Cardinality(G) = Cardinality(F) + 1
          /\ PlaceIn(G, idx) = Cardinality(F) + 1
          /\ \A n \in F : PlaceIn(G, n) = PlaceIn(F, n) /\ PlaceIn(F, n) \in 1 .. Cardinality(F)
      BY <2>4, <2>8, OneMore
    <3>2. Found(Handled)' = G
      BY <2>5, <2>6, <2>10
    <3>3. /\ Len(out') = Len(out) + 1 /\ out'[Len(out) + 1] = Here.path
          /\ \A k \in 1 .. Len(out) : out'[k] = out[k]
      <4>1. out \in Seq(Paths \cup {Invalid})
        BY DEF ScriptTypeOK
      <4>2. out' = Append(out, Here.path)
        BY <2>3, <2>10
      <4>. QED
        BY <4>1, <4>2
    <3>4. ASSUME NEW n \in G
          PROVE  out'[PlaceIn(G, n)] = content[n].path
      <4>1. CASE n = idx
        BY <2>7, <3>1, <3>3, <4>1 DEF Here
      <4>2. CASE n \in F
        BY <2>7, <3>1, <3>3, <4>2
      <4>. QED
        BY <4>1, <4>2
    <3>. HIDE DEF G
    <3>. QED
      BY <1>1, <2>7, <3>1, <3>2, <3>3, <3>4 DEF FindInv
  <2>. QED
    BY <2>9, <2>10
<1>. QED
  BY <1>2, <1>3

LEMMA OtherStepsFind ==
  ASSUME OptionsInPlace, FindInv,
         PrintAll \/ PrintJson \/ PrintSpecific \/ listNodes \/ PrintBelow \/ PrintBehind
  PROVE  FindInv'
<1>1. args' = args /\ args.option # "-f"
  BY DEF PrintAll, PrintJson, PrintSpecific, listNodes, PrintAt, PrintBelow, PrintBehind, OptionsInPlace
<1>. QED
  BY <1>1 DEF FindInv

LEMMA FinishFind ==
  ASSUME OptionsInPlace, FindInv, Finish
  PROVE  FindInv'
<1>1. UNCHANGED <<args, file, content, idx, flag>> /\ pc \in {"print", "finish"}
      /\ pc' # "process" /\ pc # "crashed"
  BY DEF Finish
<1>2. Handled' = Handled /\ Found(Handled)' = Found(Handled)
  BY <1>1 DEF Handled, Found, Wanted, Holds
<1>3. args.option = "-f" => out' = out
  BY DEF Finish
<1>. QED
  BY <1>1, <1>2, <1>3 DEF FindInv

LEMMA SelectsImplied == ScriptTypeOK /\ OptionsInPlace /\ AskedInv /\ FindInv => SelectsAsked
<1>. SUFFICES ASSUME ScriptTypeOK, OptionsInPlace, AskedInv, FindInv
              PROVE  FoundIsAsked /\ FindIsExact
  BY DEF SelectsAsked
<1>1. FoundIsAsked
  BY DEF AskedInv, FoundIsAsked, Done
<1>2. ASSUME pc = "done", args.option = "-f"
      PROVE  FindIsExact
  <2>1. idx = Len(file) + 1 /\ Len(file) \in Nat
    BY <1>2 DEF OptionsInPlace, ScriptTypeOK
  <2>2. Handled = Len(file)
    BY <1>2, <2>1 DEF Handled
  <2>3. DOMAIN content = 1 .. Len(file)
    BY DEF ScriptTypeOK
  <2>4. Found(Handled) = {n \in DOMAIN content : Wanted(content[n])}
    BY <2>2, <2>3 DEF Found
  <2>. QED
    BY <1>2, <2>4 DEF FindInv, FindIsExact, PlaceIn
<1>. QED
  BY <1>1, <1>2 DEF FindIsExact, Done

-----------------------------------------------------------------------------
(* The JSON tree. *)

\* Of the first h targets, those with no later one above them.
Kept(h) ==
  {n \in 1 .. h : \A later \in n + 1 .. h : ~IsStrictPrefix(file[later].path, file[n].path)}

JsonInv ==
  args.option = "-j" /\ pc # "crashed" => k_v = {file[m].path : m \in Kept(Handled)}

LEMMA InitJson == ScriptInit => JsonInv
BY DEF ScriptInit, JsonInv, Handled, Kept

LEMMA FileStepsJson ==
  ASSUME JsonInv, processFile \/ Processed
  PROVE  JsonInv'
<1>1. /\ pc = "process" /\ pc' \in {"process", "print", "crashed"}
      /\ args' = args /\ k_v' = k_v
      /\ pc' = "print" => idx' = 1
  BY DEF processFile, Processed
<1>2. Kept(Handled) = {} /\ (pc' # "crashed" => Kept(Handled)' = {})
  BY <1>1 DEF Handled, Kept
<1>. QED
  BY <1>1, <1>2 DEF JsonInv

LEMMA JsonStep ==
  ASSUME ScriptTypeOK, Copied, JsonInv, PrintJson
  PROVE  JsonInv'
<1>1. /\ pc = "print" /\ idx \in 1 .. Len(file) /\ args.option = "-j" /\ Here.path = file[idx].path
      /\ args' = args /\ file' = file
  BY HereIs DEF PrintJson
<1>2. pc' = pc /\ idx' = idx + 1 /\ k_v' = PutAt(k_v, file[idx].path)
  BY <1>1 DEF PrintJson, GoOn
<1>3. Handled = idx - 1 /\ Handled' = idx
  BY <1>1, <1>2 DEF Handled
<1>4. Kept(Handled)' = Kept(idx)
  BY <1>1, <1>3 DEF Kept
<1>. DEFINE path == file[idx].path
<1>5. Kept(idx) = {n \in Kept(idx - 1) : ~IsStrictPrefix(path, file[n].path)} \cup {idx}
  <2>1. ASSUME NEW n \in 1 .. idx - 1
        PROVE  n \in Kept(idx) <=> n \in Kept(idx - 1) /\ ~IsStrictPrefix(path, file[n].path)
    <3>1. \A later : later \in n + 1 .. idx <=> later \in n + 1 .. idx - 1 \/ later = idx
      BY <1>1
    <3>. QED
      BY <1>1, <3>1 DEF Kept
  <2>2. idx \in Kept(idx)
    BY <1>1 DEF Kept
  <2>3. \A n : n \in 1 .. idx <=> n \in 1 .. idx - 1 \/ n = idx
    BY <1>1
  <2>4. Kept(idx) \subseteq 1 .. idx /\ Kept(idx - 1) \subseteq 1 .. idx - 1
    BY DEF Kept
  <2>. QED
    BY <2>1, <2>2, <2>3, <2>4
<1>6. k_v = {file[m].path : m \in Kept(idx - 1)}
  BY <1>1, <1>3 DEF JsonInv
<1>7. PutAt(k_v, path) = {file[m].path : m \in Kept(idx)}
  BY <1>5, <1>6 DEF PutAt, IsStrictPrefix
<1>. QED
  BY <1>1, <1>2, <1>4, <1>7 DEF JsonInv

LEMMA OtherStepsJson ==
  ASSUME OptionsInPlace, JsonInv,
         PrintAll \/ PrintSpecific \/ listNodes \/ FindTargets \/ PrintBelow \/ PrintBehind
  PROVE  JsonInv'
<1>1. args' = args /\ args.option # "-j"
  BY DEF PrintAll, PrintSpecific, listNodes, FindTargets, PrintAt, PrintBelow, PrintBehind, OptionsInPlace
<1>. QED
  BY <1>1 DEF JsonInv

LEMMA FinishJson ==
  ASSUME JsonInv, Finish
  PROVE  JsonInv'
<1>1. UNCHANGED <<args, file, idx, k_v>> /\ pc \in {"print", "finish"}
      /\ pc' # "process" /\ pc # "crashed"
  BY DEF Finish
<1>2. Handled' = Handled /\ Kept(Handled)' = Kept(Handled)
  BY <1>1 DEF Handled, Kept
<1>. QED
  BY <1>1, <1>2 DEF JsonInv

LEMMA JsonImplied == ScriptTypeOK /\ OptionsInPlace /\ JsonInv => JsonHoldsOrdered
<1>. SUFFICES ASSUME ScriptTypeOK, OptionsInPlace, JsonInv, pc = "done", args.option = "-j"
              PROVE  JsonHoldsOrdered
  BY DEF JsonHoldsOrdered, Done
<1>1. idx = Len(file) + 1 /\ Len(file) \in Nat
  BY DEF OptionsInPlace, ScriptTypeOK
<1>2. Handled = Len(file) /\ DOMAIN file = 1 .. Len(file)
  BY <1>1 DEF Handled, ScriptTypeOK
<1>3. k_v = {file[m].path : m \in Kept(Len(file))} /\ Kept(Len(file)) \subseteq DOMAIN file
  BY <1>2 DEF JsonInv, Kept
<1>4. k_v \subseteq {t.path : t \in ToSet(file)}
  BY <1>3 DEF ToSet
<1>. QED
  BY <1>2, <1>3, <1>4 DEF JsonHoldsOrdered, Kept

-----------------------------------------------------------------------------
(* Exceptions. *)

\* Targets that a condition can be checked for have what it names in the file.
LEMMA ComparedIs ==
  ASSUME ScriptTypeOK, Copied, pc # "crashed", Taken = Len(file), NEW n \in 1 .. Len(file)
  PROVE  CannotCompare(content[n]) <=>
           \E c \in args.conditions :
             \/ c.value = NoValue
             \/ c.key \notin ToSet(Hwas) /\ ~(c.key = "ATTR_ECO_MODE" /\ GivesEco(n))
<1>1. content[n].eco = EcoOf(n, Len(file))
  BY ContentIs
<1>2. n < Len(file) /\ IsCore0(file[n + 1]) => file[n + 1].eco # NoEco
  BY DEF Copied, ScriptTypeOK
<1>3. content[n].eco # NoEco <=> GivesEco(n)
  BY <1>1, <1>2 DEF EcoOf, GivesEco
<1>. QED
  BY <1>3 DEF CannotCompare, HasAttribute

\* Whether the script can have come this far, and why it has not.
Explained == CopyFails \/ PathMissing \/ ConditionFails

CrashInv ==
  /\ pc = "crashed" => Explained
  /\ pc # "crashed" =>
       /\ args.option = "-f" =>
            \A n \in 1 .. Handled : LastBegins(content[n].path, args.text) => ~CannotCompare(content[n])
       /\ \A q \in Nodes : \E n \in 1 .. Len(file) : q \in Above(file[n].path)
       /\ pc \in {"below", "behind", "done"} /\ args.option = "-n -fullpath" => args.path \in Nodes

LEMMA InitCrash == ScriptInit => CrashInv
BY DEF ScriptInit, CrashInv, Handled

LEMMA SameExplained ==
  ASSUME UNCHANGED <<args, file>>
  PROVE  Explained' = Explained
BY DEF Explained, CopyFails, IsCore0, PathMissing, ConditionFails, GivesEco

LEMMA CopyCrash ==
  ASSUME ScriptTypeOK, Copied, CrashInv, processFile \/ Processed
  PROVE  CrashInv'
<1>1. /\ pc = "process" /\ UNCHANGED <<file, args, Nodes>> /\ pc' \in {"process", "print", "crashed"}
      /\ pc' = "print" => idx' = 1
  BY DEF processFile, Processed
<1>2. CASE pc' = "crashed"
  <2>0. processFile /\ idx \in 1 .. Len(file)
    BY <1>2 DEF processFile, Processed, ScriptTypeOK
  <2>1. IsCore0(content[idx]) /\ (idx = 1 \/ content[idx].eco = NoEco)
    BY <1>1, <1>2, <2>0 DEF processFile, CannotCopy
  <2>2. content[idx].path = file[idx].path /\ content[idx].eco = file[idx].eco
    BY <1>1, <2>0, ContentIs DEF EcoOf, Taken
  <2>3. IsCore0(file[idx])
    BY <2>1, <2>2 DEF IsCore0
  <2>4. idx \in DOMAIN file
    BY <2>0 DEF ScriptTypeOK
  <2>5. CopyFails
    BY <2>1, <2>2, <2>3, <2>4 DEF CopyFails
  <2>. QED
    BY <1>1, <1>2, <2>5, SameExplained DEF CrashInv, Explained
<1>3. CASE pc' # "crashed"
  <2>1. 1 .. Handled' = {}
    BY <1>1, <1>3 DEF Handled
  <2>. QED
    BY <1>1, <1>3, <2>1 DEF CrashInv
<1>. QED
  BY <1>2, <1>3

LEMMA FindCrash ==
  ASSUME ScriptTypeOK, Copied, CrashInv, FindTargets
  PROVE  CrashInv'
<1>1. /\ pc = "print" /\ idx \in 1 .. Len(file) /\ args.option = "-f" /\ Taken = Len(file)
      /\ args' = args /\ file' = file /\ content' = content /\ Here.path = file[idx].path
  BY HereIs DEF FindTargets
<1>2. Nodes' = Nodes
  BY DEF FindTargets
<1>3. CASE pc' = "crashed"
  <2>1. LastBegins(file[idx].path, args.text) /\ CannotCompare(content[idx])
    BY <1>1, <1>3 DEF FindTargets, GoOn, Here
  <2>2. idx \in DOMAIN file
    BY <1>1 DEF ScriptTypeOK
  <2>3. ConditionFails
    BY <1>1, <2>1, <2>2, ComparedIs DEF ConditionFails
  <2>. QED
    BY <1>1, <1>3, <2>3, SameExplained DEF CrashInv, Explained
<1>4. CASE pc' # "crashed"
  <2>1. /\ pc' = pc /\ idx' = idx + 1
        /\ LastBegins(content[idx].path, args.text) => ~CannotCompare(content[idx])
    BY <1>1, <1>4 DEF FindTargets, GoOn, Here
  <2>2. Handled = idx - 1 /\ Handled' = idx
    BY <1>1, <2>1 DEF Handled
  <2>3. ASSUME NEW n \in 1 .. idx, LastBegins(content[n].path, args.text)
        PROVE  ~CannotCompare(content[n])
    <3>1. n \in 1 .. idx - 1 \/ n = idx
      BY <1>1
    <3>. QED
      BY <1>1, <2>1, <2>2, <2>3, <3>1 DEF CrashInv
  <2>. QED
    BY <1>1, <1>2, <2>1, <2>2, <2>3 DEF CrashInv, CannotCompare
<1>. QED
  BY <1>3, <1>4

LEMMA ListCrash ==
  ASSUME ScriptTypeOK, Copied, CrashInv, listNodes
  PROVE  CrashInv'
<1>1. PICK option : PrintAt(option)
  BY DEF listNodes
<1>2. /\ pc = "print" /\ idx \in 1 .. Len(file) /\ Here.path = file[idx].path
      /\ args' = args /\ file' = file
  BY <1>1, HereIs
<1>3. pc' = pc /\ args.option # "-f"
  BY DEF listNodes, GoOn, PrintAt
<1>4. Nodes' \subseteq Nodes \cup Above(file[idx].path)
  BY <1>2 DEF listNodes, Above
<1>. QED
  BY <1>2, <1>3, <1>4 DEF CrashInv

LEMMA OtherStepsCrash ==
  ASSUME CrashInv, PrintAll \/ PrintJson \/ PrintSpecific
  PROVE  CrashInv'
<1>1. /\ UNCHANGED <<args, file, Nodes>> /\ args.option \notin {"-f", "-n -fullpath"}
      /\ pc = "print" /\ pc' \in {"print", "finish"}
  BY DEF PrintAll, PrintJson, PrintSpecific, PrintAt, GoOn
<1>. QED
  BY <1>1 DEF CrashInv

LEMMA WalkCrash ==
  ASSUME OptionsInPlace, CrashInv, PrintBelow \/ PrintBehind
  PROVE  CrashInv'
<1>1. /\ pc \in {"below", "behind"} /\ pc' \in {"below", "behind", "done"}
      /\ UNCHANGED <<args, file, content, idx, flag, Nodes, k_v>>
  BY DEF PrintBelow, PrintBehind, PrintNode
<1>2. args.option # "-f"
  BY <1>1 DEF OptionsInPlace
<1>. QED
  BY <1>1, <1>2 DEF CrashInv

LEMMA FinishCrash ==
  ASSUME ScriptTypeOK, OptionsInPlace, TreeInv, CrashInv, Finish
  PROVE  CrashInv'
<1>1. /\ UNCHANGED <<args, file, content, idx, flag, Nodes, k_v>>
      /\ pc \in {"print", "finish"} /\ pc' \in {"below", "done", "crashed"}
  BY DEF Finish
<1>2. CASE pc' = "crashed"
  <2>1. args.option = "-n -fullpath" /\ args.path \notin Nodes
    BY <1>2 DEF Finish
  <2>2. pc = "print" /\ idx = Len(file) + 1 /\ TreeOption
    BY <1>1, <2>1 DEF Finish, OptionsInPlace, ScriptTypeOK, TreeOption
  <2>3. Handled = Len(file)
    BY <2>2 DEF Handled, ScriptTypeOK
  <2>4. ASSUME args.path # <<>>, NEW t \in ToSet(file), IsPrefix(args.path, t.path)
        PROVE  FALSE
    <3>1. t.path \in Nodes /\ Starts(args.path, t.path)
      BY <2>2, <2>3, <2>4, SubtreeInTree
    <3>2. args.path \in Seq(Elements)
      BY <2>1, ArgsAssumption DEF ScriptTypeOK
    <3>3. t.path \in Seq(Elements) /\ Len(args.path) \in 1 .. Len(t.path)
      BY <2>4, <3>1, <3>2 DEF TreeInv, Closed, Starts
    <3>4. SubSeq(t.path, 1, Len(args.path)) \in Nodes
      BY <3>1, <3>3 DEF TreeInv, Closed
    <3>5. SubSeq(t.path, 1, Len(args.path)) = args.path
      BY <3>1, <3>2, <3>3 DEF Starts
    <3>. QED
      BY <2>1, <3>4, <3>5
  <2>5. PathMissing
    BY <2>1, <2>4 DEF PathMissing
  <2>. QED
    BY <1>1, <1>2, <2>5, SameExplained DEF CrashInv, Explained
<1>3. CASE pc' # "crashed"
  <2>1. args.option = "-n -fullpath" => args.path \in Nodes
    BY <1>3 DEF Finish
  <2>2. Handled' = Handled
    BY <1>1 DEF Handled
  <2>. QED
    BY <1>1, <1>3, <2>1, <2>2 DEF CrashInv, CannotCompare
<1>. QED
  BY <1>2, <1>3

LEMMA CrashImplied ==
  ScriptTypeOK /\ Copied /\ OptionsInPlace /\ TreeInv /\ CrashInv => CrashIsExplained
<1>. SUFFICES ASSUME ScriptTypeOK, Copied, OptionsInPlace, TreeInv, CrashInv, pc = "done", Explained
              PROVE  FALSE
  BY DEF CrashIsExplained, CrashInv, Explained
<1>1. Taken = Len(file) /\ DOMAIN file = 1 .. Len(file)
  BY DEF Taken, ScriptTypeOK
<1>2. ~CopyFails
  BY <1>1 DEF CopyFails, Copied
<1>3. ASSUME PathMissing
      PROVE  FALSE
  <2>1. args.option = "-n -fullpath" /\ args.path \in Nodes
    BY <1>3 DEF PathMissing, CrashInv
  <2>2. args.path \in Seq(Elements) /\ args.path # <<>>
    BY <2>1 DEF TreeInv, Closed
  <2>3. PICK n \in 1 .. Len(file) : args.path \in Above(file[n].path)
    BY <2>1 DEF CrashInv
  <2>4. file[n] \in ToSet(file) /\ file[n].path \in Seq(Elements)
    BY <1>1, TargetsAssumption DEF ToSet, ScriptTypeOK
  <2>5. PICK m \in 1 .. Len(file[n].path) : args.path = SubSeq(file[n].path, 1, m)
    BY <2>3 DEF Above
  <2>6. Len(args.path) = m
    BY <2>4, <2>5
  <2>7. SubSeq(args.path, 1, Len(args.path)) = args.path
    BY <2>2
  <2>8. IsPrefix(args.path, file[n].path)
    BY <2>5, <2>6, <2>7 DEF IsPrefix
  <2>. QED
    BY <1>3, <2>2, <2>4, <2>8 DEF PathMissing
<1>4. ASSUME ConditionFails
      PROVE  FALSE
  <2>1. idx = Len(file) + 1 /\ Len(file) \in Nat
    BY <1>4 DEF ConditionFails, OptionsInPlace, ScriptTypeOK
  <2>2. Handled = Len(file)
    BY <2>1 DEF Handled
  <2>3. PICK n \in 1 .. Len(file) :
          LastBegins(file[n].path, args.text) /\ CannotCompare(content[n])
    BY <1>1, <1>4, ComparedIs DEF ConditionFails
  <2>4. content[n].path = file[n].path
    BY ContentIs
  <2>. QED
    BY <1>4, <2>2, <2>3, <2>4 DEF CrashInv, ConditionFails
<1>. QED
  BY <1>2, <1>3, <1>4 DEF Explained

-----------------------------------------------------------------------------
(* The theorems about the script. *)

ScriptInv ==
  /\ ScriptTypeOK
  /\ Copied
  /\ OptionsInPlace
  /\ TreeInv
  /\ AskedInv
  /\ FindInv
  /\ JsonInv
  /\ CrashInv

LEMMA ScriptInitInv == ScriptInit => ScriptInv
BY InitTyped, InitTree, InitAsked, InitFind, InitJson, InitCrash DEF ScriptInv

LEMMA PrintStepInv ==
  ASSUME ScriptInv, PrintAll \/ PrintJson \/ PrintSpecific \/ listNodes \/ FindTargets
  PROVE  ScriptInv'
<1>. USE DEF ScriptInv
<1>1. ScriptTypeOK' /\ Copied' /\ OptionsInPlace'
  BY PrintTyped
<1>2. TreeInv'
  BY ListTree, OtherStepsTree
<1>3. AskedInv'
  BY SpecificAsked, OtherStepsAsked
<1>4. FindInv'
  BY FindStep, OtherStepsFind
<1>5. JsonInv'
  BY JsonStep, OtherStepsJson
<1>6. CrashInv'
  BY FindCrash, ListCrash, OtherStepsCrash
<1>. QED
  BY <1>1, <1>2, <1>3, <1>4, <1>5, <1>6

LEMMA WalkStepInv ==
  ASSUME ScriptInv, PrintBelow \/ PrintBehind
  PROVE  ScriptInv'
<1>. USE DEF ScriptInv
<1>1. ScriptTypeOK' /\ TreeInv'
  BY BelowStep, BehindStep
<1>2. /\ pc \in {"below", "behind"} /\ pc' \in {"below", "behind", "done"}
      /\ UNCHANGED <<args, file, content, idx, flag, Nodes, k_v>>
  BY DEF PrintBelow, PrintBehind, PrintNode
<1>3. args.option \in {"-n", "-n -fullpath"}
  BY <1>2 DEF OptionsInPlace
<1>4. l' \in Paths \cup {<<>>} /\ out' \in Seq(Paths \cup {Invalid})
  BY <1>1 DEF ScriptTypeOK
<1>5. Copied' /\ OptionsInPlace'
  BY <1>2, <1>3, <1>4, RestKept
<1>6. AskedInv' /\ FindInv' /\ JsonInv'
  BY OtherStepsAsked, OtherStepsFind, OtherStepsJson
<1>7. CrashInv'
  BY WalkCrash
<1>. QED
  BY <1>1, <1>5, <1>6, <1>7

LEMMA ScriptNextInv == ScriptInv /\ [ScriptNext]_scriptVars => ScriptInv'
<1>. SUFFICES ASSUME ScriptInv, [ScriptNext]_scriptVars PROVE ScriptInv'
  OBVIOUS
<1>1. CASE processFile
  BY <1>1, CopyStep, FileStepsTree, FileStepsAsked, FileStepsFind, FileStepsJson, CopyCrash DEF ScriptInv
<1>2. CASE Processed
  BY <1>2, ProcessedStep, FileStepsTree, FileStepsAsked, FileStepsFind, FileStepsJson, CopyCrash DEF ScriptInv
<1>3. CASE PrintAll \/ PrintJson \/ PrintSpecific \/ listNodes \/ FindTargets
  BY <1>3, PrintStepInv
<1>4. CASE Finish
  BY <1>4, FinishTyped, FinishTree, FinishAsked, FinishFind, FinishJson, FinishCrash DEF ScriptInv
<1>5. CASE PrintBelow \/ PrintBehind
  BY <1>5, WalkStepInv
<1>6. CASE UNCHANGED scriptVars
  <2>. USE <1>6 DEF scriptVars
  <2>1. ScriptTypeOK' /\ OptionsInPlace' /\ Handled' = Handled /\ Taken' = Taken
    BY DEF ScriptInv, ScriptTypeOK, OptionsInPlace, Handled, Taken
  <2>2. Copied'
    BY <2>1 DEF ScriptInv, Copied, EcoOf
  <2>3. TreeInv'
    BY <2>1 DEF ScriptInv, TreeInv, TreeOption, InTree, Listed, Root
  <2>4. AskedInv'
    BY <2>1 DEF ScriptInv, AskedInv, FoundIsAsked, Done, Asked
  <2>5. FindInv'
    BY <2>1 DEF ScriptInv, FindInv, Found, Wanted, Holds
  <2>6. JsonInv'
    BY <2>1 DEF ScriptInv, JsonInv, Kept
  <2>7. CrashInv'
    BY <2>1, SameExplained DEF ScriptInv, CrashInv, CannotCompare
  <2>. QED
    BY <2>1, <2>2, <2>3, <2>4, <2>5, <2>6, <2>7 DEF ScriptInv
<1>. QED
  BY <1>1, <1>2, <1>3, <1>4, <1>5, <1>6 DEF ScriptNext, ScriptFinished

\* The script's variables have their types, in every listing and under every option.
THEOREM ScriptTypeCorrect == ScriptSpec => []ScriptTypeOK
<1>1. ScriptInv => ScriptTypeOK
  BY DEF ScriptInv
<1>. QED
  BY <1>1, ScriptInitInv, ScriptNextInv, PTL DEF ScriptSpec

\* -nodes prints the tree in order, whatever the order of the file, and the whole subtree
\* that was asked for (L63-109).
THEOREM TreeIsShown == ScriptSpec => []TreeShown
<1>1. ScriptInv => TreeShown
  BY TreeImplied DEF ScriptInv
<1>. QED
  BY <1>1, ScriptInitInv, ScriptNextInv, PTL DEF ScriptSpec

\* -target and -path print the target asked for, -find those with what is asked for at the
\* beginning of their last element and all conditions true, and nothing else (L136-167,
\* L229-268).
THEOREM SelectionIsAsked == ScriptSpec => []SelectsAsked
<1>1. ScriptInv => SelectsAsked
  BY SelectsImplied DEF ScriptInv
<1>. QED
  BY <1>1, ScriptInitInv, ScriptNextInv, PTL DEF ScriptSpec

\* The JSON tree holds every target that none above it comes after, and nothing that is
\* not in the file (L184-216).
THEOREM JsonHoldsInOrder == ScriptSpec => []JsonHoldsOrdered
<1>1. ScriptInv => JsonHoldsOrdered
  BY JsonImplied DEF ScriptInv
<1>. QED
  BY <1>1, ScriptInitInv, ScriptNextInv, PTL DEF ScriptSpec

\* The script ends with an exception in the cases of CopyFails, PathMissing and
\* ConditionFails, whatever the command line, and only then (L106, L119-121, L263, L277).
THEOREM CrashesAreExplained == ScriptSpec => []CrashIsExplained
<1>1. ScriptInv => CrashIsExplained
  BY CrashImplied DEF ScriptInv
<1>. QED
  BY <1>1, ScriptInitInv, ScriptNextInv, PTL DEF ScriptSpec

=============================================================================
