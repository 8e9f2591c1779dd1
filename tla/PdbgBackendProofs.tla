------------------------- MODULE PdbgBackendProofs -------------------------
(***************************************************************************)
(* PdbgBackend for any programs beside each other, any number of tries and  *)
(* of entries.  Two arguments that do not touch: what the programs of        *)
(* FsiAccess hold and may scan (FsiInv), and what the two calls of           *)
(* myGetScom leave behind (SwitchInv).                                      *)
(***************************************************************************)
EXTENDS PdbgBackend, TLAPS

\* What a step is to the programs of FsiAccess.
LEMMA FsiStepCases ==
  ASSUME [BackendNext]_vars
  PROVE  \/ KernelChanges
         \/ \E p \in Programs : Probe(p)
         \/ \E p \in Programs : OpenSucceeds(p)
         \/ \E p \in Programs : OpenFails(p)
         \/ \E p \in Programs : Scan(p)
         \/ \E p \in Programs : Release(p)
         \/ \E p \in Programs : OpenScom(p)
         \/ \E p \in Programs : End(p)
         \/ UNCHANGED fsiVars
<1>1. CASE SwitchStep
  BY <1>1
  DEF SwitchStep, SetBackend, InitTargets, ProbeTargets, GetScom, ResetRoot, SetKernel
<1>2. CASE UNCHANGED vars
  BY <1>2 DEF vars, fsiVars
<1>. QED
  BY <1>1, <1>2 DEF BackendNext, ProgramStep, ProbeStep

\* What it is to the program that switches.
LEMMA SwitchStepCases ==
  ASSUME [BackendNext]_vars
  PROVE  \/ SetBackend
         \/ InitTargets
         \/ ProbeTargets
         \/ GetScom
         \/ ResetRoot
         \/ SetKernel
         \/ UNCHANGED switchVars
<1>1. CASE UNCHANGED vars
  BY <1>1 DEF vars, switchVars
<1>. QED
  BY <1>1 DEF BackendNext, SwitchStep

-----------------------------------------------------------------------------
(* Types. *)

\* A program has a try left whenever it opens an entry.
TriesLeft == \A p \in Programs : pc[p] = "open" => tries[p] > 0

LEMMA RemakeTyped ==
  ASSUME TypeOK, NEW who \in Programs \cup {Kernel}, RemakeEntry(who)
  PROVE  /\ entry' \in 0 .. MaxEntries
         /\ made' \in 0 .. MaxEntries
         /\ endedBy' \in [EntryIds -> Programs \cup {Kernel, NoOne}]
BY BoundsAssumption DEF RemakeEntry, TypeOK, EntryIds

LEMMA FsiTyped == TypeOK /\ TriesLeft /\ [BackendNext]_vars => TypeOK' /\ TriesLeft'
<1>. SUFFICES ASSUME TypeOK, TriesLeft, [BackendNext]_vars
              PROVE  TypeOK' /\ TriesLeft'
  OBVIOUS
<1>. USE BoundsAssumption DEF TypeOK, TriesLeft
<1>1. CASE KernelChanges
  <2>1. /\ entry' \in 0 .. MaxEntries
        /\ made' \in 0 .. MaxEntries
        /\ endedBy' \in [EntryIds -> Programs \cup {Kernel, NoOne}]
    BY <1>1, RemakeTyped DEF KernelChanges
  <2>. QED
    BY <1>1, <2>1 DEF KernelChanges, probeVars
<1>2. CASE \E p \in Programs : Probe(p)
  BY <1>2 DEF Probe, Goto, kernelVars
<1>3. CASE \E p \in Programs : OpenSucceeds(p)
  <2>1. PICK p \in Programs : OpenSucceeds(p)
    BY <1>3
  <2>2. held' \in [Programs -> SUBSET EntryIds]
    BY <2>1 DEF OpenSucceeds, EntryIds
  <2>. QED
    BY <2>1, <2>2 DEF OpenSucceeds, Goto, FirstProbeAfter, kernelVars
<1>4. CASE \E p \in Programs : OpenFails(p)
  BY <1>4 DEF OpenFails, TriesAfter, Goto, kernelVars
<1>5. CASE \E p \in Programs : Scan(p)
  <2>1. PICK p \in Programs : Scan(p)
    BY <1>5
  <2>2. /\ entry' \in 0 .. MaxEntries
        /\ made' \in 0 .. MaxEntries
        /\ endedBy' \in [EntryIds -> Programs \cup {Kernel, NoOne}]
    BY <2>1, RemakeTyped DEF Scan, kernelVars
  <2>. QED
    BY <2>1, <2>2 DEF Scan, Goto
<1>6. CASE \E p \in Programs : Release(p)
  BY <1>6 DEF Release, probeVars, kernelVars
<1>7. CASE \E p \in Programs : OpenScom(p)
  <2>1. PICK p \in Programs : OpenScom(p)
    BY <1>7
  <2>2. held' \in [Programs -> SUBSET EntryIds]
    BY <2>1 DEF OpenScom, EntryIds
  <2>. QED
    BY <2>1, <2>2 DEF OpenScom, Goto, probeVars, kernelVars
<1>8. CASE \E p \in Programs : End(p)
  BY <1>8 DEF End, Goto, probeVars, kernelVars
<1>9. CASE UNCHANGED fsiVars
  BY <1>9 DEF fsiVars
<1>. QED
  BY <1>1, <1>2, <1>3, <1>4, <1>5, <1>6, <1>7, <1>8, <1>9, FsiStepCases

\* The kernel's entries and the programs' variables keep their types.
THEOREM TypeCorrect == BackendSpec => [](TypeOK /\ TriesLeft)
<1>1. BackendInit => TypeOK /\ TriesLeft
  BY BoundsAssumption DEF BackendInit, Init, TypeOK, TriesLeft
<1>. QED
  BY <1>1, FsiTyped, PTL DEF BackendSpec

-----------------------------------------------------------------------------
(* Scans and tries. *)

\* Entries not made yet, and the one there is, nobody has removed.
EntriesInv ==
  /\ entry <= made
  /\ \A e \in EntryIds : e > made \/ e = entry => endedBy[e] = NoOne

\* A program that scans has opened nothing so far.
ScanInv ==
  \A p \in Programs :
    /\ pc[p] \in {"open", "scan"} => p \in Pcfams
    /\ pc[p] = "scan" => firstProbe[p]
    /\ p \in Pcfams /\ held[p] # {} => ~firstProbe[p]

\* A probe that may not scan is at its first try.
TryInv ==
  \A p \in Programs :
    /\ pc[p] \in {"open", "scan"} => result[p] = "none"
    /\ pc[p] = "open" /\ ~firstProbe[p] => tries[p] = Tries

FsiInv == EntriesInv /\ ScanInv /\ TryInv /\ OwnScansHarmless /\ GivesUpInTime

\* A bus scanned, or a slave that comes or goes, removes the entry there is.
LEMMA RemakeEffect ==
  ASSUME TypeOK, EntriesInv, NEW who, RemakeEntry(who)
  PROVE  /\ EntriesInv'
         /\ \A e \in EntryIds :
              endedBy'[e] = endedBy[e] \/ (e = entry /\ endedBy'[e] = who)
BY BoundsAssumption DEF RemakeEntry, EntriesInv, TypeOK, EntryIds

LEMMA FsiInvStep == TypeOK /\ TriesLeft /\ FsiInv /\ [BackendNext]_vars => FsiInv'
<1>. SUFFICES ASSUME TypeOK, TriesLeft, FsiInv, [BackendNext]_vars
              PROVE  FsiInv'
  OBVIOUS
<1>. USE BoundsAssumption, ProgramsAssumption
<1>1. CASE KernelChanges
  <2>1. /\ EntriesInv'
        /\ \A e \in EntryIds : endedBy'[e] = endedBy[e] \/ endedBy'[e] = Kernel
    BY <1>1, RemakeEffect DEF KernelChanges, FsiInv
  <2>2. OwnScansHarmless'
    BY <1>1, <2>1 DEF KernelChanges, FsiInv, OwnScansHarmless, TypeOK
  <2>. QED
    BY <1>1, <2>1, <2>2
    DEF KernelChanges, probeVars, FsiInv, ScanInv, TryInv, GivesUpInTime
<1>2. CASE \E p \in Programs : Probe(p)
  <2>1. PICK p \in Programs : Probe(p)
    BY <1>2
  <2>2. EntriesInv' /\ OwnScansHarmless'
    BY <2>1 DEF Probe, kernelVars, FsiInv, EntriesInv, OwnScansHarmless
  <2>3. ScanInv'
    BY <2>1 DEF Probe, Goto, FsiInv, ScanInv, TypeOK
  <2>4. TryInv' /\ GivesUpInTime'
    BY <2>1 DEF Probe, Goto, FsiInv, TryInv, GivesUpInTime, TypeOK
  <2>. QED
    BY <2>2, <2>3, <2>4 DEF FsiInv
<1>3. CASE \E p \in Programs : OpenSucceeds(p)
  <2>1. PICK p \in Programs : OpenSucceeds(p)
    BY <1>3
  <2>2. EntriesInv'
    BY <2>1 DEF OpenSucceeds, kernelVars, FsiInv, EntriesInv
  <2>3. entry \in EntryIds /\ endedBy[entry] = NoOne
    BY <2>1 DEF OpenSucceeds, FsiInv, EntriesInv, TypeOK, EntryIds
  <2>4. OwnScansHarmless'
    BY <2>1, <2>3 DEF OpenSucceeds, kernelVars, FsiInv, OwnScansHarmless, TypeOK
  <2>5. ScanInv'
    BY <2>1 DEF OpenSucceeds, Goto, FirstProbeAfter, FsiInv, ScanInv, TypeOK
  <2>6. TryInv' /\ GivesUpInTime'
    BY <2>1 DEF OpenSucceeds, Goto, FirstProbeAfter, FsiInv, TryInv, GivesUpInTime, TypeOK
  <2>. QED
    BY <2>2, <2>4, <2>5, <2>6 DEF FsiInv
<1>4. CASE \E p \in Programs : OpenFails(p)
  <2>1. PICK p \in Programs : OpenFails(p)
    BY <1>4
  <2>2. EntriesInv' /\ OwnScansHarmless'
    BY <2>1 DEF OpenFails, kernelVars, FsiInv, EntriesInv, OwnScansHarmless
  <2>3. ScanInv'
    BY <2>1 DEF OpenFails, Scans, Goto, FsiInv, ScanInv, TypeOK
  <2>4. TryInv' /\ GivesUpInTime'
    BY <2>1 DEF OpenFails, Scans, TriesAfter, Goto, FsiInv, TryInv, GivesUpInTime, TypeOK
  <2>. QED
    BY <2>2, <2>3, <2>4 DEF FsiInv
<1>5. CASE \E p \in Programs : Scan(p)
  <2>1. PICK p \in Programs : Scan(p)
    BY <1>5
  <2>2. held[p] = {} /\ firstProbe[p] /\ p \in Pcfams
    BY <2>1 DEF Scan, Goto, FsiInv, ScanInv
  <2>3. /\ EntriesInv'
        /\ \A e \in EntryIds : endedBy'[e] = endedBy[e] \/ endedBy'[e] = p
    BY <2>1, RemakeEffect DEF Scan, kernelVars, FsiInv, EntriesInv
  <2>4. OwnScansHarmless'
    BY <2>1, <2>2, <2>3 DEF Scan, FsiInv, OwnScansHarmless, TypeOK
  <2>5. ScanInv'
    BY <2>1, <2>2 DEF Scan, Goto, FsiInv, ScanInv, TypeOK
  <2>6. TryInv' /\ GivesUpInTime'
    BY <2>1, <2>2 DEF Scan, Goto, FsiInv, TryInv, GivesUpInTime, TypeOK
  <2>. QED
    BY <2>3, <2>4, <2>5, <2>6 DEF FsiInv
<1>6. CASE \E p \in Programs : Release(p)
  BY <1>6
  DEF Release, probeVars, kernelVars, FsiInv, EntriesInv, ScanInv, TryInv, OwnScansHarmless,
      GivesUpInTime, TypeOK
<1>7. CASE \E p \in Programs : OpenScom(p)
  <2>1. PICK p \in Programs : OpenScom(p)
    BY <1>7
  <2>2. EntriesInv' /\ TryInv' /\ GivesUpInTime'
    BY <2>1
    DEF OpenScom, Goto, probeVars, kernelVars, FsiInv, EntriesInv, TryInv, GivesUpInTime, TypeOK
  <2>3. entry # 0 => entry \in EntryIds /\ endedBy[entry] = NoOne
    BY DEF FsiInv, EntriesInv, TypeOK, EntryIds
  <2>4. OwnScansHarmless'
    BY <2>1, <2>3 DEF OpenScom, kernelVars, FsiInv, OwnScansHarmless, TypeOK
  <2>5. ScanInv'
    BY <2>1 DEF OpenScom, Goto, probeVars, FsiInv, ScanInv, TypeOK
  <2>. QED
    BY <2>2, <2>4, <2>5 DEF FsiInv
<1>8. CASE \E p \in Programs : End(p)
  BY <1>8
  DEF End, Goto, probeVars, kernelVars, FsiInv, EntriesInv, ScanInv, TryInv, OwnScansHarmless,
      GivesUpInTime, TypeOK
<1>9. CASE UNCHANGED fsiVars
  BY <1>9
  DEF fsiVars, FsiInv, EntriesInv, ScanInv, TryInv, OwnScansHarmless, GivesUpInTime
<1>. QED
  BY <1>1, <1>2, <1>3, <1>4, <1>5, <1>6, <1>7, <1>8, <1>9, FsiStepCases

LEMMA FsiInvHolds == BackendSpec => []FsiInv
<1>1. BackendInit => FsiInv
  BY DEF BackendInit, Init, FsiInv, EntriesInv, ScanInv, TryInv, OwnScansHarmless, GivesUpInTime,
         EntryIds
<1>. QED
  BY <1>1, FsiInvStep, TypeCorrect, PTL DEF BackendSpec

\* No program's scan invalidates what the program has open, however many devices it
\* probes and whoever scans beside it.
THEOREM ScansAreHarmless == BackendSpec => []OwnScansHarmless
<1>1. FsiInv => OwnScansHarmless
  BY DEF FsiInv
<1>. QED
  BY <1>1, FsiInvHolds, PTL

\* A probe gives up after all of its tries, or after one when it may not scan.
THEOREM ProbesGiveUpInTime == BackendSpec => []GivesUpInTime
<1>1. FsiInv => GivesUpInTime
  BY DEF FsiInv
<1>. QED
  BY <1>1, FsiInvHolds, PTL

-----------------------------------------------------------------------------
(* The two calls of myGetScom. *)

\* There is no tree before it is made, and until something is refused, the back end
\* and the tree are of the kind asked for; the flag is down until the first probe.
SwitchInv ==
  /\ resets \in {0, 1}
  /\ asked = "KERNEL" => resets = 0
  /\ spc = "reset" => asked = "KERNEL"
  /\ spc \in {"set", "init"} => tree = NoTree
  /\ spc = "init" /\ ~refused => backend = asked
  /\ spc \in {"probe", "loop"} /\ tree # NoTree /\ ~refused => tree.backend = asked
  /\ spc \in {"set", "init", "probe"} /\ resets = 0 => ~flag
  /\ spc \in {"set", "init", "probe", "setKernel"} => got = Nothing
  /\ backend \in Backends
  /\ asked \in {"KERNEL", "SBEFIFO"}
  /\ tree # NoTree => tree \in Trees

LEMMA SwitchInvStep ==
  SwitchInv /\ DataOfAskedBackend /\ TypeOK /\ TypeOK' /\ [BackendNext]_vars =>
    SwitchInv' /\ DataOfAskedBackend'
<1>. SUFFICES ASSUME SwitchInv, DataOfAskedBackend, TypeOK, TypeOK', [BackendNext]_vars
              PROVE  SwitchInv' /\ DataOfAskedBackend'
  OBVIOUS
<1>. USE DEF SwitchInv, DataOfAskedBackend, SwitchGoto
<1>1. CASE SetBackend
  BY <1>1 DEF SetBackend, pdbg_set_backend, Backends
<1>2. CASE InitTargets
  <2>1. CASE tree' = [NoTree EXCEPT !.backend = backend] /\ tree = NoTree
    <3>1. tree' = [backend |-> backend, probed |-> FALSE, entry |-> 0]
      BY <2>1 DEF NoTree
    <3>2. backend \in Backends /\ 0 \in 0 .. MaxEntries
      BY BoundsAssumption
    <3>3. tree' \in Trees
      BY <3>1, <3>2, Zenon DEF Trees
    <3>4. tree'.backend = backend
      BY <3>1
    <3>. QED
      BY <1>2, <2>1, <3>3, <3>4 DEF InitTargets
  <2>2. CASE UNCHANGED tree
    BY <1>2, <2>2 DEF InitTargets
  <2>. QED
    BY <1>2, <2>1, <2>2 DEF InitTargets
<1>3. CASE ProbeTargets
  <2>1. /\ spc = "probe" /\ spc' \in {"loop", "crashed"}
        /\ UNCHANGED <<backend, asked, refused, resets, got, fsiVars>>
    BY <1>3 DEF ProbeTargets
  <2>2. CASE UNCHANGED tree /\ (flag \/ tree = NoTree)
    BY <2>1, <2>2
  <2>3. CASE tree # NoTree /\ \E e \in {0, entry} :
               tree' = [tree EXCEPT !.probed = TRUE,
                                    !.entry = IF tree.backend = "KERNEL" THEN e ELSE 0]
    <3>1. tree \in Trees
      BY <2>3
    <3>2. PICK e \in {0, entry} :
            tree' = [tree EXCEPT !.probed = TRUE,
                                 !.entry = IF tree.backend = "KERNEL" THEN e ELSE 0]
      BY <2>3
    <3>. DEFINE opened == IF tree.backend = "KERNEL" THEN e ELSE 0
    <3>3. opened \in 0 .. MaxEntries
      BY BoundsAssumption DEF TypeOK
    <3>4. tree' = [tree EXCEPT !.probed = TRUE, !.entry = opened]
      BY <3>2
    <3>. HIDE DEF opened
    <3>5. tree' \in Trees
      BY <3>1, <3>3, <3>4 DEF Trees
    <3>6. tree'.backend = tree.backend
      BY <3>1, <3>4 DEF Trees
    <3>7. tree'.probed = TRUE
      BY <3>1, <3>4 DEF Trees
    <3>. QED
      BY <2>1, <2>3, <3>5, <3>6, <3>7
  <2>. QED
    BY <1>3, <2>2, <2>3 DEF ProbeTargets, ProbeWanted
<1>4. CASE GetScom
  BY <1>4 DEF GetScom, Usable
<1>5. CASE ResetRoot
  BY <1>5 DEF ResetRoot, TreeAfterReset
<1>6. CASE SetKernel
  BY <1>6 DEF SetKernel, pdbg_set_backend, Backends
<1>7. CASE UNCHANGED switchVars
  BY <1>7 DEF switchVars
<1>. QED
  BY <1>1, <1>2, <1>3, <1>4, <1>5, <1>6, <1>7, SwitchStepCases

\* The second call works with nothing of the first one's but the flag.
THEOREM SecondCallIsItsOwn == BackendSpec => []DataOfAskedBackend
<1>1. BackendInit => SwitchInv /\ DataOfAskedBackend
  BY DEF BackendInit, SwitchInit, SwitchInv, DataOfAskedBackend, Backends
<1>. QED
  BY <1>1, SwitchInvStep, TypeCorrect, PTL DEF BackendSpec

=============================================================================
