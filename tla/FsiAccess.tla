----------------------------- MODULE FsiAccess -----------------------------
(***************************************************************************)
(* pcfam/pcfam.cpp and pread/pread.cpp: programs that open the device       *)
(* entries the kernel keeps for the slave of an FSI bus.  kernel_fsi_probe  *)
(* tries to open the entry a few times, and has the bus scanned between the *)
(* tries: the kernel then makes all entries anew, and whatever was open     *)
(* becomes invalid.  Several programs run side by side.                     *)
(*                                                                         *)
(* main() of pcfam probes one device, reads a CFAM of it and releases it.   *)
(* The static first_probe is there for a program that probes more than one; *)
(* the model lets a pcfam probe, read and release in any order.             *)
(***************************************************************************)
EXTENDS Naturals

CONSTANTS
  Pcfams,         \* programs that probe
  Preads,         \* programs that open a SCOM device once
  Tries,          \* kernel_fsi_probe's tries: 5
  MaxProbes,      \* bound: probes of one program
  MaxEntries      \* bound: entries the kernel makes

Programs == Pcfams \cup Preads
Kernel   == "kernel"
NoOne    == "none"

ASSUME ProgramsAssumption ==
  /\ Pcfams \cap Preads = {}
  /\ {Kernel, NoOne} \cap Programs = {}
ASSUME BoundsAssumption ==
  /\ Tries \in Nat \ {0}
  /\ MaxProbes \in Nat
  /\ MaxEntries \in Nat

VARIABLES
  entry,          \* the entry there is, by its number; 0 if there is none
  made,           \* how many entries the kernel has made
  endedBy,        \* who had each entry removed: a program that scanned, or the kernel
  pc,             \* where each program is
  tries,          \* kernel_fsi_probe's variable of that name
  firstProbe,     \* the static of that name, per program
  held,           \* the entries each program has open
  probes,         \* probes each program has made
  result          \* what its last probe returned

kernelVars == <<entry, made, endedBy>>
probeVars  == <<tries, firstProbe, probes, result>>
fsiVars    == <<entry, made, endedBy, pc, tries, firstProbe, held, probes, result>>

EntryIds == 1 .. MaxEntries

TypeOK ==
  /\ entry \in 0 .. MaxEntries
  /\ made \in 0 .. MaxEntries
  /\ endedBy \in [EntryIds -> Programs \cup {Kernel, NoOne}]
  /\ pc \in [Programs -> {"main", "open", "scan", "ended"}]
  /\ tries \in [Programs -> 0 .. Tries]
  /\ firstProbe \in [Programs -> BOOLEAN]
  /\ held \in [Programs -> SUBSET EntryIds]
  /\ probes \in [Programs -> 0 .. MaxProbes]
  /\ result \in [Programs -> {"none", "ok", "failed", "noPath"}]

Init ==
  /\ entry = 0
  /\ made = 0
  /\ endedBy = [e \in EntryIds |-> NoOne]
  /\ pc = [p \in Programs |-> "main"]
  /\ tries = [p \in Programs |-> 0]
  /\ firstProbe = [p \in Programs |-> TRUE]
  /\ held = [p \in Programs |-> {}]
  /\ probes = [p \in Programs |-> 0]
  /\ result = [p \in Programs |-> "none"]

-----------------------------------------------------------------------------
(* The kernel. *)

\* The entry there was is gone, at who's request, and perhaps there is a new one.
RemakeEntry(who) ==
  /\ endedBy' = IF entry = 0 THEN endedBy ELSE [endedBy EXCEPT ![entry] = who]
  /\ \/ entry' = 0 /\ UNCHANGED made
     \/ made < MaxEntries /\ made' = made + 1 /\ entry' = made + 1

\* The slave is found or lost without a program asking for it.
KernelChanges ==
  /\ RemakeEntry(Kernel)
  /\ UNCHANGED <<pc, held>>
  /\ UNCHANGED probeVars

-----------------------------------------------------------------------------
(* kernel_fsi_probe. *)

Goto(p, from, to) ==
  /\ pc[p] = from
  /\ pc' = [pc EXCEPT ![p] = to]

\* It starts.  Without the path of an FSI master, which kernel_get_fsi_path finds
\* and keeps, or a name put together for the entry, that was all.
Probe(p) ==
  /\ p \in Pcfams
  /\ probes[p] < MaxProbes
  /\ probes' = [probes EXCEPT ![p] = @ + 1]
  /\ tries' = [tries EXCEPT ![p] = Tries]
  /\ \/ /\ Goto(p, "main", "open")
        /\ result' = [result EXCEPT ![p] = "none"]
     \/ /\ Goto(p, "main", "main")
        /\ result' = [result EXCEPT ![p] = "noPath"]
  /\ UNCHANGED <<firstProbe, held>>
  /\ UNCHANGED kernelVars

\* A fault: the flag is never cleared.
FirstProbeAfterKept(p) == firstProbe

FirstProbeAfter(p) == [firstProbe EXCEPT ![p] = FALSE]

OpenSucceeds(p) ==
  /\ entry # 0
  /\ Goto(p, "open", "main")
  /\ held' = [held EXCEPT ![p] = @ \cup {entry}]
  /\ firstProbe' = FirstProbeAfter(p)
  /\ result' = [result EXCEPT ![p] = "ok"]
  /\ UNCHANGED <<tries, probes>>
  /\ UNCHANGED kernelVars

\* A fault: only the first of the tries has it scanned.
ScansOnce(p) == firstProbe[p] /\ tries[p] = Tries

\* "So avoid scanning if some devices are already probed."
Scans(p) == firstProbe[p]

\* A fault: the tries are not counted.
TriesAfterKept(p) == tries

TriesAfter(p) == [tries EXCEPT ![p] = @ - 1]

OpenFails(p) ==
  /\ tries' = TriesAfter(p)
  /\ \/ Scans(p) /\ Goto(p, "open", "scan") /\ UNCHANGED result
     \/ /\ ~Scans(p)
        /\ Goto(p, "open", "main")
        /\ result' = [result EXCEPT ![p] = "failed"]
  /\ UNCHANGED <<firstProbe, probes, held>>
  /\ UNCHANGED kernelVars

\* kernel_fsi_scan_devices and the second of sleep behind it: also after the last
\* try.  The entry for the scan may fail to open or to take the write.
Scan(p) ==
  /\ \/ tries[p] > 0 /\ Goto(p, "scan", "open") /\ UNCHANGED result
     \/ /\ tries[p] = 0
        /\ Goto(p, "scan", "main")
        /\ result' = [result EXCEPT ![p] = "failed"]
  /\ RemakeEntry(p) \/ UNCHANGED kernelVars
  /\ UNCHANGED <<tries, firstProbe, probes, held>>

-----------------------------------------------------------------------------
(* The programs' main functions. *)

\* kernel_fsi_release.
Release(p) ==
  /\ p \in Pcfams
  /\ pc[p] = "main"
  /\ \E e \in held[p] : held' = [held EXCEPT ![p] = @ \ {e}]
  /\ UNCHANGED pc
  /\ UNCHANGED probeVars
  /\ UNCHANGED kernelVars

\* pread opens its device once, without a scan, and ends if it cannot.
OpenScom(p) ==
  /\ p \in Preads
  /\ held[p] = {}
  /\ \/ entry # 0 /\ Goto(p, "main", "main") /\ held' = [held EXCEPT ![p] = {entry}]
     \/ Goto(p, "main", "ended") /\ UNCHANGED held
  /\ UNCHANGED probeVars
  /\ UNCHANGED kernelVars

\* A program returns from main, and the kernel closes what it has open.  What it
\* has read before, or failed to read, changes nothing.
End(p) ==
  /\ Goto(p, "main", "ended")
  /\ held' = [held EXCEPT ![p] = {}]
  /\ UNCHANGED probeVars
  /\ UNCHANGED kernelVars

ProbeStep(p) == OpenSucceeds(p) \/ OpenFails(p) \/ Scan(p)

ProgramStep(p) == Probe(p) \/ ProbeStep(p) \/ Release(p) \/ OpenScom(p) \/ End(p)

-----------------------------------------------------------------------------
(* Properties. *)

\* "It means any currently open devices will be invalid": no program invalidates
\* a device it has open, by probing another one after it (L124-136).
OwnScansHarmless ==
  \A p \in Programs : \A e \in held[p] : endedBy[e] # p

\* A probe that gives up has used all its tries, if the program has opened nothing
\* so far and may scan between them; else it has made one (L101-149).
GivesUpInTime ==
  \A p \in Programs :
    result[p] = "failed" => tries[p] = IF firstProbe[p] THEN 0 ELSE Tries - 1

\* Every program ends, however often its probes fail (L118-149).
ProgramsEnd == \A p \in Programs : <>(pc[p] = "ended")

=============================================================================
