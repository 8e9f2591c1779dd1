---------------------------- MODULE DumpCollect ----------------------------
(***************************************************************************)
(* collectdump/dump_collect.cpp: a parent process (collectDump) finds the   *)
(* chips to collect from, forks one child per chip for the clocks-ON stage, *)
(* waits for all of them, and does it again for the clocks-OFF stage.  A    *)
(* child (collectDumpFromSBE, writeDumpFile) gets the dump of one chip and  *)
(* writes it to the folder all children share; on an SBE error it logs a    *)
(* PEL and may request an SBE dump instead.                                 *)
(*                                                                         *)
(* Left to other modules: how PELs are created (SbeErrorPel) and what       *)
(* requestSBEDump does while the child waits in it (SbeDumpRequest).        *)
(***************************************************************************)
EXTENDS Integers

CONSTANTS
  Procs,          \* processor chips
  Ocmbs,          \* Odyssey OCMB chips
  OcmbParent,     \* the processor an OCMB hangs off
  Index,          \* pdbg_target_index of a chip
  Primary,        \* the primary processor
  PosModulus,     \* writeDumpFile's chipPos is a uint8_t: 2^8 in the code
  Types           \* the dump types collectDump may be called with

Chips  == Procs \cup Ocmbs
Clocks == {"ON", "OFF"}

\* SBE_DUMP_TYPE_* of sbe_consts.hpp that collectDump tells apart.
DumpTypes == {"HOSTBOOT", "HARDWARE", "PERFORMANCE"}

ASSUME ChipsAssumption ==
  /\ Procs \cap Ocmbs = {}
  /\ OcmbParent \in [Ocmbs -> Procs]
  /\ Index \in [Chips -> Nat]
  /\ Types \subseteq DumpTypes

\* Chips of one class have indices that a uint8_t still tells apart.
ASSUME PositionsAssumption ==
  /\ PosModulus \in Nat \ {0}
  /\ \A c, d \in Chips :
       /\ c \in Procs <=> d \in Procs
       /\ Index[c] % PosModulus = Index[d] % PosModulus
       => c = d

\* A child process stands for one chip in one clock state.
Jobs == Chips \X Clocks

Kind(c) == IF c \in Procs THEN "proc" ELSE "ocmb"

FileNames == [clock : Clocks, kind : {"proc", "ocmb"}, pos : 0 .. PosModulus - 1]

NameWith(c, kind, k) == [clock |-> k, kind |-> kind, pos |-> Index[c] % PosModulus]

\* A fault: the chip class is not part of the name.
FileNameWithoutKind(j) == NameWith(j[1], "proc", j[2])

\* "<id>.SbeDataClocks<On|Off>.node0.<proc|ocmb><chipPos>"; the id is that of
\* the whole collection.
FileName(j) == NameWith(j[1], Kind(j[1]), j[2])

VARIABLES
  dumpType,       \* collectDump's type argument
  ppc,            \* where the parent is
  clock,          \* cstate: the clock state being collected
  toScan,         \* processors the target loop has not reached yet
  targets,        \* targetList
  reaped,         \* the children waitpid has returned for
  failed,         \* the parent's flag of that name
  cpc,            \* where each child is
  err,            \* the kind of SBE error a child's getDump ended with
  files,          \* the dump folder
  pels,           \* <<chip, when>>: the PELs logged
  requested       \* the children that asked for an SBE dump

parentVars == <<dumpType, ppc, clock, toScan, targets, reaped, failed>>
childVars  == <<cpc, err, files, requested>>
vars       == <<dumpType, ppc, clock, toScan, targets, reaped, failed,
                cpc, err, files, pels, requested>>

Writing == {"write", "flush", "closeOnly"}
Running == {"getDump", "pel", "request", "primary", "open"} \cup Writing
Ended   == {"exit0", "exit1", "killed"}
ParentEnds == {"done", "exitFailure", "threw"}
SbeErrors  == {"timeout", "other"}

TypeOK ==
  /\ dumpType \in Types
  /\ ppc \in {"scan", "collect"} \cup ParentEnds
  /\ clock \in Clocks
  /\ toScan \subseteq Procs
  /\ targets \subseteq Chips
  /\ reaped \subseteq Jobs
  /\ failed \in BOOLEAN
  /\ cpc \in [Jobs -> {"none"} \cup Running \cup Ended]
  /\ err \in [Jobs -> {"none"} \cup SbeErrors]
  /\ files \in [FileNames -> {"absent", "partial", "whole"}]
  /\ pels \subseteq Chips \X ({"stop"} \cup Clocks)
  /\ requested \subseteq Jobs

Init ==
  /\ dumpType \in Types
  /\ ppc = "scan"
  /\ clock = "ON"
  /\ toScan = Procs
  /\ targets = {}
  /\ reaped = {}
  /\ failed = FALSE
  /\ cpc = [j \in Jobs |-> "none"]
  /\ err = [j \in Jobs |-> "none"]
  /\ files = [n \in FileNames |-> "absent"]
  /\ pels = {}
  /\ requested = {}

-----------------------------------------------------------------------------
(* The parent. *)

\* The target loop drops a processor whose probe fails or that is not
\* functional.
SkipProc(p) ==
  /\ ppc = "scan"
  /\ p \in toScan
  /\ toScan' = toScan \ {p}
  /\ UNCHANGED <<dumpType, ppc, clock, targets, reaped, failed, pels>>
  /\ UNCHANGED childVars

\* The OCMBs the loop takes with a processor: the enabled Odyssey chips below
\* it, for a hardware dump only.
OcmbChoices(p) ==
  IF dumpType = "HARDWARE"
  THEN SUBSET {o \in Ocmbs : OcmbParent[o] = p}
  ELSE {{}}

\* The loop takes a functional processor.  For a hostboot dump its threads are
\* stopped first; that may fail, and the failure is logged or not.
TakeProc(p) ==
  /\ ppc = "scan"
  /\ p \in toScan
  /\ toScan' = toScan \ {p}
  /\ \E os \in OcmbChoices(p) : targets' = targets \cup {p} \cup os
  /\ \/ UNCHANGED pels
     \/ dumpType = "HOSTBOOT" /\ pels' = pels \cup {<<p, "stop">>}
  /\ UNCHANGED <<dumpType, ppc, clock, reaped, failed>>
  /\ UNCHANGED childVars

\* isTgtFunctional, isPrimaryProc and createSbeErrorPEL may throw, and nothing
\* in the loop catches what they throw.
ScanThrows(p) ==
  /\ ppc = "scan"
  /\ p \in toScan
  /\ ppc' = "threw"
  /\ pels' \in {pels} \cup
       (IF dumpType = "HOSTBOOT" THEN {pels \cup {<<p, "stop">>}} ELSE {})
  /\ UNCHANGED <<dumpType, clock, toScan, targets, reaped, failed>>
  /\ UNCHANGED childVars

ScanDone ==
  /\ ppc = "scan"
  /\ toScan = {}
  /\ ppc' = "collect"
  /\ UNCHANGED <<dumpType, clock, toScan, targets, reaped, failed, pels>>
  /\ UNCHANGED childVars

\* The targets the fork loop of this stage has not reached, and the children
\* it has started.
ToFork  == {t \in targets : cpc[<<t, clock>>] = "none"}
PidList == {<<t, clock>> : t \in targets}

Fork(t) ==
  /\ ppc = "collect"
  /\ t \in ToFork
  /\ cpc' = [cpc EXCEPT ![<<t, clock>>] = "getDump"]
  /\ UNCHANGED <<err, files, pels, requested>>
  /\ UNCHANGED parentVars

\* fork() fails and the loop throws; the children already started are not
\* waited for.
ForkFails ==
  /\ ppc = "collect"
  /\ ToFork # {}
  /\ ppc' = "threw"
  /\ UNCHANGED <<dumpType, clock, toScan, targets, reaped, failed, pels>>
  /\ UNCHANGED childVars

AllForked == ToFork = {}

ReapWhen(j, ended, flag) ==
  /\ ppc = "collect"
  /\ AllForked
  /\ j \in PidList \ reaped
  /\ ended
  /\ reaped' = reaped \cup {j}
  /\ failed' = flag
  /\ UNCHANGED <<dumpType, ppc, clock, toScan, targets, pels>>
  /\ UNCHANGED childVars

\* Faults: waitpid with WNOHANG; the last child's status wins; a child that a
\* signal ended is waited for again.
ReapWithoutWaiting(j)  == ReapWhen(j, TRUE, failed \/ cpc[j] = "exit1")
ReapLastStatusWins(j)  == ReapWhen(j, cpc[j] \in Ended, cpc[j] = "exit1")
ReapOnlyExited(j)      == ReapWhen(j, cpc[j] \in {"exit0", "exit1"}, failed \/ cpc[j] = "exit1")

\* waitpid returns once the child has ended.  WEXITSTATUS is EXIT_FAILURE for
\* a child that called exit with it, and 0 for one that a signal ended.
Reap(j) == ReapWhen(j, cpc[j] \in Ended, failed \/ cpc[j] = "exit1")

FolderEmpty == \A n \in FileNames : files[n] = "absent"

\* The clock states still to come; a performance dump has only ON.
NextClock == IF clock = "ON" /\ dumpType # "PERFORMANCE" THEN {"OFF"} ELSE {}

\* Every child is reaped: exit if the stage is bad, else the next clock state
\* or the end of the loop.  is_empty throws when there is no folder to look at.
EndStageWhen(bad) ==
  /\ ppc = "collect"
  /\ AllForked
  /\ PidList \subseteq reaped
  /\ \/ bad /\ ppc' = "exitFailure" /\ UNCHANGED clock
     \/ ~failed /\ FolderEmpty /\ ppc' = "threw" /\ UNCHANGED clock
     \/ ~bad /\ clock' \in NextClock /\ UNCHANGED ppc
     \/ ~bad /\ NextClock = {} /\ ppc' = "done" /\ UNCHANGED clock
  /\ UNCHANGED <<dumpType, toScan, targets, reaped, failed, pels>>
  /\ UNCHANGED childVars

\* A fault: the folder is not looked at.
EndStageAnyFolder == EndStageWhen(failed)

EndStage == EndStageWhen(failed \/ FolderEmpty)

-----------------------------------------------------------------------------
(* A child. *)

Goto(j, from, to) ==
  /\ cpc[j] = from
  /\ cpc' = [cpc EXCEPT ![j] = to]

\* getDump returns data, or is refused (SBE_CHIPOP_NOT_ALLOWED: skip the chip),
\* or fails.
GetDump(j) ==
  /\ \/ Goto(j, "getDump", "open") /\ UNCHANGED err
     \/ Goto(j, "getDump", "exit0") /\ UNCHANGED err
     \/ /\ Goto(j, "getDump", "pel")
        /\ \E e \in SbeErrors : err' = [err EXCEPT ![j] = e]
  /\ UNCHANGED <<files, pels, requested>>
  /\ UNCHANGED parentVars

\* A fault: the OCMB's early return is missing.
AfterPelForAnyChip(j) == IF err[j] = "timeout" THEN "request" ELSE "primary"

\* Where the error handler goes once the PEL is there: an OCMB's is over, a
\* timeout asks for an SBE dump.
AfterPel(j) ==
  IF j[1] \in Ocmbs THEN "exit0"
  ELSE IF err[j] = "timeout" THEN "request" ELSE "primary"

\* The PEL is created (for an OCMB only if there is FFDC to put in it), or its
\* creation throws: a runtime_error ends the child with EXIT_FAILURE, another
\* exception leaves main's handler and ends it with SIGABRT.
CreatePel(j) ==
  /\ \/ /\ Goto(j, "pel", AfterPel(j))
        /\ \/ pels' = pels \cup {j}
           \/ j[1] \in Ocmbs /\ UNCHANGED pels
     \/ /\ \/ Goto(j, "pel", "exit1")
           \/ Goto(j, "pel", "killed")
        /\ pels' \in {pels, pels \cup {j}}
  /\ UNCHANGED <<err, files, requested>>
  /\ UNCHANGED parentVars

\* requestSBEDump; whatever it throws is caught.
RequestDump(j) ==
  /\ Goto(j, "request", "primary")
  /\ requested' = requested \cup {j}
  /\ UNCHANGED <<err, files, pels>>
  /\ UNCHANGED parentVars

\* The handler's end.  isPrimaryProc may throw, which counts as "not primary";
\* a hostboot dump rethrows on the primary and the child exits with failure.
CheckPrimary(j) ==
  /\ \/ Goto(j, "primary", "exit0")
        /\ ~(j[1] = Primary /\ dumpType = "HOSTBOOT")
     \/ /\ j[1] = Primary /\ dumpType = "HOSTBOOT"
        /\ \/ Goto(j, "primary", "exit1")
           \/ Goto(j, "primary", "exit0")
  /\ UNCHANGED <<err, files, pels, requested>>
  /\ UNCHANGED parentVars

\* The ofstream's constructor creates or truncates the file; if it cannot, the
\* error is reported and the child is done.
OpenFile(j) ==
  /\ \/ /\ Goto(j, "open", "write")
        /\ files' = [files EXCEPT ![FileName(j)] = "partial"]
     \/ /\ Goto(j, "open", "exit0")
        /\ UNCHANGED files
  /\ UNCHANGED <<err, pels, requested>>
  /\ UNCHANGED parentVars

\* write() takes the data into the buffer, or throws into the handler that
\* reports it; close() follows either way.
WriteData(j) ==
  /\ \/ Goto(j, "write", "flush")
     \/ Goto(j, "write", "closeOnly")
  /\ UNCHANGED <<err, files, pels, requested>>
  /\ UNCHANGED parentVars

\* close() flushes what is still in the buffer.  It stands outside the try
\* block, so a flush that fails leaves writeDumpFile as an exception.
CloseFile(j) ==
  /\ \/ /\ Goto(j, "flush", "exit0")
        /\ files' = [files EXCEPT ![FileName(j)] = "whole"]
     \/ /\ \/ Goto(j, "closeOnly", "exit0")
           \/ Goto(j, "closeOnly", "exit1")
           \/ Goto(j, "flush", "exit1")
        /\ UNCHANGED files
  /\ UNCHANGED <<err, pels, requested>>
  /\ UNCHANGED parentVars

\* A signal ends the child wherever it is.
ChildKilled(j) ==
  /\ cpc[j] \in Running
  /\ cpc' = [cpc EXCEPT ![j] = "killed"]
  /\ UNCHANGED <<err, files, pels, requested>>
  /\ UNCHANGED parentVars

-----------------------------------------------------------------------------

ParentStep ==
  \/ \E p \in Procs : SkipProc(p) \/ TakeProc(p) \/ ScanThrows(p)
  \/ ScanDone
  \/ \E t \in Chips : Fork(t)
  \/ ForkFails
  \/ \E j \in Jobs : Reap(j)
  \/ EndStage

ChildStep(j) ==
  \/ GetDump(j)
  \/ CreatePel(j)
  \/ RequestDump(j)
  \/ CheckPrimary(j)
  \/ OpenFile(j)
  \/ WriteData(j)
  \/ CloseFile(j)

\* The parent has ended and no child is left.
Finished ==
  /\ ppc \in ParentEnds
  /\ \A j \in Jobs : cpc[j] \notin Running
  /\ UNCHANGED vars

Next ==
  \/ ParentStep
  \/ \E j \in Jobs : ChildStep(j) \/ ChildKilled(j)
  \/ Finished

\* The kernel schedules every process, and the calls a child makes return
\* (getDump and requestSBEDump have timeouts of their own).
Fairness ==
  /\ WF_vars(ParentStep)
  /\ \A j \in Jobs : WF_vars(ChildStep(j))

Spec == Init /\ [][Next]_vars /\ Fairness

-----------------------------------------------------------------------------
(* Properties. *)

\* A collection that is reported complete left something in the folder and
\* waited for every child it had to start, none of which exited with failure,
\* whatever the others did (collectDump L389-408 over both stages).
CompleteIsClean ==
  ppc = "done" =>
    /\ ~FolderEmpty
    /\ \A t \in targets, k \in Clocks :
         (k = "ON" \/ dumpType # "PERFORMANCE") =>
           <<t, k>> \in reaped /\ cpc[<<t, k>>] \in {"exit0", "killed"}

\* Only a collection that threw leaves children behind: one that returned or
\* exited has reaped every child it started (L356-408).
OrphansOnlyAfterThrow ==
  ppc \in {"done", "exitFailure"} =>
    \A j \in Jobs : cpc[j] # "none" => j \in reaped /\ cpc[j] \in Ended

\* A collection that did not throw ends without orphans, and as complete only if its
\* children are clean: with Termination, one child that exits with failure makes it
\* fail (L389-408).
EndIsClean == CompleteIsClean /\ OrphansOnlyAfterThrow

\* The clocks-OFF stage begins only when no child of the clocks-ON stage runs
\* any more and none of them exited with failure; a performance dump never
\* gets there (L345-408).  Two SBE chip-ops on one chip never overlap.
StageBarrier ==
  \A t \in Chips :
    cpc[<<t, "OFF">>] # "none" =>
      /\ dumpType # "PERFORMANCE"
      /\ cpc[<<t, "ON">>] \in {"exit0", "killed"}
      /\ \A u \in targets : cpc[<<u, "ON">>] \in {"exit0", "killed"}

\* The name keeps concurrent children apart: no two of them have one file open
\* (writeDumpFile L43-53).
OneWriter ==
  \A j, k \in Jobs :
    cpc[j] \in Writing /\ cpc[k] \in Writing /\ FileName(j) = FileName(k) => j = k

\* A dump that was written completely is never truncated or written again by
\* another child, of this stage or the next (writeDumpFile L53-54 opens with
\* truncation).
WholeFilesStay ==
  [][\A n \in FileNames : files[n] = "whole" => files'[n] = "whole"]_vars

\* An SBE dump is requested only for a processor whose getDump timed out, and
\* only after the PEL the request names was logged (L178-211).
RequestsJustified ==
  \A j \in requested : j[1] \in Procs /\ err[j] = "timeout" /\ j \in pels

\* The collection ends and leaves no process running for ever.
Termination == <>(ppc \in ParentEnds /\ \A j \in Jobs : cpc[j] \notin Running)

\* The folder as the archive of DumpArchive, and the parent's place as its stage.
Folder == {n \in FileNames : files[n] # "absent"}

Stage ==
  CASE ppc = "done" -> "complete"
    [] ppc = "exitFailure" -> "failed"
    [] ppc = "threw" -> "abandoned"
    [] OTHER -> clock

Archive == INSTANCE DumpArchive WITH
  FileNames <- FileNames,
  archive <- Folder,
  stage <- Stage

\* collectDump implements DumpArchive: files of a stage arrive in that stage,
\* and a folder that was reported complete or failed is final.
ArchiveImplemented == Archive!ArchiveSpec

\* Its safety part.
ArchiveSteps ==
  Archive!ArchiveInit /\ [][Archive!ArchiveNext]_(Archive!archiveVars)

-----------------------------------------------------------------------------
(* What comments of the code say and the code does not do. *)

\* L67-68 and L88-89: "so dumps collected from other SBEs can be packaged":
\* a collection with files fails only for an SBE or PEL error.
WriteErrorKeepsCollection ==
  ppc = "exitFailure" /\ ~FolderEmpty =>
    \E j \in Jobs : cpc[j] = "exit1" /\ err[j] # "none"

=============================================================================
