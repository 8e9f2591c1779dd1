------------------------- MODULE DumpCollectProofs -------------------------
(***************************************************************************)
(* DumpCollect for any chips, any target list and any interleaving.  The    *)
(* argument has three invariants on top of the type invariant: where the    *)
(* stages are (StageInv), what a child that requests a dump has done        *)
(* (RequestInv), and which child a file of the folder belongs to (FileInv). *)
(***************************************************************************)
EXTENDS DumpCollect, TLAPS

\* What a step is, one action at a time, for the proofs that go through them.
LEMMA StepCases ==
  ASSUME [Next]_vars
  PROVE  \/ \E p \in Procs : SkipProc(p)
         \/ \E p \in Procs : TakeProc(p)
         \/ \E p \in Procs : ScanThrows(p)
         \/ ScanDone
         \/ \E t \in Chips : Fork(t)
         \/ ForkFails
         \/ \E j \in Jobs : Reap(j)
         \/ EndStage
         \/ \E j \in Jobs : ChildStep(j) \/ ChildKilled(j)
         \/ UNCHANGED vars
BY DEF Next, ParentStep, Finished

-----------------------------------------------------------------------------
(* Types. *)

LEMMA NameTyped ==
  ASSUME NEW j \in Jobs
  PROVE  FileName(j) \in FileNames
<1>1. j[1] \in Chips /\ j[2] \in Clocks
  BY DEF Jobs
<1>2. Index[j[1]] % PosModulus \in 0 .. PosModulus - 1
  BY <1>1, ChipsAssumption, PositionsAssumption
<1>. QED
  BY <1>1, <1>2 DEF FileName, NameWith, Kind, FileNames

\* Two children never share a file name: positions fit in the name's byte.
LEMMA NameInjective ==
  ASSUME NEW j \in Jobs, NEW k \in Jobs, FileName(j) = FileName(k)
  PROVE  j = k
<1>1. /\ j[1] \in Chips /\ j[2] \in Clocks /\ j = <<j[1], j[2]>>
      /\ k[1] \in Chips /\ k[2] \in Clocks /\ k = <<k[1], k[2]>>
  BY DEF Jobs
<1>2. /\ j[2] = k[2]
      /\ Kind(j[1]) = Kind(k[1])
      /\ Index[j[1]] % PosModulus = Index[k[1]] % PosModulus
  BY DEF FileName, NameWith
<1>3. j[1] \in Procs <=> k[1] \in Procs
  BY <1>2 DEF Kind
<1>4. j[1] = k[1]
  BY <1>1, <1>2, <1>3, PositionsAssumption
<1>. QED
  BY <1>1, <1>2, <1>4

\* Every variable keeps its type, whatever the processes do.
THEOREM TypeCorrect == Spec => []TypeOK
<1>1. Init => TypeOK
  BY DEF Init, TypeOK, Clocks, Jobs
<1>2. ASSUME TypeOK, [Next]_vars
      PROVE  TypeOK'
  <2>. USE <1>2 DEF TypeOK
  <2>1. CASE \E p \in Procs : SkipProc(p)
    BY <2>1 DEF SkipProc, childVars
  <2>2. CASE \E p \in Procs : TakeProc(p)
    <3>1. PICK p \in Procs : TakeProc(p)
      BY <2>2
    <3>2. \A os \in OcmbChoices(p) : os \subseteq Chips
      BY DEF OcmbChoices, Chips
    <3>3. targets' \subseteq Chips
      BY <3>1, <3>2 DEF TakeProc, Chips
    <3>4. pels' \subseteq Chips \X ({"stop"} \cup Clocks)
      BY <3>1 DEF TakeProc, Chips
    <3>. QED
      BY <3>1, <3>3, <3>4 DEF TakeProc, childVars
  <2>3. CASE \E p \in Procs : ScanThrows(p)
    BY <2>3 DEF ScanThrows, childVars, ParentEnds, Chips
  <2>4. CASE ScanDone
    BY <2>4 DEF ScanDone, childVars
  <2>5. CASE \E t \in Chips : Fork(t)
    BY <2>5 DEF Fork, parentVars, Jobs, Running
  <2>6. CASE ForkFails
    BY <2>6 DEF ForkFails, childVars, ParentEnds
  <2>7. CASE \E j \in Jobs : Reap(j)
    BY <2>7 DEF Reap, ReapWhen, childVars
  <2>8. CASE EndStage
    BY <2>8 DEF EndStage, EndStageWhen, childVars, ParentEnds, NextClock, Clocks
  <2>9. CASE \E j \in Jobs : ChildStep(j) \/ ChildKilled(j)
    <3>1. PICK j \in Jobs : ChildStep(j) \/ ChildKilled(j)
      BY <2>9
    <3>2. j \in Chips \X ({"stop"} \cup Clocks)
      BY DEF Jobs
    <3>3. CASE GetDump(j)
      BY <3>3 DEF GetDump, Goto, parentVars, Running, Ended
    <3>4. CASE CreatePel(j)
      BY <3>4, <3>2 DEF CreatePel, AfterPel, Goto, parentVars, Running, Ended
    <3>5. CASE RequestDump(j)
      BY <3>5 DEF RequestDump, Goto, parentVars, Running
    <3>6. CASE CheckPrimary(j)
      BY <3>6 DEF CheckPrimary, Goto, parentVars, Ended
    <3>7. CASE OpenFile(j)
      BY <3>7, NameTyped DEF OpenFile, Goto, parentVars, Running, Writing, Ended
    <3>8. CASE WriteData(j)
      BY <3>8 DEF WriteData, Goto, parentVars, Running, Writing
    <3>9. CASE CloseFile(j)
      BY <3>9, NameTyped DEF CloseFile, Goto, parentVars, Ended
    <3>10. CASE ChildKilled(j)
      BY <3>10 DEF ChildKilled, parentVars, Ended
    <3>. QED
      BY <3>1, <3>3, <3>4, <3>5, <3>6, <3>7, <3>8, <3>9, <3>10 DEF ChildStep
  <2>10. CASE UNCHANGED vars
    BY <2>10 DEF vars
  <2>. QED
    BY <1>2, <2>1, <2>2, <2>3, <2>4, <2>5, <2>6, <2>7, <2>8, <2>9, <2>10, StepCases
<1>. QED
  BY <1>1, <1>2, PTL DEF Spec

-----------------------------------------------------------------------------
(* Stages. *)

Clean == {"exit0", "killed"}

\* Before the first stage nothing was forked; in the ON stage no OFF child
\* exists; the OFF stage stands on a clean ON stage; a child is only ever
\* forked for a target, and a reaped one has ended and its failure is recorded.
StageInv ==
  /\ ppc = "scan" => (\A j \in Jobs : cpc[j] = "none") /\ reaped = {} /\ clock = "ON"
  /\ \A j \in Jobs : cpc[j] # "none" => j[1] \in targets
  /\ \A j \in reaped : cpc[j] \in Ended /\ (cpc[j] = "exit1" => failed)
  /\ clock = "ON" => \A t \in Chips : cpc[<<t, "OFF">>] = "none"
  /\ clock = "OFF" =>
       /\ dumpType # "PERFORMANCE"
       /\ \A t \in targets : <<t, "ON">> \in reaped /\ cpc[<<t, "ON">>] \in Clean
  /\ ppc \in {"done", "exitFailure"} => \A j \in Jobs : cpc[j] # "none" => j \in reaped
  /\ ppc = "done" =>
       /\ ~FolderEmpty
       /\ \A t \in targets : <<t, clock>> \in reaped /\ cpc[<<t, clock>>] \in Clean
       /\ dumpType # "PERFORMANCE" => clock = "OFF"

\* A child's own step disturbs neither the stages nor a child that has ended.
LEMMA ChildStepEffect ==
  ASSUME TypeOK, NEW j \in Jobs, ChildStep(j) \/ ChildKilled(j)
  PROVE  /\ cpc[j] \in Running
         /\ \E s \in Running \cup Ended : cpc' = [cpc EXCEPT ![j] = s]
         /\ UNCHANGED parentVars
<1>1. CASE GetDump(j)
  BY <1>1 DEF GetDump, Goto, Running, Ended, TypeOK
<1>2. CASE CreatePel(j)
  BY <1>2 DEF CreatePel, AfterPel, Goto, Running, Ended, TypeOK
<1>3. CASE RequestDump(j)
  BY <1>3 DEF RequestDump, Goto, Running, Ended, TypeOK
<1>4. CASE CheckPrimary(j)
  BY <1>4 DEF CheckPrimary, Goto, Running, Ended, TypeOK
<1>5. CASE OpenFile(j)
  BY <1>5 DEF OpenFile, Goto, Running, Ended, Writing, TypeOK
<1>6. CASE WriteData(j)
  BY <1>6 DEF WriteData, Goto, Running, Ended, Writing, TypeOK
<1>7. CASE CloseFile(j)
  BY <1>7 DEF CloseFile, Goto, Running, Ended, Writing, TypeOK
<1>8. CASE ChildKilled(j)
  BY <1>8 DEF ChildKilled, Running, Ended, TypeOK
<1>. QED
  BY <1>1, <1>2, <1>3, <1>4, <1>5, <1>6, <1>7, <1>8 DEF ChildStep

\* No step empties the folder again.
LEMMA FolderStaysFilled ==
  ASSUME TypeOK, [Next]_vars, ~FolderEmpty
  PROVE  ~FolderEmpty'
<1>1. PICK n \in FileNames : files[n] # "absent"
  BY DEF FolderEmpty
<1>2. files'[n] # "absent"
  <2>1. CASE \E j \in Jobs : OpenFile(j) \/ CloseFile(j)
    <3>1. PICK j \in Jobs : OpenFile(j) \/ CloseFile(j)
      BY <2>1
    <3>2. \/ UNCHANGED files
          \/ files' = [files EXCEPT ![FileName(j)] = "partial"]
          \/ files' = [files EXCEPT ![FileName(j)] = "whole"]
      BY <3>1 DEF OpenFile, CloseFile
    <3>. QED
      BY <1>1, <3>2, NameTyped DEF TypeOK
  <2>2. CASE ~ \E j \in Jobs : OpenFile(j) \/ CloseFile(j)
    <3>1. UNCHANGED files
      BY <2>2, StepCases
      DEF SkipProc, TakeProc, ScanThrows, ScanDone, Fork, ForkFails, Reap, ReapWhen, EndStage,
          EndStageWhen, ChildStep, GetDump, CreatePel, RequestDump, CheckPrimary, WriteData,
          ChildKilled, childVars, vars
    <3>. QED
      BY <1>1, <3>1
  <2>. QED
    BY <2>1, <2>2
<1>. QED
  BY <1>1, <1>2 DEF FolderEmpty

LEMMA StageInvStep == TypeOK /\ StageInv /\ [Next]_vars => StageInv'
<1>. SUFFICES ASSUME TypeOK, StageInv, [Next]_vars
              PROVE  StageInv'
  OBVIOUS
<1>0. ~FolderEmpty => ~FolderEmpty'
  BY FolderStaysFilled
<1>1. CASE \E p \in Procs : SkipProc(p)
  BY <1>1 DEF SkipProc, childVars, StageInv, FolderEmpty
<1>2. CASE \E p \in Procs : TakeProc(p)
  BY <1>2 DEF TakeProc, childVars, StageInv, FolderEmpty
<1>3. CASE \E p \in Procs : ScanThrows(p)
  BY <1>3 DEF ScanThrows, childVars, StageInv, FolderEmpty
<1>4. CASE ScanDone
  BY <1>4 DEF ScanDone, childVars, StageInv, FolderEmpty
<1>5. CASE \E t \in Chips : Fork(t)
  <2>1. PICK t \in Chips : Fork(t)
    BY <1>5
  <2>2. /\ t \in targets /\ ppc = "collect" /\ clock \in Clocks
        /\ cpc[<<t, clock>>] = "none"
        /\ <<t, clock>> \in Jobs
        /\ cpc' = [cpc EXCEPT ![<<t, clock>>] = "getDump"]
        /\ UNCHANGED parentVars
    BY <2>1 DEF Fork, ToFork, TypeOK, Jobs
  <2>3. <<t, clock>> \notin reaped
    BY <2>2 DEF StageInv, Ended
  <2>4. \A j \in Jobs : j # <<t, clock>> => cpc'[j] = cpc[j]
    BY <2>2 DEF TypeOK
  <2>5. \A j \in reaped : j \in Jobs /\ cpc'[j] = cpc[j]
    BY <2>3, <2>4 DEF TypeOK
  <2>6. clock = "ON" => \A u \in Chips : cpc'[<<u, "OFF">>] = "none"
    BY <2>2, <2>4 DEF StageInv, Jobs, Clocks
  <2>7. clock = "OFF" => \A u \in targets : <<u, "ON">> \in reaped /\ cpc'[<<u, "ON">>] \in Clean
    BY <2>5 DEF StageInv
  <2>8. \A j \in Jobs : cpc'[j] # "none" => j[1] \in targets
    BY <2>2, <2>4 DEF StageInv
  <2>. QED
    BY <2>2, <2>5, <2>6, <2>7, <2>8 DEF StageInv, parentVars
<1>6. CASE ForkFails
  BY <1>6 DEF ForkFails, childVars, StageInv, FolderEmpty
<1>7. CASE \E j \in Jobs : Reap(j)
  BY <1>7 DEF Reap, ReapWhen, childVars, StageInv, FolderEmpty, PidList, TypeOK
<1>8. CASE EndStage
  <2>1. /\ ppc = "collect" /\ PidList \subseteq reaped
        /\ \A t \in targets : <<t, clock>> \in reaped
        /\ UNCHANGED <<dumpType, targets, reaped, failed, cpc, files>>
    BY <1>8 DEF EndStage, EndStageWhen, PidList, childVars
  <2>2. ~failed => \A j \in reaped : cpc[j] \in Clean
    BY DEF StageInv, Ended, Clean
  <2>3. \A j \in Jobs : cpc[j] # "none" => j \in reaped
    <3>1. SUFFICES ASSUME NEW j \in Jobs, cpc[j] # "none"
                   PROVE  j \in reaped
      OBVIOUS
    <3>2. j[1] \in Chips /\ j[2] \in {"ON", "OFF"} /\ j = <<j[1], j[2]>> /\ j[1] \in targets
      BY <3>1 DEF Jobs, Clocks, StageInv
    <3>3. CASE j[2] = clock
      BY <3>2, <3>3, <2>1
    <3>4. CASE j[2] # clock
      BY <3>1, <3>2, <3>4 DEF StageInv, TypeOK, Clocks
    <3>. QED
      BY <3>3, <3>4
  <2>4. CASE ppc' \in {"exitFailure", "threw"} /\ UNCHANGED clock
    BY <2>1, <2>3, <2>4 DEF StageInv
  <2>5. CASE ~failed /\ ~FolderEmpty /\ clock' \in NextClock /\ UNCHANGED ppc
    <3>1. clock = "ON" /\ clock' = "OFF" /\ dumpType # "PERFORMANCE"
      BY <2>5 DEF NextClock
    <3>. QED
      BY <2>1, <2>2, <2>5, <3>1 DEF StageInv
  <2>6. CASE ~failed /\ ~FolderEmpty /\ NextClock = {} /\ ppc' = "done" /\ UNCHANGED clock
    <3>1. dumpType # "PERFORMANCE" => clock = "OFF"
      BY <2>6 DEF NextClock, TypeOK, Clocks
    <3>2. StageInv!7'
      BY <1>0, <2>1, <2>2, <2>6, <3>1
    <3>. QED
      BY <2>1, <2>3, <2>6, <3>2 DEF StageInv
  <2>. QED
    BY <1>8, <2>4, <2>5, <2>6 DEF EndStage, EndStageWhen
<1>9. CASE \E j \in Jobs : ChildStep(j) \/ ChildKilled(j)
  <2>1. PICK j \in Jobs : ChildStep(j) \/ ChildKilled(j)
    BY <1>9
  <2>2. /\ cpc[j] \in Running
        /\ \E s \in Running \cup Ended : cpc' = [cpc EXCEPT ![j] = s]
        /\ UNCHANGED parentVars
    BY <2>1, ChildStepEffect
  <2>3. \A k \in Jobs : k # j => cpc'[k] = cpc[k]
    BY <2>2 DEF TypeOK
  <2>4. j \notin reaped /\ cpc[j] # "none"
    BY <2>2 DEF StageInv, Running, Writing, Ended
  <2>5. \A k \in reaped : cpc'[k] = cpc[k]
    BY <2>3, <2>4 DEF TypeOK
  <2>6. \A k \in Jobs : cpc'[k] = "none" <=> cpc[k] = "none"
    BY <2>2, <2>3 DEF TypeOK, Running, Writing, Ended
  <2>7. \A t \in Chips : <<t, "OFF">> \in Jobs
    BY DEF Jobs, Clocks
  <2>. QED
    BY <1>0, <2>2, <2>4, <2>5, <2>6, <2>7 DEF StageInv, parentVars
<1>10. CASE UNCHANGED vars
  BY <1>10 DEF vars, StageInv, FolderEmpty
<1>. QED
  BY <1>1, <1>2, <1>3, <1>4, <1>5, <1>6, <1>7, <1>8, <1>9, <1>10, StepCases

LEMMA StageInvHolds == Spec => []StageInv
<1>1. Init => StageInv
  BY DEF Init, StageInv, Jobs, Clocks
<1>. QED
  BY <1>1, StageInvStep, TypeCorrect, PTL DEF Spec

\* A collection reported complete has a folder with something in it and no
\* child of any stage that it did not wait for or that exited with failure.
THEOREM Completeness == Spec => []CompleteIsClean
<1>1. TypeOK /\ StageInv => CompleteIsClean
  <2>. SUFFICES ASSUME TypeOK, StageInv, ppc = "done", NEW t \in targets, NEW k \in Clocks,
                       k = "ON" \/ dumpType # "PERFORMANCE"
                PROVE  <<t, k>> \in reaped /\ cpc[<<t, k>>] \in {"exit0", "killed"}
    BY DEF CompleteIsClean, StageInv
  <2>1. CASE k = clock
    BY <2>1 DEF StageInv, Clean
  <2>2. CASE k # clock
    <3>1. k = "ON" /\ clock = "OFF"
      BY <2>2 DEF StageInv, Clocks, TypeOK
    <3>. QED
      BY <3>1 DEF StageInv, Clean
  <2>. QED
    BY <2>1, <2>2
<1>. QED
  BY <1>1, TypeCorrect, StageInvHolds, PTL

\* The clocks-OFF stage stands on a clocks-ON stage that is over and clean, so
\* two children never work on one chip at the same time.
THEOREM Barrier == Spec => []StageBarrier
<1>1. TypeOK /\ StageInv => StageBarrier
  <2>. SUFFICES ASSUME TypeOK, StageInv, NEW t \in Chips, cpc[<<t, "OFF">>] # "none"
                PROVE  /\ dumpType # "PERFORMANCE"
                       /\ cpc[<<t, "ON">>] \in {"exit0", "killed"}
                       /\ \A u \in targets : cpc[<<u, "ON">>] \in {"exit0", "killed"}
    BY DEF StageBarrier
  <2>1. clock = "OFF"
    BY DEF StageInv, TypeOK, Clocks
  <2>2. t \in targets
    BY DEF StageInv, Jobs, Clocks
  <2>. QED
    BY <2>1, <2>2 DEF StageInv, Clean
<1>. QED
  BY <1>1, TypeCorrect, StageInvHolds, PTL

\* A collection that returned or exited has no child left.
THEOREM NoOrphans == Spec => []OrphansOnlyAfterThrow
<1>1. StageInv => OrphansOnlyAfterThrow
  BY DEF StageInv, OrphansOnlyAfterThrow
<1>. QED
  BY <1>1, StageInvHolds, PTL

\* A collection that did not throw has ended cleanly in both respects.
THEOREM EndsClean == Spec => []EndIsClean
<1>1. CompleteIsClean /\ OrphansOnlyAfterThrow => EndIsClean
  BY DEF EndIsClean
<1>. QED
  BY <1>1, Completeness, NoOrphans, PTL

-----------------------------------------------------------------------------
(* Files. *)

\* A file exists only once the child it is named after has opened it, and is
\* whole only when that child has ended.
FileInv ==
  \A j \in Jobs :
    /\ files[FileName(j)] # "absent" => cpc[j] \in Writing \cup Ended
    /\ files[FileName(j)] = "whole" => cpc[j] \in Ended

\* What a child's step does to the folder: it opens its file, or finishes it,
\* or leaves every file alone.
LEMMA FileEffect ==
  ASSUME TypeOK, NEW j \in Jobs, ChildStep(j) \/ ChildKilled(j)
  PROVE  \/ /\ cpc[j] = "open" /\ cpc' = [cpc EXCEPT ![j] = "write"]
            /\ files' = [files EXCEPT ![FileName(j)] = "partial"]
         \/ /\ cpc[j] = "flush" /\ cpc' = [cpc EXCEPT ![j] = "exit0"]
            /\ files' = [files EXCEPT ![FileName(j)] = "whole"]
         \/ /\ UNCHANGED files
            /\ cpc[j] \in Writing => cpc'[j] \in Writing \cup Ended
            /\ cpc[j] \notin Ended
            /\ \A k \in Jobs : k # j => cpc'[k] = cpc[k]
<1>1. CASE GetDump(j)
  BY <1>1 DEF GetDump, Goto, Writing, Ended, TypeOK
<1>2. CASE CreatePel(j)
  BY <1>2 DEF CreatePel, AfterPel, Goto, Writing, Ended, TypeOK
<1>3. CASE RequestDump(j)
  BY <1>3 DEF RequestDump, Goto, Writing, Ended, TypeOK
<1>4. CASE CheckPrimary(j)
  BY <1>4 DEF CheckPrimary, Goto, Writing, Ended, TypeOK
<1>5. CASE OpenFile(j)
  BY <1>5 DEF OpenFile, Goto, Ended, Writing, TypeOK
<1>6. CASE WriteData(j)
  BY <1>6 DEF WriteData, Goto, Ended, Writing, TypeOK
<1>7. CASE CloseFile(j)
  BY <1>7 DEF CloseFile, Goto, Ended, Writing, TypeOK
<1>8. CASE ChildKilled(j)
  BY <1>8 DEF ChildKilled, Running, Ended, Writing, TypeOK
<1>. QED
  BY <1>1, <1>2, <1>3, <1>4, <1>5, <1>6, <1>7, <1>8 DEF ChildStep

\* A step that is not a child's leaves the folder alone, and moves no child
\* but to start it.
LEMMA ParentStepEffect ==
  ASSUME TypeOK, [Next]_vars, ~ \E j \in Jobs : ChildStep(j) \/ ChildKilled(j)
  PROVE  /\ UNCHANGED <<err, files, requested>>
         /\ pels \subseteq pels'
         /\ \A j \in Jobs : cpc'[j] = cpc[j] \/ (cpc[j] = "none" /\ cpc'[j] = "getDump")
<1>1. CASE \E t \in Chips : Fork(t)
  <2>1. PICK t \in Chips : Fork(t)
    BY <1>1
  <2>2. clock \in Clocks /\ <<t, clock>> \in Jobs
    BY DEF TypeOK, Jobs
  <2>. QED
    BY <2>1, <2>2 DEF Fork, ToFork, TypeOK
<1>2. CASE ~ \E t \in Chips : Fork(t)
  BY <1>2, StepCases
  DEF SkipProc, TakeProc, ScanThrows, ScanDone, ForkFails, Reap, ReapWhen, EndStage,
      EndStageWhen, childVars, vars
<1>. QED
  BY <1>1, <1>2

LEMMA FileInvStep == TypeOK /\ FileInv /\ [Next]_vars => FileInv'
<1>. SUFFICES ASSUME TypeOK, FileInv, [Next]_vars, NEW k \in Jobs
              PROVE  /\ files'[FileName(k)] # "absent" => cpc'[k] \in Writing \cup Ended
                     /\ files'[FileName(k)] = "whole" => cpc'[k] \in Ended
  BY DEF FileInv
<1>1. CASE \E j \in Jobs : ChildStep(j) \/ ChildKilled(j)
  <2>1. PICK j \in Jobs : ChildStep(j) \/ ChildKilled(j)
    BY <1>1
  <2>2. CASE k = j
    BY <2>1, <2>2, FileEffect, NameTyped DEF FileInv, TypeOK, Writing, Ended
  <2>3. CASE k # j
    <3>1. FileName(k) # FileName(j)
      BY <2>3, NameInjective
    <3>2. cpc'[k] = cpc[k] /\ files'[FileName(k)] = files[FileName(k)]
      BY <2>1, <2>3, <3>1, FileEffect, NameTyped DEF TypeOK
    <3>. QED
      BY <3>2 DEF FileInv
  <2>. QED
    BY <2>2, <2>3
<1>2. CASE ~ \E j \in Jobs : ChildStep(j) \/ ChildKilled(j)
  <2>1. UNCHANGED files /\ (cpc'[k] = cpc[k] \/ cpc[k] = "none")
    BY <1>2, ParentStepEffect
  <2>. QED
    BY <2>1 DEF FileInv, Writing, Ended
<1>. QED
  BY <1>1, <1>2

LEMMA FileInvHolds == Spec => []FileInv
<1>1. Init => FileInv
  BY NameTyped DEF Init, FileInv
<1>. QED
  BY <1>1, FileInvStep, TypeCorrect, PTL DEF Spec

\* No two children ever have one file open.
THEOREM OneWriterPerFile == Spec => []OneWriter
<1>1. OneWriter
  BY NameInjective DEF OneWriter
<1>. QED
  BY <1>1, PTL

\* A complete dump in the folder is never overwritten.
THEOREM WholeFilesAreFinal == Spec => WholeFilesStay
<1>1. ASSUME TypeOK, FileInv, [Next]_vars, NEW n \in FileNames, files[n] = "whole"
      PROVE  files'[n] = "whole"
  <2>1. CASE \E j \in Jobs : ChildStep(j) \/ ChildKilled(j)
    <3>1. PICK j \in Jobs : ChildStep(j) \/ ChildKilled(j)
      BY <2>1
    <3>2. CASE n = FileName(j)
      BY <1>1, <3>1, <3>2, FileEffect DEF FileInv, TypeOK, Ended
    <3>3. CASE n # FileName(j)
      BY <1>1, <3>1, <3>3, FileEffect, NameTyped DEF TypeOK
    <3>. QED
      BY <3>2, <3>3
  <2>2. CASE ~ \E j \in Jobs : ChildStep(j) \/ ChildKilled(j)
    BY <1>1, <2>2, ParentStepEffect
  <2>. QED
    BY <2>1, <2>2
<1>2. TypeOK /\ FileInv /\ [Next]_vars =>
        [\A n \in FileNames : files[n] = "whole" => files'[n] = "whole"]_vars
  BY <1>1
<1>. QED
  BY <1>2, TypeCorrect, FileInvHolds, PTL DEF Spec, WholeFilesStay

-----------------------------------------------------------------------------
(* Requests. *)

\* A child that is about to request a dump, or has, is a processor's, timed out
\* and has its PEL; once it has requested, getDump is behind it.
RequestInv ==
  /\ \A j \in Jobs :
       cpc[j] = "request" \/ j \in requested =>
         j[1] \in Procs /\ err[j] = "timeout" /\ j \in pels
  /\ \A j \in requested : cpc[j] \notin {"none", "getDump"}

\* What a child's step does to what it knows and logged.
LEMMA RequestEffect ==
  ASSUME TypeOK, NEW j \in Jobs, ChildStep(j) \/ ChildKilled(j)
  PROVE  /\ pels \subseteq pels'
         /\ requested' \in {requested, requested \cup {j}}
         /\ requested' # requested => cpc[j] = "request"
         /\ cpc[j] # "getDump" => UNCHANGED err
         /\ \A k \in Jobs : k # j => err'[k] = err[k] /\ cpc'[k] = cpc[k]
         /\ cpc'[j] \notin {"none", "getDump"}
         /\ cpc'[j] = "request" => j \in pels' /\ j[1] \in Procs /\ err'[j] = "timeout"
<1>0. j[1] \in Procs \/ j[1] \in Ocmbs
  BY DEF Jobs, Chips
<1>1. CASE GetDump(j)
  BY <1>1 DEF GetDump, Goto, TypeOK
<1>2. CASE CreatePel(j)
  BY <1>0, <1>2 DEF CreatePel, AfterPel, Goto, TypeOK
<1>3. CASE RequestDump(j)
  BY <1>3 DEF RequestDump, Goto, TypeOK
<1>4. CASE CheckPrimary(j)
  BY <1>4 DEF CheckPrimary, Goto, TypeOK
<1>5. CASE OpenFile(j)
  BY <1>5 DEF OpenFile, Goto, TypeOK
<1>6. CASE WriteData(j)
  BY <1>6 DEF WriteData, Goto, TypeOK
<1>7. CASE CloseFile(j)
  BY <1>7 DEF CloseFile, Goto, TypeOK
<1>8. CASE ChildKilled(j)
  BY <1>8 DEF ChildKilled, TypeOK
<1>. QED
  BY <1>1, <1>2, <1>3, <1>4, <1>5, <1>6, <1>7, <1>8 DEF ChildStep

LEMMA RequestInvStep == TypeOK /\ RequestInv /\ [Next]_vars => RequestInv'
<1>. SUFFICES ASSUME TypeOK, RequestInv, [Next]_vars
              PROVE  RequestInv'
  OBVIOUS
<1>1. CASE \E j \in Jobs : ChildStep(j) \/ ChildKilled(j)
  <2>1. PICK j \in Jobs : ChildStep(j) \/ ChildKilled(j)
    BY <1>1
  <2>2. ASSUME NEW k \in Jobs, cpc'[k] = "request" \/ k \in requested'
        PROVE  k[1] \in Procs /\ err'[k] = "timeout" /\ k \in pels'
    <3>1. CASE k # j
      BY <2>1, <2>2, <3>1, RequestEffect DEF RequestInv
    <3>2. CASE k = j /\ cpc'[k] = "request"
      BY <2>1, <3>2, RequestEffect
    <3>3. CASE k = j /\ k \in requested'
      BY <2>1, <3>3, RequestEffect DEF RequestInv
    <3>. QED
      BY <2>2, <3>1, <3>2, <3>3
  <2>3. ASSUME NEW k \in requested'
        PROVE  cpc'[k] \notin {"none", "getDump"}
    BY <2>1, <2>3, RequestEffect DEF RequestInv, TypeOK
  <2>. QED
    BY <2>2, <2>3 DEF RequestInv
<1>2. CASE ~ \E j \in Jobs : ChildStep(j) \/ ChildKilled(j)
  BY <1>2, ParentStepEffect DEF RequestInv, TypeOK
<1>. QED
  BY <1>1, <1>2

\* Every SBE dump requested is for a processor that timed out and has its PEL.
THEOREM RequestsAreJustified == Spec => []RequestsJustified
<1>1. Init => RequestInv
  BY DEF Init, RequestInv
<1>2. TypeOK /\ RequestInv => RequestsJustified
  BY DEF RequestInv, RequestsJustified, TypeOK
<1>. QED
  BY <1>1, <1>2, RequestInvStep, TypeCorrect, PTL DEF Spec

-----------------------------------------------------------------------------
(* The archive. *)

\* A child that runs belongs to the clock state being collected, or the parent has
\* thrown.
LEMMA RunsInItsStage ==
  ASSUME TypeOK, StageInv, NEW j \in Jobs, cpc[j] \in Running
  PROVE  Stage \in {j[2], "abandoned"}
<1>1. cpc[j] # "none" /\ cpc[j] \notin Ended
  BY DEF Running, Writing, Ended
<1>2. j \notin reaped /\ j[1] \in targets
  BY <1>1 DEF StageInv
<1>3. j[1] \in Chips /\ j[2] \in Clocks /\ j = <<j[1], j[2]>>
  BY DEF Jobs
<1>4. ppc \in {"collect", "threw"}
  BY <1>1, <1>2 DEF StageInv, TypeOK, ParentEnds
<1>5. clock = j[2]
  BY <1>1, <1>2, <1>3 DEF StageInv, TypeOK, Clocks
<1>. QED
  BY <1>4, <1>5 DEF Stage

\* A child's step adds its file to the archive, or is a stutter.
LEMMA ChildStepArchives ==
  ASSUME TypeOK, StageInv, NEW j \in Jobs, ChildStep(j) \/ ChildKilled(j)
  PROVE  [Archive!ArchiveNext]_(Archive!archiveVars)
<1>1. cpc[j] \in Running /\ Stage' = Stage
  BY ChildStepEffect DEF Stage, parentVars
<1>2. FileName(j) \in FileNames /\ FileName(j).clock = j[2]
  BY NameTyped DEF FileName, NameWith
<1>3. CASE Folder' = Folder \cup {FileName(j)}
  <2>1. Archive!Add(FileName(j))
    BY <1>1, <1>2, <1>3, RunsInItsStage DEF Archive!Add
  <2>. QED
    BY <1>2, <2>1 DEF Archive!ArchiveNext
<1>4. CASE UNCHANGED files
  BY <1>1, <1>4 DEF Archive!archiveVars, Folder
<1>5. ASSUME NEW v \in {"partial", "whole"}, files' = [files EXCEPT ![FileName(j)] = v]
      PROVE  Folder' = Folder \cup {FileName(j)}
  BY <1>2, <1>5 DEF Folder, TypeOK
<1>. QED
  BY <1>3, <1>4, <1>5, FileEffect

\* The end of a stage advances the archive, completes it or gives it up.
LEMMA EndStageArchives ==
  ASSUME TypeOK, EndStage
  PROVE  Archive!ArchiveNext
<1>1. ppc = "collect" /\ UNCHANGED files
  BY DEF EndStage, EndStageWhen, childVars
<1>2. Folder' = Folder /\ Stage = clock /\ Stage \in {"ON", "OFF"}
  BY <1>1 DEF Folder, Stage, TypeOK, Clocks
<1>3. CASE ppc' \in {"exitFailure", "threw"}
  <2>1. Stage' \in {"failed", "abandoned"}
    BY <1>3 DEF Stage
  <2>. QED
    BY <1>2, <2>1 DEF Archive!ArchiveNext, Archive!GiveUp, Archive!Clocks
<1>4. CASE ~FolderEmpty /\ clock' \in NextClock /\ UNCHANGED ppc
  <2>1. clock = "ON" /\ clock' = "OFF" /\ Folder # {}
    BY <1>4 DEF NextClock, FolderEmpty, Folder
  <2>2. Stage' = "OFF"
    BY <1>1, <1>4, <2>1 DEF Stage
  <2>. QED
    BY <1>2, <2>1, <2>2 DEF Archive!ArchiveNext, Archive!Advance
<1>5. CASE ~FolderEmpty /\ ppc' = "done"
  <2>1. Stage' = "complete" /\ Folder # {}
    BY <1>5 DEF Stage, FolderEmpty, Folder
  <2>. QED
    BY <1>2, <2>1 DEF Archive!ArchiveNext, Archive!Complete, Archive!Clocks
<1>. QED
  BY <1>3, <1>4, <1>5 DEF EndStage, EndStageWhen

\* A parent that throws gives the archive up.
LEMMA ThrowArchives ==
  ASSUME TypeOK, ppc \in {"scan", "collect"}, ppc' = "threw", UNCHANGED files
  PROVE  Archive!ArchiveNext
<1>1. Stage \in {"ON", "OFF"} /\ Stage' = "abandoned" /\ Folder' = Folder
  BY DEF Stage, Folder, TypeOK, Clocks
<1>. QED
  BY <1>1 DEF Archive!ArchiveNext, Archive!GiveUp, Archive!Clocks

\* collectDump implements the safety part of DumpArchive: the files of a clock state
\* arrive while it is collected, no stage is left with an empty folder, and a folder
\* that was reported complete or failed is final.
THEOREM ImplementsArchive == Spec => ArchiveSteps
<1>1. Init => Archive!ArchiveInit
  BY DEF Init, Archive!ArchiveInit, Stage, Folder
<1>2. ASSUME TypeOK, StageInv, [Next]_vars
      PROVE  [Archive!ArchiveNext]_(Archive!archiveVars)
  <2>1. CASE \E j \in Jobs : ChildStep(j) \/ ChildKilled(j)
    BY <1>2, <2>1, ChildStepArchives
  <2>2. CASE EndStage
    BY <1>2, <2>2, EndStageArchives
  <2>3. CASE (\E p \in Procs : ScanThrows(p)) \/ ForkFails
    BY <1>2, <2>3, ThrowArchives DEF ScanThrows, ForkFails, childVars
  <2>4. CASE ScanDone
    BY <2>4 DEF ScanDone, childVars, Archive!archiveVars, Folder, Stage
  <2>5. CASE UNCHANGED <<ppc, clock, files>>
    BY <2>5 DEF Archive!archiveVars, Folder, Stage
  <2>6. CASE \/ \E p \in Procs : SkipProc(p) \/ TakeProc(p)
             \/ \E t \in Chips : Fork(t)
             \/ \E j \in Jobs : Reap(j)
             \/ UNCHANGED vars
    BY <2>5, <2>6 DEF SkipProc, TakeProc, Fork, Reap, ReapWhen, childVars, parentVars, vars
  <2>. QED
    BY <1>2, <2>1, <2>2, <2>3, <2>4, <2>6, StepCases
<1>. QED
  BY <1>1, <1>2, TypeCorrect, StageInvHolds, PTL DEF Spec, ArchiveSteps

=============================================================================
