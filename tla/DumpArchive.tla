---------------------------- MODULE DumpArchive ----------------------------
(***************************************************************************)
(* What the dump collection promises to the packaging that follows it, with *)
(* no processes in it: a folder that is filled in stages.  A file of a      *)
(* clock state is added only while that state is being collected, a stage   *)
(* is left only with something in the folder, and the folder of a           *)
(* collection that completed or failed changes no more.  Only a collection  *)
(* that was abandoned (collectDump threw) may still see files arrive, from  *)
(* the processes it left behind.                                            *)
(***************************************************************************)
CONSTANT
  FileNames       \* the names a dump file can have: records with a clock field

VARIABLES
  stage,          \* the clock state being collected, or how the collection ended
  archive         \* the files in the folder

archiveVars == <<stage, archive>>

Clocks == {"ON", "OFF"}
Ends   == {"complete", "failed", "abandoned"}

ArchiveTypeOK ==
  /\ stage \in Clocks \cup Ends
  /\ archive \subseteq FileNames

ArchiveInit ==
  /\ stage = "ON"
  /\ archive = {}

\* A file is added for the clock state being collected, or by a process that
\* outlived an abandoned collection.
Add(f) ==
  /\ stage \in {f.clock, "abandoned"}
  /\ archive' = archive \cup {f}
  /\ UNCHANGED stage

Advance ==
  /\ stage = "ON"
  /\ archive # {}
  /\ stage' = "OFF"
  /\ UNCHANGED archive

Complete ==
  /\ stage \in Clocks
  /\ archive # {}
  /\ stage' = "complete"
  /\ UNCHANGED archive

GiveUp ==
  /\ stage \in Clocks
  /\ stage' \in {"failed", "abandoned"}
  /\ UNCHANGED archive

ArchiveNext ==
  \/ \E f \in FileNames : Add(f)
  \/ Advance
  \/ Complete
  \/ GiveUp

\* A collection ends, one way or the other.
ArchiveSpec ==
  /\ ArchiveInit
  /\ [][ArchiveNext]_archiveVars
  /\ WF_archiveVars(Complete \/ GiveUp)

=============================================================================
