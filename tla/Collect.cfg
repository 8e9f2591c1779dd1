\* One processor with one OCMB below it, both with index 0: two children in each
\* stage, of all three types of dump.
CONSTANTS
  p0 = p0
  p1 = p1
  o0 = o0
  Procs = {p0}
  Ocmbs = {o0}
  OcmbParent <- MCOcmbParent
  Index <- MCIndex
  Primary = p0
  PosModulus = 2
  Types = {"HOSTBOOT", "HARDWARE", "PERFORMANCE"}
SPECIFICATION Spec
INVARIANTS
  StageBarrier
  EndIsClean
  RequestsJustified
PROPERTIES
  WholeFilesStay
  ArchiveImplemented
  Termination
