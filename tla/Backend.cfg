\* Three tries, two probes and three entries: a probe behind one that succeeded,
\* and scans while another program has its device open.
CONSTANTS
  pcfam1 = pcfam1
  pread1 = pread1
  Pcfams = {pcfam1}
  Preads = {pread1}
  Tries = 3
  MaxProbes = 2
  MaxEntries = 3
SPECIFICATION BackendSpec
INVARIANTS
  OwnScansHarmless
  GivesUpInTime
  DataOfAskedBackend
PROPERTY ProgramsEnd
