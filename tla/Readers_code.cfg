\* The processors of the run readers: one found for a core without a code.
CONSTANTS
  cpu0 = cpu0
  cpu1 = cpu1
  cpu2 = cpu2
  Cpus = {cpu0, cpu1, cpu2}
  Codes = {"P0-C15", "P0-C22"}
  MaxChanges = 4
SPECIFICATION Spec
INVARIANT FoundHasTheCode
