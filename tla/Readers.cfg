\* Three processors under two codes; four changes: of the table before, between
\* and after the read and the match, and of the core while it is looked for.
CONSTANTS
  cpu0 = cpu0
  cpu1 = cpu1
  cpu2 = cpu2
  Cpus = {cpu0, cpu1, cpu2}
  Codes = {"P0-C15", "P0-C22"}
  MaxChanges = 4
SPECIFICATION Spec
INVARIANTS
  ShownIsCurrent
  FoundIsMatch
PROPERTY ShownComesTrue
