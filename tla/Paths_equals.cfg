\* Paths of up to three elements: equals is asked for more than the one it is
\* called on has.
CONSTANTS
  MaxPathElements = 3
  Types = {0, 1}
  Instances = {0, 1}
  PathTypes = {0, 1}
SPECIFICATION PathSpec
INVARIANT ShorterPathAsserts
