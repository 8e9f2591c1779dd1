\* Up to four targets in any order: a parent before or after its child, a core-0
\* first or behind its fc, indices one of which begins with another, and units of
\* which one begins with, ends with or has inside another.
CONSTANTS
  Units <- MCUnits
  TextBegins <- MCBegins
  TextEnds <- MCEnds
  TextInside <- MCInside
  Targets <- MCTargets
  Args <- MCArgs
  MaxTargets = 4
SPECIFICATION ScriptSpec
INVARIANTS
  TreeShown
  SelectsAsked
  JsonHoldsOrdered
  CrashIsExplained
