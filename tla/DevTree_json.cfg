\* The files of the run devtree: every target of the file is in the JSON tree.
CONSTANTS
  Units <- MCUnits
  TextBegins <- MCBegins
  TextEnds <- MCEnds
  TextInside <- MCInside
  Targets <- MCTargets
  Args <- MCArgs
  MaxTargets = 4
SPECIFICATION ScriptSpec
INVARIANT JsonHoldsAll
