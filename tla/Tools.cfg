\* Two runs side by side.
CONSTANTS
  p0 = p0
  p1 = p1
  o0 = o0
  d0 = d0
  o1 = o1
  h0 = h0
  Runs = {1, 2}
  Mixes <- MCMixes
  Tree <- MCTree
  Class <- MCClass
  Index <- MCIndex
  SbeStates = {"Booted", "Failed"}
  MaxMoves = 1
SPECIFICATION Spec
INVARIANTS
  PutBack
  UsesEnabled
PROPERTY RunsEnd
