CONSTANTS
  p0 = p0
  p1 = p1
  o0 = o0
  Procs = {p0, p1}
  Ocmbs = {}
  OcmbParent <- MCOcmbParent
  Index <- MCIndex
  Primary = p0
  PosModulus = 2
  Types = {"HOSTBOOT"}
SPECIFICATION Spec
INVARIANT WriteErrorKeepsCollection
