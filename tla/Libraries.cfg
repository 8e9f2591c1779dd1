\* Paths of up to three elements, two element types, two instances; every blob of
\* up to seven nodes; up to two packages in the FFDC and two in the value, two
\* SLIDs; three allocations, each of which may fail: a block, another over it, and
\* a failure before, between or after them.
CONSTANTS
  MaxPathElements = 3
  Types = {0, 1}
  Instances = {0, 1}
  PathTypes = {0, 1}
  MaxNodes = 7
  Slids = {3, 4}
  MaxPackages = 2
  MaxData = 2
  MaxValue = 2
  DamagedLengths = {0, 1, 3, 5, 8, 40}
  MaxEntries = 4
  HalfModulus = 64
  SizeModulus = 256
  Buffers <- MCBuffers
  TestData <- MCTestData
  MaxBlocks = 3
SPECIFICATION LibrariesSpec
INVARIANTS
  EqualityIsExact
  LessIsTotal
  NothingLeaked
  TargetsMapped
  TreeIsBlob
  WalkInOrder
  RoundTrip
  EntriesTile
  PointersLive
  PackagesTile
  CrashNeedsFailure
PROPERTY ParserAdvances
