\* Two processes, with up to two entries each.
CONSTANTS
  first = first
  second = second
  Children = {first, second}
  Mixes <- MCMixes
  Slids = {1, 2}
SPECIFICATION Spec
INVARIANTS
  EachEntryOnce
  DumpNamesItsPel
PROPERTIES
  ChildrenEnd
  CollectImplemented
