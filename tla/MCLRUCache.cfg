\* Three domains compete for two places.
CONSTANTS
  Domain = {d1, d2, d3}
  Response = {r1, r2}
  TTL = {0, 1}
  MaxSize = 2
  Absent = Absent
  nullopt = nullopt
  Node = {n1, n2, n3}
  NoNode = NoNode
  MaxUses = 4
  MaxMisses = 2
  MaxNow = 2
SPECIFICATION Spec
CONSTRAINT Bounds
SYMMETRY Symmetric
INVARIANTS TypeOK Consistent WithinCapacity SortedByUse
PROPERTIES EvictsLRU ImplementsTTLCache
