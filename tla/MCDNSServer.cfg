\* Two workers, two clients' ids, two domains that compete for one place; d1 may
\* be blocked or allowed by a reload at any time.
CONSTANTS
  Worker = {w1, w2}
  Domain = {d1, d2}
  QType = {A}
  AddressType = {A}
  Id = {i1, i2}
  MaxSize = 1
  LongTTL = 1
  ShortTTL = 0
  Timeout = 1
  BlockFiles = {{d1}}
  WhiteFiles = {{}}
  OpenMayFail = TRUE
  Absent = Absent
  Never = Never
  None = None
  MaxQueries = 3
  MaxErrors = 1
  MaxNow = 3
SPECIFICATION Spec
CONSTRAINT Bounds
SYMMETRY Symmetric
INVARIANTS TypeOK ReplyMatchesQuery CacheSound BlockTakesEffect Accounting
