\* Two workers, two queries, a reload at any time; upstream may never answer.  One of the two
\* reporting threads at a time reads the counters.
CONSTANTS
  Worker = {w1, w2}
  Domain = {d1}
  QType = {A}
  AddressType = {A}
  Id = {i1}
  MaxSize = 1
  LongTTL = 1
  ShortTTL = 0
  Timeout = 1
  BlockFiles = {{d1}}
  WhiteFiles = {{}}
  OpenMayFail = FALSE
  Absent = Absent
  Never = Never
  None = None
  Reader = {"stats", "api"}
  MaxQueries = 2
  MaxErrors = 0
SPECIFICATION LiveSpec
INVARIANT LookupsAreLogged
PROPERTY EveryQueryEnds
