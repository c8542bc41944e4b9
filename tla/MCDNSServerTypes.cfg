\* Questions of two types about one domain.
CONSTANTS
  Worker = {w1}
  Domain = {d1}
  QType = {A, AAAA}
  AddressType = {A, AAAA}
  Id = {i1}
  MaxSize = 1
  LongTTL = 2
  ShortTTL = 1
  Timeout = 1
  BlockFiles = {{}}
  WhiteFiles = {{}}
  OpenMayFail = FALSE
  Absent = Absent
  Never = Never
  None = None
  MaxQueries = 3
  MaxErrors = 1
  MaxNow = 3
SPECIFICATION Spec
CONSTRAINT Bounds
INVARIANT AnswersTheType
