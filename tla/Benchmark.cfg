\* Up to five queries of up to two threads; any answer may be lost or late.
CONSTANTS
  MaxQueries = 5
  MaxThreads = 2
  Latency = {1, 3}
  Blocked = 1
  Allowed = 1
  Cached = 1
SPECIFICATION Spec
INVARIANTS StaleAnswers ReportAgrees PercentilesInOrder
PROPERTY BenchmarkEnds
