CONSTANTS
  h1 = h1
  k1 = k1
  r1 = r1
  p1 = p1
  p2 = p2
  p3 = p3
  NoHash = NoHash
  NoReport = NoReport
  Hash = {h1, k1}
  KernelHash = {k1}
  Release = {r1}
  Saver = {p1, p2, p3}
  ReportId = {1}
  File = {1}
  Offered <- MCSome
  TicksPerSec = 2
  MaxTime = 4
  MaxStops = 1
  Calm = TRUE
SPECIFICATION Spec
CHECK_DEADLOCK FALSE
INVARIANTS DisjointBatches CountedOncePerStop
