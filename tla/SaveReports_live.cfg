CONSTANTS
  h1 = h1
  k1 = k1
  k2 = k2
  r1 = r1
  r2 = r2
  p1 = p1
  p2 = p2
  NoHash = NoHash
  NoReport = NoReport
  NoFile = NoFile
  Hash = {h1, k1}
  KernelHash = {k1}
  Saver = {p1, p2}
  ReportId = {1, 2, 3}
  Release = {r1}
  File = {1, 2}
  Offered <- MCAnyEnd
  MaxCrashes = 1
SPECIFICATION FairSpec
PROPERTIES EveryFileIsProcessed
