CONSTANTS
  h1 = h1
  k1 = k1
  k2 = k2
  r1 = r1
  r2 = r2
  p1 = p1
  p2 = p2
  NoHash = NoHash
  NoReport = NoReport
  NoFile = NoFile
  Hash = {h1, k1, k2}
  KernelHash = {k1, k2}
  Saver = {p1}
  ReportId = {1, 2, 3}
  Release = {r1, r2}
  File = {1, 2, 3}
  Offered <- MCSession
  MaxCrashes = 1
SPECIFICATION Spec
INVARIANTS SavedWasCounted DeferredNotCounted CountedOncePerCrash ReportCountExact OopsStored
PROPERTIES ImplementsIntake
