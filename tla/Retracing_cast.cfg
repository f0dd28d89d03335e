CONSTANTS
  here = here
  there = there
  k1 = k1
  k2 = k2
  k3 = k3
  k4 = k4
  k5 = k5
  f = f
  g = g
  old = old
  new = new
  d1 = d1
  d2 = d2
  d3 = d3
  d4 = d4
  p1 = p1
  p2 = p2
  w1 = w1
  w2 = w2
  w3 = w3
  r1 = r1
  r2 = r2
  Client = here
  Server = there
  Dummy = Dummy
  Source <- MCSource
  Symbol <- MCSymbol
  Report <- MCReport
  Debuginfo <- MCDebuginfo
  TypeOf <- MCTypeOf
  PackageOf <- MCPackageOf
  NamedAs <- MCNamedAs
  FoundAs <- MCFoundAs
  InlinedAs <- MCInlinedAs
  Pool <- MCPool
  Worker <- MCWorker
  PoolOf <- MCPoolOf
  SiteOf <- MCSiteOf
  MaxFails <- MCMaxFails
  Remote <- MCRemote
  BatchSizes = {1, 2}
  Keys = {TRUE, FALSE}
SPECIFICATION MCSpec
CHECK_DEADLOCK FALSE
INVARIANTS WholeUnlessFlushFailed SoloNeverFails OnlyServedSymbols AsksForAll
