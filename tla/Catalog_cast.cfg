CONSTANTS
  f = f
  c = c
  r1 = r1
  r2 = r2
  r3 = r3
  x = x
  comp = comp
  pia = pia
  ra = ra
  rb = rb
  rc = rc
  k1 = k1
  k2 = k2
  n1 = n1
  s1 = s1
  s2 = s2
  c1 = c1
  c2 = c2
  a1 = a1
  a2 = a2
  NoSystem = NoSystem
  OpSys <- MCOpSys
  Release <- MCRelease
  Arch <- MCArch
  Comp <- MCComp
  Person <- MCPerson
  RepoName <- MCRepoName
  Pkg <- MCPkg
  Nvr <- MCNvr
  OsOf <- MCOsOf
  VersionOf <- MCVersionOf
  NvrOf <- MCNvrOf
  Process <- MCProcess
  Syncer <- MCSyncer
  Cleaner <- MCCleaner
  Admin <- MCAdmin
  Offers <- MCOffers
  ArchOf <- MCArchOf
  RpmMetadata <- MCRpmMetadata
  SyncOptions <- MCSyncOptions
  RemoteReleases <- MCRemoteReleases
  AdminOps <- MCAdminOps
  MaxStarts = 4
SPECIFICATION MCSpec
CHECK_DEADLOCK FALSE
INVARIANTS CalmSyncComplete CalmRunsSurvive NoDuplicatesUnlessOverlap FilesHaveRows
PROPERTIES KeepsShared
