CONSTANTS
  p1 = p1
  p2 = p2
  a1 = a1
  a2 = a2
  m1 = m1
  m2 = m2
  u1 = u1
  up = up
  att = att
  NoMaster = NoMaster
  NoArchiver = NoArchiver
  Report <- MCReport
  Uuid <- MCUuid
  Upload <- MCUpload
  Attachment <- MCAttachment
  Day <- MCDay
  Puller <- MCPuller
  Archiver <- MCArchiver
  Master <- MCMaster
  MasterOf <- MCMasterOf
  CommandLine <- MCCommandLine
  MaxPullMishaps = 1
  MaxPulls = 3
  MaxArchiveMishaps = 2
SPECIFICATION MCSpec
SYMMETRY Alike
INVARIANTS NothingLost KnownIsKept PulledAgainOnlyAfterMishap DoneDaysArchived
