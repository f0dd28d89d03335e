CONSTANTS
  p1 = p1
  p2 = p2
  m1 = m1
  x1 = x1
  x2 = x2
  q1 = q1
  q2 = q2
  r1 = r1
  r2 = r2
  r3 = r3
  c1 = c1
  c2 = c2
  t1 = t1
  t2 = t2
  a1 = a1
  a2 = a2
  a3 = a3
  a4 = a4
  a5 = a5
  a6 = a6
  a7 = a7
  a8 = a8
  a9 = a9
  a10 = a10
  a11 = a11
  k1 = k1
  k2 = k2
  Task = {k1, k2}
  MaxPeriod = 2
  Saver <- MCSaver
  Matcher <- MCMatcher
  AllowUnpackaged = TRUE
  Foreign = {"z"}
  HashFrames = 2
  Half = 4
  Jit = {"jit"}
  Misparsed = {"0xf"}
  LibOf <- MCLibOf
  Fixer <- MCFixer
  Problem <- MCProblem
  Releases <- MCReleases
  OpsysOf <- MCOpsysOf
  Eol = {"c7"}
  BuildOf <- MCBuildOf
  UReport <- MCUReport
  Option <- MCOption
  NewBuilds <- MCNewBuilds
  Request = {r1, r2, r3}
  Cleaner = {c1, c2}
  Systems = {"fedora", "centos"}
  KnownTypes = {}
  BugsOf <- MCBugsOf
  Major <- MCMajor
  Dotted = {"c7"}
  Upload <- MCUpload
  Attacher = {t1, t2}
  Attachment <- MCAttachment
  Says <- MCSays
  Allowed = {"comment", "email", "url", "rhbz"}
  IdOf <- MCIdOf
SPECIFICATION MCSpec
CHECK_DEADLOCK FALSE
INVARIANTS FramesAsReported CountsKept RefusedOnlyIfShared FixIsRight  AttachmentsKept SentOncePerDue
