CONSTANTS
  b1 = b1
  b2 = b2
  b3 = b3
  m1 = m1
  m2 = m2
  creator = creator
  other = other
  nobody = nobody
  cc1 = cc1
  cc2 = cc2
  cc3 = cc3
  ccHidden = ccHidden
  ch1 = ch1
  ch2 = ch2
  chLong = chLong
  at1 = at1
  co1 = co1
  w1 = w1
  w2 = w2
  r1 = r1
  r2 = r2
  retitled = retitled
  reworded = reworded
  nothing = nothing
  Anonymous = Anonymous
  Bug <- MCBug
  Mantis = {m1, m2}
  Report = {r1, r2}
  User = {creator, other, nobody}
  Hidden = {nobody}
  CreatorOf <- MCCreatorOf
  Item <- MCItem
  KindOf <- MCKindOf
  BugOf <- MCBugOf
  AuthorOf <- MCAuthorOf
  SinceOf <- MCSinceOf
  ChangeOf <- MCChangeOf
  Long = {chLong}
  AboutOf <- MCAboutOf
  Worker = {w1, w2}
  Tries = 2
  SavedKinds = {"cc", "history", "attachment", "comment"}
  Attachment <- MCAttachment
  Doomed = {b1, m1}
SPECIFICATION MCSpec
CHECK_DEADLOCK FALSE
INVARIANTS CompleteUnlessBroken OnceUnlessShared
PROPERTIES NeverBackUnlessShared
