SPECIFICATION Spec
CONSTANTS
  u1 = u1
  u2 = u2
  u3 = u3
  t1 = t1
  t2 = t2
  t3 = t3
  NoRow = NoRow
  Pages <- AllPages
  Rows = {u1, u2, u3}
  InitRows = {u1, u2}
  Tags = {t1, t2, t3}
  InitTags = {t1, t2}
  MaxCalls = 3
  MaxEvents <- EventsOf
  Touched = {"tags", "isActive", "teamLead", "name", "allocatedAmount", "slackUserId"}
INVARIANTS
  TypeOK
  QuietPageIsTrue
  FlagsMatchCalls
PROPERTIES
  TagsFallToOverlapsOnly
SYMMETRY Symmetry
CHECK_DEADLOCK FALSE
