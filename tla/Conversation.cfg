SPECIFICATION Spec
CONSTANTS
  joe = joe
  kim = kim
  text = text
  files = files
  r0 = r0
  NoConv = NoConv
  NoRequest = NoRequest
  Users = {joe, kim}
  Events = {text, files}
  SenderOf <- Senders
  WithFiles = {files}
  Calls = {c1, c2}
  Convs = {v1, v2}
  Requests = {r0, r1, r2}
  InitRequests = {r0}
  ToolCalls = {{"file"}, {"readReporters"}}
  MaxRemembered = 1
  MaxRestarts = 1
  MaxOpen = 2
INVARIANTS
  TypeOK
  RetryNeverRepeatsEffects
  ThreadsKeepToTheirOwner
  RepliesTellTheTruth
PROPERTIES
  HandledAgainOnlyIfCrowdedOut
  ReportsFallToOverlapsOnly
SYMMETRY RowSymmetry
