SPECIFICATION FairSpec
CONSTANTS
  boss = boss
  emp = emp
  NoOne = NoOne
  Users = {boss, emp}
  InitStaff = {boss}
  InitHolders = {emp}
  Notes = {n1}
  Requests = {r1}
  Routed = {r1}
  RequesterOf <- Requesters
  RecipientOf <- Recipients
  MaxCalls = 2
  MaxMoves = 1
INVARIANTS
  TypeOK
  QuietMeansFresh
  BellMissesOnlyGaps
  SocketFollowsTheToken
PROPERTIES
  BlockedIsSignedOut
