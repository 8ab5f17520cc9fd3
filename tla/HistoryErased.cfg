SPECIFICATION Spec
CONSTANTS
  adm = adm
  ann = ann
  n1 = n1
  n2 = n2
  root = root
  bob = bob
  eve = eve
  e1 = e1
  e2 = e2
  e3 = e3
  s2 = s2
  s3 = s3
  NoSlack = NoSlack
  NoOne = NoOne
  Users = {adm, ann, n1, n2}
  Staff = {root, bob, eve}
  Emails = {e1, e2, e3}
  SlackIds = {s2, s3}
  AddressOf <- Addresses
  Calls = {c1, c2}
  Ops = {"work", "remove"}
  InitUser <- TwoAdmins
  InitStaff <- TwoGlobals
  InitSession <- Everybody
  MaxOpen = 2
INVARIANTS
  AuditKeepsItsActor
