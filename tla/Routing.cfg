SPECIFICATION Spec
CONSTANTS
  adm = adm
  joe = joe
  kim = kim
  hr = hr
  it = it
  people = people
  devices = devices
  NoName = NoName
  Gone = Gone
  NoOne = NoOne
  Users = {adm, joe, kim}
  Tags = {hr, it}
  Names = {people, devices}
  Calls = {c1, c2}
  Ops = {"notify", "tellLead", "broadcast", "save", "promote"}
  InitName <- OneRole
  InitPerson <- SmallTeam
  InitHolds <- KimIsHr
  MaxOpen = 2
  MaxChanges = 2
INVARIANTS
  TypeOK
  PagesThosePresent
  PromotedHoldTheCatalog
PROPERTIES
  RecordedWasPosted
SYMMETRY CallSymmetry
