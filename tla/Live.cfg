SPECIFICATION FairSpec
CONSTANTS
  adm = adm
  fin = fin
  mgr = mgr
  emp = emp
  hr = hr
  pay = pay
  it = it
  ops = ops
  All = All
  NoScope = NoScope
  NoRole = NoRole
  NoBudget = NoBudget
  Requests = {r1}
  Users = {adm, fin, mgr, emp}
  EmployeeRoles = {hr}
  Scopes = {All, it}
  Delegations = {d1}
  Calls = {c1, c2}
  NoCall = NoCall
  MaxAdminOps = 0
  OcrTotals = {0, 2}
  MaxFiles = 1
  Ops = {"decide", "proof", "note"}
  FaultKinds = {"fail", "timeout"}
  MaxFaults = 1
  MaxInFlight = 3
  Allocations = {}
  RoleOf <- MCRoleOf
  DelegateOf <- DelegateOf1
  LimitOf <- LimitOf1
  InitDept <- EmpInIt
  InitBudget <- ItPool
  InitHolds <- MgrHoldsHr
  InitDelegated <- AllDelegated
  Filings <- LiveFilings
INVARIANTS
  OutcomeHasItsTrail
PROPERTIES
  EveryCallIsAnswered
  FilingsAreRouted
