SPECIFICATION Spec
CONSTANTS
  adm = adm
  fin = fin
  mgr = mgr
  emp = emp
  hr = hr
  pay = pay
  it = it
  ops = ops
  All = All
  NoScope = NoScope
  NoRole = NoRole
  NoBudget = NoBudget
  Requests = {r1}
  Users = {adm, mgr, emp}
  EmployeeRoles = {hr, pay}
  Scopes = {All, it, ops}
  Delegations = {d1, d2}
  Calls = {c1, c2, c3}
  NoCall = NoCall
  MaxAdminOps = 1
  OcrTotals = {0, 2}
  MaxFiles = 1
  Ops = {"decide", "proof", "note"}
  FaultKinds = {}
  MaxFaults = 0
  MaxInFlight = 2
  Allocations = {0}
  RoleOf <- MCRoleOf
  DelegateOf <- DelegateOf1
  LimitOf <- LimitOf1
  InitDept <- EmpInIt
  InitBudget <- ItPool
  InitHolds <- MgrHoldsHr
  InitDelegated <- OneDelegated
  Filings <- AdminFilings
INVARIANTS
  RoleMustDecide
PROPERTIES
  RenameKeepsDepartments
  SettledStays
SYMMETRY CallSymmetry
