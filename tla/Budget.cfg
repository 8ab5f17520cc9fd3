SPECIFICATION Spec
CONSTANTS
  adm = adm
  fin = fin
  mgr = mgr
  emp = emp
  hr = hr
  pay = pay
  it = it
  ops = ops
  All = All
  NoScope = NoScope
  NoRole = NoRole
  NoBudget = NoBudget
  Requests = {r1, r2}
  Users = {adm, mgr, emp}
  EmployeeRoles = {hr}
  Scopes = {All, it}
  Delegations = {d1}
  Calls = {c1, c2, c3}
  NoCall = NoCall
  MaxAdminOps = 0
  OcrTotals = {0, 2}
  MaxFiles = 1
  Ops = {"decide", "proof"}
  FaultKinds = {}
  MaxFaults = 0
  MaxInFlight = 1
  Allocations = {}
  RoleOf <- MCRoleOf
  DelegateOf <- DelegateOf1
  LimitOf <- LimitOf1
  InitDept <- EmpInIt
  InitBudget <- ItPool
  InitHolds <- MgrHoldsHr
  InitDelegated <- AllDelegated
  Filings <- MoneyFilings
INVARIANTS
  NoOverdraw
SYMMETRY RequestCallSymmetry
