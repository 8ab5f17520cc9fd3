----------------------------- MODULE Directory ------------------------------
(***************************************************************************)
(* What the administrators of a tenant keep: departments of users, budget  *)
(* pools, employee roles with their holders, and finance delegations.      *)
(* Requests.tla reads all of it while it decides, and composes the two     *)
(* operations whose effect reaches into the Request rows.                  *)
(*                                                                         *)
(* Department names are plain strings shared by four tables (Budget, User, *)
(* FinanceDelegation, Request); only rename keeps them in step.            *)
(***************************************************************************)
EXTENDS RequestRules

CONSTANTS
    Delegations,    \* ids of FinanceDelegation rows
    DelegateOf,     \* delegateManagerId of each
    LimitOf,        \* maxApprovalLimit of each
    Allocations,    \* amounts an administrator may allocate
    InitDept,       \* departments of the users at the start
    InitBudget,     \* budget pools at the start
    InitHolds,      \* role membership at the start
    InitDelegated,  \* delegations active at the start, as [id -> scope]
    MaxAdminOps     \* bound on administrative operations

ASSUME DelegationsType ==
    /\ DelegateOf \in [Delegations -> Users]
    /\ LimitOf \in [Delegations -> Nat]
    /\ Allocations \subseteq Nat
ASSUME InitDirectoryType ==
    /\ InitDept \in [Users -> Scopes \cup {NoScope}]
    /\ InitBudget \in [Scopes -> Nat \cup {NoBudget}]
    /\ InitHolds \subseteq Users \X EmployeeRoles
    /\ InitDelegated \in [Delegations -> Scopes \cup {NoScope}]
ASSUME MaxAdminOpsType == MaxAdminOps \in Nat

VARIABLES
    deptOf,     \* User.department
    budget,     \* Budget.allocatedAmount by departmentScope
    catalog,    \* EmployeeRole rows: not yet created, live, or deleted
    holds,      \* UserEmployeeRole rows
    deleg,      \* FinanceDelegation rows
    adminOps    \* operations left to the administrators (a bound)

directoryVars == <<deptOf, budget, catalog, holds, deleg, adminOps>>

DelegationRow == [state : {"none", "active", "revoked"},
                  scope : Scopes \cup {NoScope}]

DirectoryTypeOK ==
    /\ deptOf \in [Users -> Scopes \cup {NoScope}]
    /\ budget \in [Scopes -> Nat \cup {NoBudget}]
    /\ catalog \in [EmployeeRoles -> {"new", "live", "deleted"}]
    /\ holds \subseteq Users \X EmployeeRoles
    /\ deleg \in [Delegations -> DelegationRow]
    /\ adminOps \in Nat

DirectoryInit ==
    /\ deptOf = InitDept
    /\ budget = InitBudget
    /\ catalog = [e \in EmployeeRoles |->
                    IF \E u \in Users : <<u, e>> \in InitHolds THEN "live" ELSE "new"]
    /\ holds = InitHolds
    /\ deleg = [d \in Delegations |->
                  [state |-> IF InitDelegated[d] = NoScope THEN "none" ELSE "active",
                   scope |-> InitDelegated[d]]]
    /\ adminOps = MaxAdminOps

AdminOp ==
    /\ adminOps > 0
    /\ adminOps' = adminOps - 1

-----------------------------------------------------------------------------
(* BudgetsService *)

UpsertBudget(s, a) ==
    /\ AdminOp
    /\ budget' = [budget EXCEPT ![s] = a]
    /\ UNCHANGED <<deptOf, catalog, holds, deleg>>

RemoveBudget(s) ==
    /\ AdminOp
    /\ budget[s] # NoBudget
    /\ budget' = [budget EXCEPT ![s] = NoBudget]
    /\ UNCHANGED <<deptOf, catalog, holds, deleg>>

(* What x is called once the scope s has been renamed t. *)
Renamed(x, s, t) == IF x = s THEN t ELSE x

(* The directory's share of rename; Requests.tla adds the Request rows. *)
RenameScope(s, t) ==
    /\ AdminOp
    /\ budget[s] # NoBudget
    /\ budget[t] = NoBudget
    /\ budget' = [budget EXCEPT ![t] = budget[s], ![s] = NoBudget]
    /\ deptOf' = [u \in Users |-> Renamed(deptOf[u], s, t)]
    /\ deleg' = [d \in Delegations |->
                   [state |-> deleg[d].state, scope |-> Renamed(deleg[d].scope, s, t)]]
    /\ UNCHANGED <<catalog, holds>>

(* UsersService.updateDepartment and updateProfile *)
SetDepartment(u, s) ==
    /\ AdminOp
    /\ deptOf' = [deptOf EXCEPT ![u] = s]
    /\ UNCHANGED <<budget, catalog, holds, deleg>>

-----------------------------------------------------------------------------
(* EmployeeRolesService *)

CreateRole(e) ==
    /\ AdminOp
    /\ catalog[e] = "new"
    /\ catalog' = [catalog EXCEPT ![e] = "live"]
    /\ UNCHANGED <<deptOf, budget, holds, deleg>>

(* The directory's share of remove: membership rows cascade away. *)
DeleteRole(e) ==
    /\ AdminOp
    /\ catalog[e] = "live"
    /\ catalog' = [catalog EXCEPT ![e] = "deleted"]
    /\ holds' = {h \in holds : h[2] # e}
    /\ UNCHANGED <<deptOf, budget, deleg>>

(* Membership is replaced as a whole. *)
SetUserRoles(u, es) ==
    /\ AdminOp
    /\ \A e \in es : catalog[e] = "live"
    /\ holds' = {h \in holds : h[1] # u} \cup {u} \X es
    /\ UNCHANGED <<deptOf, budget, catalog, deleg>>

-----------------------------------------------------------------------------
(* FinanceDelegationsService *)

GrantDelegation(d, s) ==
    /\ AdminOp
    /\ deleg[d].state = "none"
    /\ deleg' = [deleg EXCEPT ![d] = [state |-> "active", scope |-> s]]
    /\ UNCHANGED <<deptOf, budget, catalog, holds>>

RevokeDelegation(d) ==
    /\ AdminOp
    /\ deleg[d].state \in {"active", "revoked"}
    /\ deleg' = [deleg EXCEPT ![d].state = "revoked"]
    /\ UNCHANGED <<deptOf, budget, catalog, holds>>

(* coveringDelegations: the active delegations of a department (or of ALL) *)
(* whose limit reaches the amount.                                         *)
Covering(department, amount) ==
    {d \in Delegations :
        /\ deleg[d].state = "active"
        /\ deleg[d].scope \in {department, All}
        /\ LimitOf[d] >= amount}

=============================================================================
