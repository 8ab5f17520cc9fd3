----------------------------- MODULE MCRequests -----------------------------
(***************************************************************************)
(* Small tenants for TLC.  adm is a SYSTEM_ADMIN, fin a FINANCE_APPROVER,  *)
(* mgr a DEPARTMENT_MANAGER who may also be a finance delegate, emp an     *)
(* EMPLOYEE; emp and mgr hold the hr role, nobody holds pay; the           *)
(* departments are it and ops.                                             *)
(***************************************************************************)
EXTENDS RequestsInvariants, TLC

CONSTANTS adm, fin, mgr, emp, hr, pay, it, ops

MCRoleOf == [u \in Users |-> CASE u = adm -> "SYSTEM_ADMIN"
                                 [] u = fin -> "FINANCE_APPROVER"
                                 [] u = mgr -> "DEPARTMENT_MANAGER"
                                 [] u = emp -> "EMPLOYEE"]

(* Every shape a filing can take: money stated in chat, with or without a  *)
(* role; receipts from Slack; a role that decides, one that is only told;  *)
(* nothing that routes it anywhere.                                        *)
FilingOf(u, stated, budget_, routed, needs, files) ==
    [requester |-> u, stated |-> stated, budget |-> budget_, routed |-> routed,
     needsApproval |-> needs, files |-> files]

Expense       == FilingOf(emp, 2, it, NoRole, FALSE, 0)
SmallExpense  == FilingOf(emp, 1, NoScope, NoRole, FALSE, 0)
RoutedExpense == FilingOf(emp, 2, it, hr, FALSE, 0)
Receipts      == FilingOf(emp, 0, NoScope, NoRole, FALSE, 1)
Leave         == FilingOf(emp, 0, NoScope, hr, TRUE, 0)
ManagerLeave  == FilingOf(mgr, 0, NoScope, hr, TRUE, 0)
Fyi           == FilingOf(mgr, 0, NoScope, hr, FALSE, 0)
Unrouted      == FilingOf(emp, 0, NoScope, NoRole, FALSE, 0)

AllFilings   == {Expense, RoutedExpense, Receipts, Leave, ManagerLeave, Fyi, Unrouted}
MoneyFilings == {Expense, SmallExpense, Receipts}
AdminFilings == {RoutedExpense, Receipts, Leave}
LiveFilings  == {Expense, Receipts, Leave, Fyi}

DelegateOf1  == [d \in Delegations |-> mgr]
LimitOf1     == [d \in Delegations |-> 2]
EmpInIt      == [u \in Users |-> IF u = emp THEN it ELSE NoScope]
ItPool       == [s \in Scopes |-> IF s = it THEN 3 ELSE NoBudget]
MgrHoldsHr   == {<<mgr, hr>>, <<emp, hr>>}
AllDelegated == [d \in Delegations |-> All]
OneDelegated  == LET active == CHOOSE d \in Delegations : TRUE
                 IN  [d \in Delegations |-> IF d = active THEN All ELSE NoScope]

(* Calls are interchangeable: no property names one. *)
CallSymmetry == Permutations(Calls)
RequestCallSymmetry == Permutations(Calls) \cup Permutations(Requests)

=============================================================================
