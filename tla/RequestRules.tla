---------------------------- MODULE RequestRules ----------------------------
(***************************************************************************)
(* The pure rules of RequestsService and BudgetsService: which statuses    *)
(* exist, where the policy pipeline sends a filed request, who may decide  *)
(* a request at which stage, and which requests a budget counts as spent   *)
(* or as reserved.  No state lives here; Requests.tla is the machine that  *)
(* applies these rules.                                                    *)
(*                                                                         *)
(* Amounts are whole units of money: the code's Decimal(12,2) values and   *)
(* its EPSILON only guard against float rounding.  A request filed without *)
(* a stated amount has stated = 0: the code's tests (> 0, not null) agree  *)
(* on that value, because CreateRequestDto only accepts positive amounts.  *)
(***************************************************************************)
EXTENDS Naturals, FiniteSets

CONSTANTS
    Requests,       \* ids of the requests of one tenant
    Users,          \* ids of its users
    EmployeeRoles,  \* ids of its EmployeeRole rows (HR, IT Support, ...)
    Scopes,         \* department names, as plain strings in several tables
    All,            \* the name 'ALL', a member of Scopes
    NoScope,        \* a null department
    NoRole,         \* a null routedRoleId
    NoBudget,       \* no Budget row for a scope
    RoleOf          \* the system role of each user

SystemRoles == {"SYSTEM_ADMIN", "DEPARTMENT_MANAGER", "TEAM_LEAD",
                "FINANCE_APPROVER", "EMPLOYEE"}

ASSUME UsersExist == Users # {}
ASSUME RoleOfType == RoleOf \in [Users -> SystemRoles]
ASSUME ScopesHaveAll == All \in Scopes /\ NoScope \notin Scopes
ASSUME NoRoleIsNoRole == NoRole \notin EmployeeRoles
ASSUME NoBudgetIsNoAmount == NoBudget \notin Nat

-----------------------------------------------------------------------------
(* Statuses.  UNFILED stands for a row that does not exist yet.  DRAFT and *)
(* CANCELLED are declared by the schema and never written by the code.     *)

PendingStatuses == {"PENDING_MANAGER_APPROVAL", "PENDING_FINANCE_APPROVAL",
                    "PENDING_ROLE_APPROVAL", "ESCALATED"}

Statuses == PendingStatuses \cup
            {"UNFILED", "PENDING_POLICY_CHECK", "APPROVED", "PENDING_PAYMENT",
             "REJECTED", "COMPLETED", "NOTED"}

(* The statuses report_request_progress offers to an employee. *)
OpenRoutedStatuses == {"PENDING_ROLE_APPROVAL", "PENDING_MANAGER_APPROVAL",
                       "PENDING_FINANCE_APPROVAL", "APPROVED",
                       "PENDING_PAYMENT", "NOTED"}

TransactionStatuses == {"APPROVED", "COMPLETED"}

Decisions == {"APPROVED", "REJECTED"}

ManagerRoles == {"DEPARTMENT_MANAGER", "TEAM_LEAD", "SYSTEM_ADMIN"}

FinanceDecideRoles == {"FINANCE_APPROVER", "SYSTEM_ADMIN"}

-----------------------------------------------------------------------------
(* A Request row, and the attachments of a request folded into their       *)
(* number and the sum of the totals OCR found on them.                     *)

Row == [status        : Statuses,
        requester     : Users,
        stated        : Nat,
        budget        : Scopes \cup {NoScope},
        routed        : EmployeeRoles \cup {NoRole},
        needsApproval : BOOLEAN]

Attached == [count : Nat, total : Nat]

\* Mutant: no fallback to the stated amount.
EffectiveAmountVerified(row, att) == att.total

(* decide: the verified total if there is one, else the stated amount. *)
EffectiveAmount(row, att) == IF att.total > 0 THEN att.total ELSE row.stated

(* decide: "verified" means that any file is attached, whatever OCR found. *)
HasVerifiedAttachment(att) == att.count > 0

(* Where executePipeline leaves a request, and the step it opens for it. *)
PipelineStatus(row, att) ==
    IF att.total > 0 THEN "PENDING_MANAGER_APPROVAL"
    ELSE IF row.stated > 0 THEN "PENDING_FINANCE_APPROVAL"
    ELSE IF row.routed = NoRole THEN "ESCALATED"
    ELSE IF row.needsApproval THEN "PENDING_ROLE_APPROVAL"
    ELSE "NOTED"

(* The step of the execution timeline that waits for each status. *)
AwaitingStep ==
    [s \in {"PENDING_MANAGER_APPROVAL", "PENDING_FINANCE_APPROVAL",
            "PENDING_ROLE_APPROVAL", "ESCALATED", "NOTED"} |->
        CASE s = "PENDING_MANAGER_APPROVAL" -> "Awaiting Manager Approval"
          [] s = "PENDING_FINANCE_APPROVAL" -> "Awaiting Finance Approval"
          [] s = "PENDING_ROLE_APPROVAL"    -> "Awaiting Role Approval"
          [] s = "ESCALATED"                -> "Escalated"
          [] s = "NOTED"                    -> "Logged"]

\* Mutant: writes a status nothing else knows.
DecidedCancelled(stage, decision, amount, verified) == "CANCELLED"

\* Mutant: a rejection escalates.
DecidedRejectEscalates(stage, decision, amount, verified) ==
    IF decision = "REJECTED" THEN "ESCALATED" ELSE "APPROVED"

(* Where an approving or rejecting decision leaves a request, except the   *)
(* manager's approval, which depends on the delegations found.             *)
DecidedStatus(stage, decision, amount, verified) ==
    IF decision = "REJECTED" THEN "REJECTED"
    ELSE CASE stage = "PENDING_FINANCE_APPROVAL" /\ ~verified -> "PENDING_PAYMENT"
           [] stage = "ESCALATED" /\ amount > 0 /\ ~verified  -> "PENDING_PAYMENT"
           [] OTHER                                           -> "APPROVED"

-----------------------------------------------------------------------------
(* Budgets.  A request counts against one scope, by exact name. *)

BudgetScope(row, deptOf) ==
    IF row.budget # NoScope THEN row.budget
    ELSE IF deptOf[row.requester] # NoScope THEN deptOf[row.requester]
    ELSE All

\* Mutant: trusts what OCR found on the proof.
IsTransactionByTotal(row, att) ==
    row.status \in TransactionStatuses /\ att.total > 0

(* getTransactions: money that left. *)
IsTransaction(row, att) ==
    /\ row.status \in TransactionStatuses
    /\ att.total > 0 \/ (row.stated > 0 /\ att.count > 0)

(* getTransactions: the reserved amount is authoritative once proof exists. *)
TransactionAmount(row, att) == IF row.stated > 0 THEN row.stated ELSE att.total

(* getReservations: money committed and not yet paid. *)
IsReservation(row, att) ==
    /\ row.status = "PENDING_PAYMENT"
    /\ att.count = 0
    /\ row.stated > 0

=============================================================================
