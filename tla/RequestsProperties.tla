------------------------- MODULE RequestsProperties -------------------------
(***************************************************************************)
(* What RequestsService promises, stated over the machine of Requests.tla. *)
(* Line numbers are those of requests.service.ts unless another file is    *)
(* named.                                                                  *)
(***************************************************************************)
EXTENDS Requests

(* A call that has begun to work on request r and is not over. *)
BusyOn(r) == \E c \in Calls : pc[c] \in Active /\ Req(c) = r

MoneyStages == {"PENDING_FINANCE_APPROVAL", "ESCALATED"}

(* Approval rows that commit money for r. *)
MoneyApprovals(r) ==
    {a \in approvals : a.req = r /\ a.stage \in MoneyStages
                       /\ a.decision = "APPROVED" /\ a.amount > 0}

-----------------------------------------------------------------------------
(* Decisions *)

(* At one stage of one request one decision is recorded: two approvers, or  *)
(* a double click, never both leave an Approval row (638-648).              *)
OneApprovalPerStage ==
    \A a, b \in approvals : a.req = b.req /\ a.stage = b.stage => a = b

(* A request that shows an outcome has an Approval row with that outcome,   *)
(* taken at a stage that can give it, and its audit entry: whatever fails   *)
(* between the writes of a decision, status is the last of them (837-970).  *)
OutcomeHasItsTrail ==
    \A r \in Requests :
        row[r].status \in {"APPROVED", "PENDING_PAYMENT", "REJECTED"} =>
            \E a \in approvals :
                /\ a.req = r
                /\ a.call \in audited
                /\ (a.decision = "REJECTED") <=> (row[r].status = "REJECTED")
                /\ row[r].status # "REJECTED" => a.stage # "PENDING_MANAGER_APPROVAL"

(* Every amount a budget counts, as spent or as reserved, is the amount     *)
(* some Approval committed at a stage that checks the budget: the figure    *)
(* decided on is the figure that is reserved and later spent (656-662,      *)
(* 1142-1148).                                                              *)
CountedMoneyWasApproved ==
    \A r \in Requests :
        /\ IsTransaction(row[r], attached[r]) =>
             \E a \in MoneyApprovals(r) : a.amount = TransactionAmount(row[r], attached[r])
        /\ IsReservation(row[r], attached[r]) =>
             \E a \in MoneyApprovals(r) : a.amount = row[r].stated

(* An approved amount is either reserved or spent as soon as no call is at  *)
(* work on the request: it never drops out of both of the budget's queries  *)
(* (budgets.service.ts:190-197).                                            *)
ApprovedMoneyIsCounted ==
    \A r \in Requests :
        MoneyApprovals(r) # {} /\ ~BusyOn(r) =>
            IsTransaction(row[r], attached[r]) \/ IsReservation(row[r], attached[r])

(* Call c reports that the work on r is done. *)
Resolves(c, r) == job[c].op = "note" /\ job[c].asked = "RESOLVED" /\ Req(c) = r

(* The calls that have reported it, or failed on the way. *)
ResolvedBy(r) ==
    {c \in Calls : Resolves(c, r) /\ pc[c] \in {"notifyingNote", "done", "failed"}}

(* A request that a role must decide (schema.prisma:322-329) shows APPROVED *)
(* only when somebody other than its requester approved it at that stage.   *)
(* It shows COMPLETED only because a progress note reported it resolved     *)
(* (294-325), which needs no decision and is open to the requester: but,    *)
(* as long as nobody changes who holds what, to no one who neither holds    *)
(* the role nor is an administrator.  A deleted role releases its requests. *)
RoleMustDecide ==
    \A r \in Requests :
        row[r].needsApproval /\ row[r].routed # NoRole /\ row[r].stated = 0 =>
            /\ row[r].status = "APPROVED" =>
                 \E a \in approvals : /\ a.req = r
                                      /\ a.stage = "PENDING_ROLE_APPROVAL"
                                      /\ a.decision = "APPROVED"
                                      /\ a.by # row[r].requester
            /\ row[r].status = "COMPLETED" =>
                 \E c \in ResolvedBy(r) :
                     adminOps = MaxAdminOps =>
                         IsAdmin(Actor(c)) \/ <<Actor(c), row[r].routed>> \in holds

(* The bell feed never tells a requester both that a request was rejected   *)
(* and that it was approved (766-775).                                      *)
OneOutcomeTold ==
    \A m, n \in notices :
        ~ /\ m.req = n.req
          /\ m.kind = "REQUEST_REJECTED"
          /\ n.kind \in {"REQUEST_APPROVED", "REQUEST_PENDING_PAYMENT", "REQUEST_ROUTED"}

(* The live timeline: when no call works on a request, the one step shown   *)
(* in progress is the one its status waits for, and a request that waits    *)
(* for nobody shows none (1512-1556).                                       *)
TimelineShowsTheStage ==
    \A r \in Requests :
        filer[r].pc = "done" /\ ~BusyOn(r) =>
            {timeline[r][i].name : i \in Open(timeline[r])} =
                IF row[r].status \in PendingStatuses THEN {AwaitingStep[row[r].status]} ELSE {}

(* Once it is rejected, completed or approved without money to pay, a       *)
(* request changes its status in two ways only, whatever else overlaps: a   *)
(* report that it is resolved completes it, even one that was asked for     *)
(* before it was rejected (284-286, 318-325), and a decision that was under *)
(* way when such a report completed it still writes its own outcome         *)
(* (638-648, 243-248).                                                      *)
SettledStays ==
    [][\A r \in Requests :
         /\ row[r].status \in {"REJECTED", "COMPLETED", "APPROVED"}
         /\ row'[r].status # row[r].status
         => \/ /\ row'[r].status = "COMPLETED"
               /\ \E c \in Calls : /\ Resolves(c, r)
                                   /\ pc[c] = "writingNote" /\ pc'[c] = "notifyingNote"
            \/ /\ row[r].status = "COMPLETED" /\ ResolvedBy(r) # {}
               /\ \E c \in Calls : /\ Req(c) = r
                                   /\ pc[c] = "settling" /\ pc'[c] = "committing"]_row

-----------------------------------------------------------------------------
(* Budgets *)

Committed(s) == SpentBy(TransactionsOf(s)) + HeldBy(ReservationsOf(s))

(* What is spent and reserved of a pool never exceeds it (924-928).         *)
NoOverdraw == \A s \in Scopes : budget[s] # NoBudget => Committed(s) <= budget[s]

MovedTo(s, t) ==
    /\ budget[s] # NoBudget /\ budget'[s] = NoBudget
    /\ budget[t] = NoBudget /\ budget'[t] # NoBudget

(* Renaming a pool, other than the one called ALL, takes everything that    *)
(* counted against it along: no history is stranded under the old name      *)
(* (budgets.service.ts:87-93).                                              *)
RenameKeepsDepartments ==
    [][\A s, t \in Scopes :
         s # All /\ MovedTo(s, t) =>
             /\ TransactionsOf(s) \subseteq TransactionsOf(t)'
             /\ ReservationsOf(s) \subseteq ReservationsOf(t)']_vars

-----------------------------------------------------------------------------
(* Decisions are atomic: the machine implements ApprovalFlow when a        *)
(* decision is taken to happen at the write of the status.                 *)

Placed(s) ==
    CASE s = "UNFILED"              -> "new"
      [] s = "PENDING_POLICY_CHECK" -> "filed"
      [] s = "NOTED"                -> "noted"
      [] s = "REJECTED"             -> "rejected"
      [] s \in PendingStatuses      -> s
      [] OTHER                      -> "approved"

Unsettled == {"recording", "completing", "routing", "auditing", "opening", "settling"}

Flow == INSTANCE ApprovalFlow WITH
    Cases  <- Requests,
    Stages <- PendingStatuses,
    First  <- "PENDING_MANAGER_APPROVAL",
    Onward <- MoneyStages,
    place  <- [r \in Requests |-> Placed(row[r].status)],
    log    <- {[case |-> a.req, stage |-> a.stage, decision |-> a.decision] :
                 a \in {b \in approvals : pc[b.call] \notin Unsettled}}

(* Requests implements ApprovalFlow (638-648).                              *)
DecisionsAreAtomic == Flow!FlowSpec

-----------------------------------------------------------------------------
(* Liveness.  Calls and filings run to their end: Node resumes every        *)
(* awaited handler.  Postgres grants an advisory lock in queue order, so a  *)
(* waiting call that finds it free over and over is served.                 *)

Fairness ==
    /\ \A r \in Requests : WF_vars(FilerStep(r))
    /\ \A c \in Calls :
         /\ WF_vars(DecideStep(c) \/ ProofStep(c) \/ NoteStep(c))
         /\ SF_vars(LockAndRead(c))

FairSpec == Spec /\ Fairness

(* Every call that starts is answered, and so every advisory lock is given  *)
(* back, also when calls fail or time out (646-727).                        *)
EveryCallIsAnswered == \A c \in Calls : pc[c] # "idle" ~> pc[c] \in Over

(* A filed request reaches a status somebody can act on or look up, unless  *)
(* its filing fails (518-627).                                              *)
FilingsAreRouted ==
    \A r \in Requests :
        row[r].status = "PENDING_POLICY_CHECK" ~>
            row[r].status # "PENDING_POLICY_CHECK" \/ filer[r].pc = "failed"

=============================================================================
