------------------------- MODULE RequestsInvariants -------------------------
(***************************************************************************)
(* The inductive invariants behind the theorems: what the properties of    *)
(* RequestsProperties have to be strengthened with.                        *)
(***************************************************************************)
EXTENDS RequestsProperties

-----------------------------------------------------------------------------
(* The locals of a call fit the place it has reached.  TypeOK is not        *)
(* inductive without this: what a step writes to the shared rows is typed   *)
(* only because the call got there by the right operation.                  *)

Deciders == Deciding \cup {"waiting", "notifying"}

Fits(j, p, v) ==
    /\ p \in Deciders => j \in Job /\ j.op = "decide"
    /\ p \in Proving  => j \in Job /\ j.op = "proof"
    /\ p \in Noting   => j \in Job /\ j.op = "note"
    /\ p \in Deciding => v.stage \in PendingStatuses
    /\ p \in {"readingProof", "uploading"} => v.left # 0
    /\ p \in {"routing", "opening"} =>
         v.stage = "PENDING_MANAGER_APPROVAL" /\ j.asked = "APPROVED"
    /\ p \in {"auditing", "opening"} =>
         \/ v.stage # "PENDING_MANAGER_APPROVAL"
         \/ j.asked # "APPROVED"
         \/ v.next \in MoneyStages

FilerFits(f) ==
    /\ f.pc = "ingesting" => f.left # 0
    /\ f.pc \in {"opening", "settling"} => f.next \in DOMAIN AwaitingStep

Locals ==
    /\ \A c \in Calls : Fits(job[c], pc[c], view[c])
    /\ \A r \in Requests : FilerFits(filer[r])

TypeInv == TypeOK /\ Locals

-----------------------------------------------------------------------------
(* The strengthening of OneApprovalPerStage, for calls that do not fail.    *)

InFlight == Deciding \ {"committing"}
Recorded == InFlight \ {"authorising", "budgeting", "querying", "recording"}

(* A request has been filed and routed before anybody works on it. *)
FiledFirst ==
    /\ \A r \in Requests :
         /\ row[r].status = "UNFILED" => filer[r].pc = "none"
         /\ filer[r].pc # "done" => row[r].status \in {"UNFILED", "PENDING_POLICY_CHECK"}
    /\ \A c \in Calls :
         pc[c] \in InFlight \cup (Proving \ {"readingProof"}) \cup Noting =>
             filer[Req(c)].pc = "done"
    /\ \A a \in approvals : filer[a.req].pc = "done"

(* A deciding call owns its request until it commits. *)
LockHeld == \A c \in Calls : pc[c] \in Deciding => lock[Req(c)] = c

(* A call writes one Approval, for the request and stage it read. *)
OneApprovalPerCall ==
    \A a \in approvals :
        /\ pc[a.call] \notin InFlight \ Recorded
        /\ pc[a.call] \notin {"idle", "waiting"}
        /\ a.req = Req(a.call)
        /\ pc[a.call] \in Recorded => a.stage = view[a.call].stage
        /\ \A b \in approvals : a.call = b.call => a = b

(* Only a manager's approval leads on to another stage. *)
Onwards ==
    \A c \in Calls :
        pc[c] \in Recorded =>
            /\ view[c].next # "UNFILED"
            /\ view[c].next \in PendingStatuses =>
                  /\ view[c].stage = "PENDING_MANAGER_APPROVAL"
                  /\ view[c].next \in MoneyStages

(* What was decided on a request before a decision at stage s is the        *)
(* manager's approval, and s is one of the two stages that follow it.       *)
PassedOn(a, s) == a.stage = "PENDING_MANAGER_APPROVAL" /\ s \in MoneyStages

EarlierDecisions ==
    \A c \in Calls, a \in approvals :
        pc[c] \in InFlight /\ a.req = Req(c) /\ a.call # c => PassedOn(a, view[c].stage)

OpenDecisions ==
    \A a \in approvals :
        row[a.req].status \in PendingStatuses /\ pc[a.call] \notin Recorded
        => PassedOn(a, row[a.req].status)

(* No request is decided twice at a stage because the calls that decide it  *)
(* exclude each other, and each finds only decisions of earlier stages      *)
(* (638-727).  It is inductive as long as no call fails or times out.       *)
DecisionInv ==
    /\ TypeInv
    /\ FiledFirst
    /\ LockHeld
    /\ OneApprovalPerCall
    /\ Onwards
    /\ EarlierDecisions
    /\ OpenDecisions
    /\ OneApprovalPerStage

-----------------------------------------------------------------------------
(* What a decision leaves behind, whatever fails.                           *)

Told == Recorded \cup {"committing", "notifying"}

(* The Approval row of the decision that call c is carrying out. *)
RecordedBy(c) ==
    {a \in approvals : /\ a.call = c
                       /\ a.req = Req(c)
                       /\ a.stage = view[c].stage
                       /\ a.by = Actor(c)
                       /\ a.decision = job[c].asked
                       /\ a.amount = IF view[c].stage = "PENDING_ROLE_APPROVAL" THEN 0
                                     ELSE view[c].amount}

(* The status a decision is about to write follows from what it recorded. *)
LeadsOn(c) ==
    IF ManagerApproves(c)
    THEN pc[c] \in {"completing", "routing"} \/ view[c].next \in MoneyStages
    ELSE view[c].next = DecidedStatus(view[c].stage, job[c].asked,
                                      view[c].amount, view[c].verified)

NotOwn(c) ==
    view[c].stage = "PENDING_ROLE_APPROVAL" => Actor(c) # row[Req(c)].requester

DeciderFits(c) ==
    /\ pc[c] \in Told => RecordedBy(c) # {} /\ LeadsOn(c)
    /\ pc[c] \in {"opening", "settling", "committing", "notifying"} => c \in audited
    /\ pc[c] \in {"budgeting", "querying", "recording"} => NotOwn(c)
    /\ pc[c] \in InFlight \cup (Proving \ {"readingProof"}) \cup Noting =>
         filer[Req(c)].pc = "done"

ApprovalFits(a) ==
    /\ filer[a.req].pc = "done"
    /\ a.stage = "PENDING_ROLE_APPROVAL" => a.by # row[a.req].requester

FilingFits(r) ==
    /\ row[r].status = "UNFILED" => filer[r].pc = "none"
    /\ filer[r].pc # "done" => row[r].status \in {"UNFILED", "PENDING_POLICY_CHECK"}

(* Inductive for every mix of operations, failures and timeouts.            *)
TrailInv ==
    /\ TypeInv
    /\ \A c \in Calls : DeciderFits(c)
    /\ \A a \in approvals : ApprovalFits(a)
    /\ \A r \in Requests : FilingFits(r)
    /\ OutcomeHasItsTrail

-----------------------------------------------------------------------------
Paying  == {"uploading", "tracing", "auditingProof", "settlingProof"}
Granted == {"PENDING_PAYMENT", "COMPLETED"}

(* What a role must decide, whatever fails or times out and whoever reports *)
(* it resolved: no money and no proof is ever in play, a decision under way *)
(* is one of that stage, and who reported progress could, while nobody's    *)
(* roles had been changed.                                                  *)

Untouched == adminOps = MaxAdminOps

ForRole(r) == row[r].needsApproval /\ row[r].routed # NoRole /\ row[r].stated = 0

RoleFits(r) ==
    /\ row[r].status = "UNFILED" => attached[r].count = 0 /\ attached[r].total = 0
    /\ ForRole(r) =>
         /\ filer[r].pc # "ingesting" /\ attached[r].count = 0 /\ attached[r].total = 0
         /\ filer[r].pc \in {"opening", "settling"} =>
              filer[r].next = "PENDING_ROLE_APPROVAL"
         /\ row[r].status \in {"PENDING_POLICY_CHECK", "PENDING_ROLE_APPROVAL",
                               "REJECTED", "APPROVED", "COMPLETED"}
         /\ row[r].status = "APPROVED" =>
              \E a \in approvals : /\ a.req = r
                                   /\ a.stage = "PENDING_ROLE_APPROVAL"
                                   /\ a.decision = "APPROVED"
         /\ row[r].status = "COMPLETED" => ResolvedBy(r) # {}

RoleCallFits(c) ==
    /\ pc[c] \in InFlight \cup Paying /\ ForRole(Req(c)) =>
         pc[c] \in InFlight /\ view[c].stage = "PENDING_ROLE_APPROVAL"
    /\ job[c].op = "note" =>
         filer[Req(c)].pc = "done" /\ (Untouched => MayReport(Actor(c), Req(c)))

RoleInv ==
    /\ TrailInv
    /\ adminOps <= MaxAdminOps
    /\ \A r \in Requests : RoleFits(r)
    /\ \A c \in Calls : RoleCallFits(c)

-----------------------------------------------------------------------------
(* What a call knows of its request as long as no transaction times out:    *)
(* only a report that it is resolved takes a request from under a decision. *)

NotedFits(c) ==
    /\ pc[c] \in Deciding => lock[Req(c)] = c
    /\ pc[c] \in InFlight =>
         \/ view[c].stage = row[Req(c)].status
         \/ row[Req(c)].status = "COMPLETED" /\ ResolvedBy(Req(c)) # {}
    /\ pc[c] \in Paying =>
         /\ row[Req(c)].status \in Granted
         /\ \A d \in Calls : pc[d] \in InFlight => Req(d) # Req(c)

NotedInv == TrailInv /\ \A c \in Calls : NotedFits(c)

-----------------------------------------------------------------------------
(* What a call knows of its request stays true while it works, as long as   *)
(* no transaction times out and no progress note closes the request.        *)

CallFits(c) ==
    /\ pc[c] \notin Noting
    /\ pc[c] \in Deciding => lock[Req(c)] = c
    /\ pc[c] \in InFlight =>
         /\ view[c].stage = row[Req(c)].status
         /\ view[c].amount = EffectiveAmount(row[Req(c)], attached[Req(c)])
         /\ view[c].verified = HasVerifiedAttachment(attached[Req(c)])
    /\ pc[c] \in Paying => row[Req(c)].status \in Granted

(* The money a stage can see: s is the status of r, or the next one. *)
RoutedBy(r, s) ==
    /\ s = "PENDING_MANAGER_APPROVAL" => attached[r].total > 0
    /\ s = "PENDING_FINANCE_APPROVAL" => attached[r].total > 0 \/ row[r].stated > 0
    /\ s = "PENDING_ROLE_APPROVAL" => attached[r].total = 0 /\ row[r].stated = 0

RequestFits(r) ==
    /\ row[r].status = "UNFILED" => attached[r].count = 0
    /\ attached[r].count = 0 => attached[r].total = 0
    /\ attached[r].count > 0 \/ filer[r].pc = "ingesting" =>
         \/ row[r].stated = 0 /\ ~row[r].needsApproval
         \/ row[r].status \in Granted
    /\ RoutedBy(r, row[r].status)
    /\ filer[r].pc \in {"opening", "settling"} =>
         RoutedBy(r, filer[r].next)
    /\ row[r].status = "APPROVED" /\ attached[r].total > 0 =>
         \E a \in MoneyApprovals(r) : a.amount = attached[r].total
    /\ row[r].status \in Granted =>
         row[r].stated > 0 /\ \E a \in MoneyApprovals(r) : a.amount = row[r].stated

SettleInv ==
    /\ TrailInv
    /\ \A c \in Calls : CallFits(c)
    /\ \A r \in Requests : RequestFits(r)

-----------------------------------------------------------------------------
(* Decisions of calls that do not fail: one of them is final, and the       *)
(* requester hears of that one.                                             *)

Final(a) == a.decision = "REJECTED" \/ a.stage # "PENDING_MANAGER_APPROVAL"

Approves(kind) == kind \in {"REQUEST_APPROVED", "REQUEST_PENDING_PAYMENT", "REQUEST_ROUTED"}

ToldInv ==
    /\ TrailInv
    /\ DecisionInv
    /\ \A a \in approvals :
         Final(a) =>
           /\ pc[a.call] \notin Recorded => row[a.req].status \notin PendingStatuses
           /\ \A c \in Calls : pc[c] \in InFlight /\ Req(c) = a.req => a.call = c
           /\ \A b \in approvals : Final(b) /\ a.req = b.req => a = b
    /\ \A n \in notices :
         /\ n.kind = "REQUEST_REJECTED" =>
              \E a \in approvals : a.req = n.req /\ a.decision = "REJECTED"
         /\ Approves(n.kind) =>
              \E a \in approvals : a.req = n.req /\ a.decision = "APPROVED" /\ Final(a)

(* Approved money stays accounted for. *)
MoneyFits(a) ==
    a.stage \in MoneyStages /\ a.decision = "APPROVED" /\ a.amount > 0
    /\ pc[a.call] \notin Recorded =>
        /\ row[a.req].status \in Granted \cup {"APPROVED"}
        /\ row[a.req].status = "APPROVED" => attached[a.req].total > 0

PaidFits(r) ==
    attached[r].count = 0 =>
        /\ row[r].status # "COMPLETED"
        /\ \A c \in Calls : pc[c] \in Paying /\ Req(c) = r => pc[c] = "uploading"

PayingFits(r) ==
    row[r].status = "PENDING_PAYMENT" /\ attached[r].count > 0 =>
        \E c \in Calls : pc[c] \in Paying /\ Req(c) = r

PaidInv ==
    /\ SettleInv
    /\ DecisionInv
    /\ \A a \in approvals : MoneyFits(a)
    /\ \A r \in Requests : PaidFits(r) /\ PayingFits(r)

-----------------------------------------------------------------------------
(* The timeline, between the writes of a filing and of a decision.          *)

OpenNames(t) == {t[i].name : i \in Open(t)}

(* What a request waits for at a status, or is about to. *)
Awaited(s) == IF s \in PendingStatuses THEN {AwaitingStep[s]} ELSE {}

StageNames == {AwaitingStep[s] : s \in PendingStatuses}

(* A stage is entered once. *)
NamedOnce(t) ==
    \A i, j \in DOMAIN t : t[i].name = t[j].name /\ t[i].name \in StageNames => i = j

Closed == {"routing", "auditing", "opening"}

(* The calls that have closed the step of the stage they decide. *)
Closing(r) == {c \in Calls : pc[c] \in Closed \cup {"settling"} /\ Req(c) = r}

Checking == StepRow("Checking Policy...", TRUE)
Checked  == StepRow("Checking Policy...", FALSE)
Routing  == StepRow("Routing for Approval", FALSE)

Routed == {<<Routing>>, <<Checked, Routing>>}

FilingShows(r) ==
    /\ filer[r].pc \in {"none", "ingesting"} => timeline[r] = <<>>
    /\ filer[r].pc = "checking" => timeline[r] \in {<<>>, <<Checking>>}
    /\ filer[r].pc = "opening" => timeline[r] \in Routed
    /\ filer[r].pc = "settling" =>
         \E t \in Routed :
            timeline[r] = Append(t, StepRow(AwaitingStep[filer[r].next],
                                            filer[r].next # "NOTED"))

StageShows(r) ==
    filer[r].pc = "done" =>
        /\ NamedOnce(timeline[r])
        /\ Closing(r) = {} => OpenNames(timeline[r]) = Awaited(row[r].status)
        /\ row[r].status = "PENDING_MANAGER_APPROVAL"
           /\ (\A c \in Calls : pc[c] = "settling" => Req(c) # r) =>
              \A i \in DOMAIN timeline[r], s \in MoneyStages :
                  timeline[r][i].name # AwaitingStep[s]

DecisionShows(c) ==
    /\ pc[c] \in Closed => OpenNames(timeline[Req(c)]) = {}
    /\ pc[c] = "settling" => OpenNames(timeline[Req(c)]) = Awaited(view[c].next)

ShownInv ==
    /\ SettleInv
    /\ DecisionInv
    /\ \A r \in Requests : FilingShows(r) /\ StageShows(r)
    /\ \A c \in Calls : DecisionShows(c)

-----------------------------------------------------------------------------
(* Money, when one call is at work at a time and no administrator has       *)
(* touched a pool, a department or a role yet.                              *)

Alone == \A c, d \in Calls : pc[c] \in Active /\ pc[d] \in Active => c = d

ScopeOf(r) == BudgetScope(row[r], deptOf)

(* The pool of scope s can also bear the amount a. *)
Room(s, a) == budget[s] # NoBudget => Committed(s) + a <= budget[s]

(* What a call has read of a pool still holds, and an amount it has found   *)
(* room for, or is about to turn from reserved into spent, keeps its room.  *)
HeadroomFits(c) ==
    LET v == view[c]
        r == Req(c)
    IN  /\ pc[c] \in InFlight => v.scope = ScopeOf(r)
        /\ pc[c] \in {"budgeting", "querying"} => NeedsHeadroom(c)
        /\ pc[c] = "querying" =>
             /\ v.alloc = budget[v.scope]
             /\ "transactions" \notin v.queries => v.spent = TransactionsOf(v.scope)
             /\ "reservations" \notin v.queries => v.held = ReservationsOf(v.scope)
        /\ pc[c] \in Recorded \cup {"recording"} /\ NeedsHeadroom(c) => Room(v.scope, v.amount)
        /\ pc[c] \in Paying =>
             /\ row[r].status = "PENDING_PAYMENT"
             /\ attached[r].count > 0 => Room(ScopeOf(r), row[r].stated)

HeadroomInv ==
    /\ SettleInv
    /\ Alone
    /\ adminOps <= MaxAdminOps
    /\ Untouched => NoOverdraw /\ \A c \in Calls : HeadroomFits(c)

-----------------------------------------------------------------------------
(* All of it at once: calls that do not fail, with no progress note and no  *)
(* timeout to take a request away from under one of them.                   *)
DecidedInv == ToldInv /\ PaidInv /\ ShownInv

=============================================================================
