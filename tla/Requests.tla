------------------------------ MODULE Requests ------------------------------
(***************************************************************************)
(* RequestsService: filing, the policy pipeline, decisions, proof of       *)
(* payment and progress notes, as concurrent calls over one database.      *)
(*                                                                         *)
(* A call is one HTTP request (or one tool call of the assistant) in       *)
(* flight.  Every await of the handler that reads or writes shared rows is *)
(* an action; between two of them any other call may run.  In particular   *)
(* decide holds a transaction open only for its advisory lock: the stage   *)
(* helpers write through the service's own connection, so each of their    *)
(* writes is visible at once and stays when the call fails later.          *)
(*                                                                         *)
(* A call is served at most once, so an Approval row is identified by the  *)
(* call that wrote it.  MaxFaults bounds failures and transaction timeouts,*)
(* MaxFiles the files of one upload, MaxInFlight the calls that overlap.   *)
(***************************************************************************)
EXTENDS Directory, Sequences, FiniteSetsExt

CONSTANTS
    Calls,        \* calls to decide, attachProof and report_request_progress
    NoCall,
    Filings,      \* what employees file
    OcrTotals,    \* totals OCR may find on a file; 0 when it finds none
    MaxFiles,
    Ops,          \* the operations of this instance
    FaultKinds,   \* subset of {"fail", "timeout"}
    MaxFaults,
    MaxInFlight   \* calls that may overlap; 1 makes the instance sequential

Filing == [requester : Users, stated : Nat, budget : Scopes \cup {NoScope},
           routed : EmployeeRoles \cup {NoRole}, needsApproval : BOOLEAN,
           files : 0..MaxFiles]

ASSUME CallsType == NoCall \notin Calls
ASSUME FilingsType == Filings \subseteq Filing
(* Files come with messages from Slack, which state nothing else. *)
ASSUME SlackFilings ==
    \A f \in Filings : f.files > 0 =>
        f.stated = 0 /\ f.budget = NoScope /\ f.routed = NoRole /\ ~f.needsApproval
ASSUME OcrType == OcrTotals \subseteq Nat /\ MaxFiles \in Nat \ {0}
ASSUME OpsType ==
    /\ Ops \subseteq {"decide", "proof", "note"}
    /\ FaultKinds \subseteq {"fail", "timeout"}
    /\ MaxFaults \in Nat
    /\ MaxInFlight \in Nat \ {0}

VARIABLES
    row,        \* Request rows
    attached,   \* Attachment rows, by request
    timeline,   \* ExecutionStep rows, by request, in sequenceOrder
    approvals,  \* Approval rows
    audited,    \* calls whose AuditLog row is written
    notices,    \* Notification rows (the bell feed)
    lock,       \* pg_advisory_xact_lock, by request
    filer,      \* the call that files a request: pc, files left, outcome
    job,        \* what each call was asked to do
    pc,         \* where each call is
    view,       \* the locals of each call
    faults      \* faults left (a bound)

requestVars == <<row, attached, timeline, approvals, audited, notices>>
callVars    == <<lock, filer, job, pc, view, faults>>
vars        == <<directoryVars, requestVars, callVars>>

-----------------------------------------------------------------------------
(* Types *)

Steps == {AwaitingStep[s] : s \in DOMAIN AwaitingStep} \cup
         {"Checking Policy...", "Routing for Approval", "Payment Sent"}

Step == [name : Steps, open : BOOLEAN]

Approval == [call : Calls, req : Requests, stage : PendingStatuses, by : Users,
             decision : Decisions, amount : Nat, delegated : BOOLEAN]

NoticeKinds == {"REQUEST_APPROVED", "REQUEST_REJECTED", "REQUEST_PENDING_PAYMENT",
                "REQUEST_ROUTED", "REQUEST_PAYMENT_SENT", "REQUEST_PROGRESS"}

Notice == [to : Users, req : Requests, kind : NoticeKinds]

Filer == [pc : {"none", "ingesting", "checking", "opening", "settling", "done", "failed"},
          left : 0..MaxFiles,
          next : Statuses]

Job == [op : {"decide"}, req : Requests, by : Users, asked : Decisions] \cup
       [op : {"proof"},  req : Requests, by : Users, asked : {"PAID"}] \cup
       [op : {"note"},   req : Requests, by : Users, asked : {"RESOLVED", "UPDATE"}]

NoJob == [op |-> "none"]

(* pcs between taking the advisory lock and committing *)
Deciding == {"authorising", "budgeting", "querying", "recording", "completing",
             "routing", "auditing", "opening", "settling", "committing"}

Proving == {"readingProof", "uploading", "tracing", "auditingProof",
            "settlingProof", "notifyingProof"}

Noting == {"readingNote", "writingNote", "notifyingNote"}

Active == Deciding \cup Proving \cup Noting \cup {"waiting", "notifying"}

Over == {"done", "refused", "failed"}

View == [stage : Statuses, amount : Nat, verified : BOOLEAN,
         department : Scopes, scope : Scopes, routed : EmployeeRoles \cup {NoRole},
         matched : BOOLEAN, next : Statuses,
         alloc : Nat, spent : SUBSET Requests, held : SUBSET Requests,
         queries : SUBSET {"transactions", "reservations"},
         left : 0..MaxFiles]

EmptyView == [stage |-> "UNFILED", amount |-> 0, verified |-> FALSE,
              department |-> All, scope |-> All, routed |-> NoRole,
              matched |-> FALSE, next |-> "UNFILED",
              alloc |-> 0, spent |-> {}, held |-> {}, queries |-> {}, left |-> 0]

TypeOK ==
    /\ DirectoryTypeOK
    /\ row \in [Requests -> Row]
    /\ attached \in [Requests -> Attached]
    /\ timeline \in [Requests -> Seq(Step)]
    /\ approvals \subseteq Approval
    /\ audited \subseteq Calls
    /\ notices \subseteq Notice
    /\ lock \in [Requests -> Calls \cup {NoCall}]
    /\ filer \in [Requests -> Filer]
    /\ job \in [Calls -> Job \cup {NoJob}]
    /\ pc \in [Calls -> Active \cup Over \cup {"idle"}]
    /\ view \in [Calls -> View]
    /\ faults \in Nat

NoRow == [status |-> "UNFILED", requester |-> CHOOSE u \in Users : TRUE, stated |-> 0,
          budget |-> NoScope, routed |-> NoRole, needsApproval |-> FALSE]

Init ==
    /\ DirectoryInit
    /\ row = [r \in Requests |-> NoRow]
    /\ attached = [r \in Requests |-> [count |-> 0, total |-> 0]]
    /\ timeline = [r \in Requests |-> <<>>]
    /\ approvals = {}
    /\ audited = {}
    /\ notices = {}
    /\ lock = [r \in Requests |-> NoCall]
    /\ filer = [r \in Requests |-> [pc |-> "none", left |-> 0, next |-> "UNFILED"]]
    /\ job = [c \in Calls |-> NoJob]
    /\ pc = [c \in Calls |-> "idle"]
    /\ view = [c \in Calls |-> EmptyView]
    /\ faults = MaxFaults

-----------------------------------------------------------------------------
(* The execution timeline *)

StepRow(name, open) == [name |-> name, open |-> open]

(* addStep *)
AddStep(r, name, open) ==
    timeline' = [timeline EXCEPT ![r] = Append(@, StepRow(name, open))]

(* Close the latest of the steps of t numbered in is, if there is any. *)
CloseLatest(t, is) == IF is = {} THEN t ELSE [t EXCEPT ![Max(is)] = StepRow(@.name, FALSE)]

Named(t, name) == {i \in DOMAIN t : t[i].name = name}
Open(t)        == {i \in DOMAIN t : t[i].open}

(* completeStep *)
Completed(t, name) == CloseLatest(t, Named(t, name))

\* Mutant: always closes the finance step.
CompletedHardcoded(t) == Completed(t, "Awaiting Finance Approval")

(* completeLatestInProgressStep *)
CompletedLatest(t) == CloseLatest(t, Open(t))

SetStatus(r, s) == row' = [row EXCEPT ![r].status = s]

Attach(r, total) ==
    attached' = [attached EXCEPT ![r] = [count |-> @.count + 1, total |-> @.total + total]]

-----------------------------------------------------------------------------
(* Filing: create (or its Slack counterpart, which seeds no timeline and   *)
(* ingests files first), then runPipeline, in one call.  No other call     *)
(* touches a request before its status leaves PENDING_POLICY_CHECK, except *)
(* that a deleted role is cut off its row.                                 *)

File(r) ==
    /\ row[r].status = "UNFILED"
    /\ \E f \in Filings :
         LET live == IF f.routed # NoRole
                     THEN catalog[f.routed] = "live" ELSE FALSE
         IN  /\ row' = [row EXCEPT ![r] =
                          [status        |-> "PENDING_POLICY_CHECK",
                           requester     |-> f.requester,
                           stated        |-> f.stated,
                           budget        |-> f.budget,
                           routed        |-> IF live THEN f.routed ELSE NoRole,
                           needsApproval |-> live /\ f.needsApproval]]
             /\ filer' = [filer EXCEPT ![r] =
                            [pc |-> IF f.files > 0 THEN "ingesting" ELSE "checking",
                             left |-> f.files, next |-> "UNFILED"]]
             /\ IF f.files > 0 THEN UNCHANGED timeline
                               ELSE AddStep(r, "Checking Policy...", TRUE)
    /\ UNCHANGED <<directoryVars, attached, approvals, audited, notices,
                   lock, job, pc, view, faults>>

(* ingestFile: download, OCR, upload and one Attachment row per file *)
Ingest(r) ==
    /\ filer[r].pc = "ingesting"
    /\ \E t \in OcrTotals : Attach(r, t)
    /\ filer' = [filer EXCEPT ![r].left = @ - 1,
                              ![r].pc = IF filer[r].left = 1 THEN "checking" ELSE @]
    /\ UNCHANGED <<directoryVars, row, timeline, approvals, audited, notices,
                   lock, job, pc, view, faults>>

(* executePipeline reads the row once, and routes by what it read. *)
CheckPolicy(r) ==
    /\ filer[r].pc = "checking"
    /\ timeline' = [timeline EXCEPT ![r] =
                      Append(Completed(@, "Checking Policy..."),
                             StepRow("Routing for Approval", FALSE))]
    /\ filer' = [filer EXCEPT ![r].pc = "opening",
                              ![r].next = PipelineStatus(row[r], attached[r])]
    /\ UNCHANGED <<directoryVars, row, attached, approvals, audited, notices,
                   lock, job, pc, view, faults>>

OpenFirstStage(r) ==
    /\ filer[r].pc = "opening"
    /\ AddStep(r, AwaitingStep[filer[r].next], filer[r].next # "NOTED")
    /\ filer' = [filer EXCEPT ![r].pc = "settling"]
    /\ UNCHANGED <<directoryVars, row, attached, approvals, audited, notices,
                   lock, job, pc, view, faults>>

SettleFiling(r) ==
    /\ filer[r].pc = "settling"
    /\ SetStatus(r, filer[r].next)
    /\ filer' = [filer EXCEPT ![r].pc = "done"]
    /\ UNCHANGED <<directoryVars, attached, timeline, approvals, audited, notices,
                   lock, job, pc, view, faults>>

(* A download, an upload, a query or the process fails; nobody runs the    *)
(* pipeline of this request again.                                         *)
FailFiling(r) ==
    /\ "fail" \in FaultKinds
    /\ faults > 0
    /\ filer[r].pc \in {"ingesting", "checking", "opening", "settling"}
    /\ filer' = [filer EXCEPT ![r].pc = "failed"]
    /\ faults' = faults - 1
    /\ UNCHANGED <<directoryVars, requestVars, lock, job, pc, view>>

-----------------------------------------------------------------------------
(* decide *)

Req(c)    == job[c].req
Actor(c)  == job[c].by
IsAdmin(u) == RoleOf[u] = "SYSTEM_ADMIN"
Approving(c) == job[c].asked = "APPROVED"

Filed == {r \in Requests : row[r].status # "UNFILED"}

Goto(c, p) == pc' = [pc EXCEPT ![c] = p]

\* Mutant: the lock outlives its call.
ReleasedNever(c) == lock

(* The lock is gone with the transaction, if this call still has it. *)
Released(c) == [r \in Requests |-> IF lock[r] = c THEN NoCall ELSE lock[r]]

(* The call is over: its transaction ends and its locals go. *)
Finish(c, p) ==
    /\ Goto(c, p)
    /\ lock' = Released(c)
    /\ view' = [view EXCEPT ![c] = EmptyView]

Begin(c, op) ==
    /\ op \in Ops
    /\ pc[c] = "idle"
    /\ Cardinality({d \in Calls : pc[d] \in Active}) < MaxInFlight

StartDecide(c) ==
    /\ Begin(c, "decide")
    /\ \E r \in Filed, u \in Users, d \in Decisions :
         job' = [job EXCEPT ![c] = [op |-> "decide", req |-> r, by |-> u, asked |-> d]]
    /\ Goto(c, "waiting")
    /\ UNCHANGED <<directoryVars, requestVars, lock, filer, view, faults>>

Snapshot(r) ==
    [EmptyView EXCEPT
        !.stage      = row[r].status,
        !.amount     = EffectiveAmount(row[r], attached[r]),
        !.verified   = HasVerifiedAttachment(attached[r]),
        !.department = IF deptOf[row[r].requester] # NoScope
                       THEN deptOf[row[r].requester] ELSE All,
        !.scope      = BudgetScope(row[r], deptOf),
        !.routed     = row[r].routed]

\* Mutant: no advisory lock.
LockIgnored(c) == TRUE

(* pg_advisory_xact_lock returns once no other transaction holds the key. *)
LockFree(c) == lock[Req(c)] = NoCall

(* The lock is granted and the row read on the same connection. *)
LockAndRead(c) ==
    /\ pc[c] = "waiting"
    /\ LockFree(c)
    /\ IF row[Req(c)].status \in PendingStatuses
       THEN /\ lock' = [lock EXCEPT ![Req(c)] = c]
            /\ view' = [view EXCEPT ![c] = Snapshot(Req(c))]
            /\ Goto(c, "authorising")
       ELSE Finish(c, "refused")   \* 'Request is not awaiting approval'
    /\ UNCHANGED <<directoryVars, requestVars, filer, job, faults>>

(* coveringDelegations(...).find(d => d.delegateManagerId = u), where v is  *)
(* what the call of u read.                                                *)
Matched(u, v) == \E d \in Covering(v.department, v.amount) : DelegateOf[d] = u

\* Mutant: a role holder may decide their own request.
AuthorisedSelf(u, v, requester) ==
    CASE v.stage = "PENDING_MANAGER_APPROVAL" -> RoleOf[u] \in ManagerRoles
      [] v.stage = "PENDING_FINANCE_APPROVAL" ->
           IF v.verified THEN Matched(u, v) \/ IsAdmin(u)
                         ELSE RoleOf[u] \in FinanceDecideRoles
      [] v.stage = "ESCALATED" -> IsAdmin(u)
      [] v.stage = "PENDING_ROLE_APPROVAL" -> IsAdmin(u) \/ <<u, v.routed>> \in holds

(* Who may decide at each stage. *)
Authorised(u, v, requester) ==
    CASE v.stage = "PENDING_MANAGER_APPROVAL" -> RoleOf[u] \in ManagerRoles
      [] v.stage = "PENDING_FINANCE_APPROVAL" ->
           IF v.verified THEN Matched(u, v) \/ IsAdmin(u)
                         ELSE RoleOf[u] \in FinanceDecideRoles
      [] v.stage = "ESCALATED" -> IsAdmin(u)
      [] v.stage = "PENDING_ROLE_APPROVAL" ->
           /\ u # requester
           /\ IsAdmin(u) \/ <<u, v.routed>> \in holds

(* checkBudgetHeadroom runs for approvals of money at two of the stages. *)
NeedsHeadroom(c) ==
    /\ view[c].stage \in {"PENDING_FINANCE_APPROVAL", "ESCALATED"}
    /\ Approving(c)
    /\ view[c].amount > 0

Authorise(c) ==
    /\ pc[c] = "authorising"
    /\ IF Authorised(Actor(c), view[c], row[Req(c)].requester)
       THEN /\ view' = [view EXCEPT ![c].matched =
                          view[c].stage = "PENDING_FINANCE_APPROVAL"
                          /\ Matched(Actor(c), view[c])]
            /\ Goto(c, IF NeedsHeadroom(c) THEN "budgeting" ELSE "recording")
            /\ UNCHANGED lock
       ELSE Finish(c, "refused")
    /\ UNCHANGED <<directoryVars, requestVars, filer, job, faults>>

-----------------------------------------------------------------------------
(* getRemainingForDepartment: the pool, then two queries in parallel *)

InScope(r, s) == BudgetScope(row[r], deptOf) = s

TransactionsOf(s) == {r \in Requests : IsTransaction(row[r], attached[r]) /\ InScope(r, s)}
ReservationsOf(s) == {r \in Requests : IsReservation(row[r], attached[r]) /\ InScope(r, s)}

SpentBy(rs) == SumFunctionOnSet([r \in Requests |-> TransactionAmount(row[r], attached[r])], rs)
HeldBy(rs)  == SumFunctionOnSet([r \in Requests |-> row[r].stated], rs)

ReadBudget(c) ==
    /\ pc[c] = "budgeting"
    /\ IF budget[view[c].scope] = NoBudget
       THEN /\ Goto(c, "recording")
            /\ UNCHANGED view
       ELSE /\ Goto(c, "querying")
            /\ view' = [view EXCEPT ![c].alloc = budget[view[c].scope],
                                    ![c].queries = {"transactions", "reservations"}]
    /\ UNCHANGED <<directoryVars, requestVars, lock, filer, job, faults>>

QueryTransactions(c) ==
    /\ pc[c] = "querying"
    /\ "transactions" \in view[c].queries
    /\ view' = [view EXCEPT ![c].spent = TransactionsOf(view[c].scope),
                            ![c].queries = @ \ {"transactions"}]
    /\ UNCHANGED <<directoryVars, requestVars, lock, filer, job, pc, faults>>

QueryReservations(c) ==
    /\ pc[c] = "querying"
    /\ "reservations" \in view[c].queries
    /\ view' = [view EXCEPT ![c].held = ReservationsOf(view[c].scope),
                            ![c].queries = @ \ {"reservations"}]
    /\ UNCHANGED <<directoryVars, requestVars, lock, filer, job, pc, faults>>

\* Mutant: forgets what is reserved.
OverdrawsUnreserved(c) == view[c].amount + SpentBy(view[c].spent) > view[c].alloc

(* amount > allocated - spent - reserved throws.  The amounts of requests  *)
(* already decided do not change, so they may be summed here.              *)
Overdraws(c) ==
    view[c].amount + SpentBy(view[c].spent) + HeldBy(view[c].held) > view[c].alloc

CompareHeadroom(c) ==
    /\ pc[c] = "querying"
    /\ view[c].queries = {}
    /\ IF Overdraws(c) THEN Finish(c, "refused")
                       ELSE Goto(c, "recording") /\ UNCHANGED <<lock, view>>
    /\ UNCHANGED <<directoryVars, requestVars, filer, job, faults>>

-----------------------------------------------------------------------------
(* The writes of a decision *)

RecordApproval(c) ==
    /\ pc[c] = "recording"
    /\ approvals' = approvals \cup
         {[call |-> c, req |-> Req(c), stage |-> view[c].stage, by |-> Actor(c),
           decision |-> job[c].asked,
           amount |-> IF view[c].stage = "PENDING_ROLE_APPROVAL" THEN 0
                      ELSE view[c].amount,
           delegated |-> view[c].matched]}
    /\ view' = [view EXCEPT ![c].next =
                  DecidedStatus(view[c].stage, job[c].asked,
                                view[c].amount, view[c].verified)]
    /\ Goto(c, "completing")
    /\ UNCHANGED <<directoryVars, row, attached, timeline, audited, notices,
                   lock, filer, job, faults>>

ManagerApproves(c) == view[c].stage = "PENDING_MANAGER_APPROVAL" /\ Approving(c)

CompleteStage(c) ==
    /\ pc[c] = "completing"
    /\ timeline' = [timeline EXCEPT ![Req(c)] =
                      IF view[c].stage = "ESCALATED" THEN CompletedLatest(@)
                      ELSE Completed(@, AwaitingStep[view[c].stage])]
    /\ Goto(c, IF ManagerApproves(c) THEN "routing" ELSE "auditing")
    /\ UNCHANGED <<directoryVars, row, attached, approvals, audited, notices,
                   lock, filer, job, view, faults>>

(* A manager's approval goes on to Finance if some delegation covers it. *)
RouteToFinance(c) ==
    /\ pc[c] = "routing"
    /\ view' = [view EXCEPT ![c].next =
                  IF Covering(view[c].department, view[c].amount) # {}
                  THEN "PENDING_FINANCE_APPROVAL" ELSE "ESCALATED"]
    /\ Goto(c, "auditing")
    /\ UNCHANGED <<directoryVars, requestVars, lock, filer, job, faults>>

\* Mutant: rejections are not audited.
AuditedApprovals(c) == IF Approving(c) THEN audited \cup {c} ELSE audited

(* audit *)
Audited(c) == audited \cup {c}

AuditDecision(c) ==
    /\ pc[c] = "auditing"
    /\ audited' = Audited(c)
    /\ Goto(c, IF ManagerApproves(c) THEN "opening" ELSE "settling")
    /\ UNCHANGED <<directoryVars, row, attached, timeline, approvals, notices,
                   lock, filer, job, view, faults>>

OpenNextStage(c) ==
    /\ pc[c] = "opening"
    /\ AddStep(Req(c), AwaitingStep[view[c].next], TRUE)
    /\ Goto(c, "settling")
    /\ UNCHANGED <<directoryVars, row, attached, approvals, audited, notices,
                   lock, filer, job, view, faults>>

SettleDecision(c) ==
    /\ pc[c] = "settling"
    /\ SetStatus(Req(c), view[c].next)
    /\ Goto(c, "committing")
    /\ UNCHANGED <<directoryVars, attached, timeline, approvals, audited, notices,
                   lock, filer, job, view, faults>>

(* Committing a transaction that timed out throws, so nobody is told. *)
Commit(c) ==
    /\ pc[c] = "committing"
    /\ IF lock[Req(c)] = c
       THEN /\ lock' = Released(c)
            /\ Goto(c, "notifying")
            /\ UNCHANGED view
       ELSE Finish(c, "failed")
    /\ UNCHANGED <<directoryVars, requestVars, filer, job, faults>>

NoticeFor ==
    [s \in {"APPROVED", "REJECTED", "PENDING_PAYMENT"} |->
        CASE s = "APPROVED"        -> "REQUEST_APPROVED"
          [] s = "REJECTED"        -> "REQUEST_REJECTED"
          [] s = "PENDING_PAYMENT" -> "REQUEST_PENDING_PAYMENT"]

(* The requester hears of a final outcome; the holders of the role the     *)
(* request was also routed to hear that its money came through.            *)
NotifyDecision(c) ==
    LET next    == view[c].next
        holders == IF /\ next \in {"APPROVED", "PENDING_PAYMENT"}
                      /\ view[c].stage # "PENDING_ROLE_APPROVAL"
                   THEN {u \in Users : <<u, view[c].routed>> \in holds}
                   ELSE {}
    IN  /\ pc[c] = "notifying"
        /\ notices' = notices
             \cup (IF next \in DOMAIN NoticeFor
                   THEN {[to |-> row[Req(c)].requester, req |-> Req(c),
                          kind |-> NoticeFor[next]]}
                   ELSE {})
             \cup {[to |-> u, req |-> Req(c), kind |-> "REQUEST_ROUTED"] : u \in holders}
        /\ Finish(c, "done")
        /\ UNCHANGED <<directoryVars, row, attached, timeline, approvals, audited,
                       filer, job, faults>>

-----------------------------------------------------------------------------
(* attachProof takes no lock. *)

StartProof(c) ==
    /\ Begin(c, "proof")
    /\ \E r \in Filed, u \in Users, n \in 1..MaxFiles :
         /\ RoleOf[u] \in FinanceDecideRoles
         /\ job' = [job EXCEPT ![c] = [op |-> "proof", req |-> r, by |-> u, asked |-> "PAID"]]
         /\ view' = [view EXCEPT ![c].left = n]
    /\ Goto(c, "readingProof")
    /\ UNCHANGED <<directoryVars, requestVars, lock, filer, faults>>

Payable(r) == row[r].status = "PENDING_PAYMENT" /\ attached[r].count = 0

ReadForProof(c) ==
    /\ pc[c] = "readingProof"
    /\ IF Payable(Req(c))
       THEN Goto(c, "uploading") /\ UNCHANGED <<lock, view>>
       ELSE Finish(c, "refused")
    /\ UNCHANGED <<directoryVars, requestVars, filer, job, faults>>

(* OCR, upload, and one Attachment row, file after file *)
AttachFile(c) ==
    /\ pc[c] = "uploading"
    /\ \E t \in OcrTotals : Attach(Req(c), t)
    /\ view' = [view EXCEPT ![c].left = @ - 1]
    /\ Goto(c, IF view[c].left = 1 THEN "tracing" ELSE "uploading")
    /\ UNCHANGED <<directoryVars, row, timeline, approvals, audited, notices,
                   lock, filer, job, faults>>

TracePayment(c) ==
    /\ pc[c] = "tracing"
    /\ AddStep(Req(c), "Payment Sent", FALSE)
    /\ Goto(c, "auditingProof")
    /\ UNCHANGED <<directoryVars, row, attached, approvals, audited, notices,
                   lock, filer, job, view, faults>>

AuditPayment(c) ==
    /\ pc[c] = "auditingProof"
    /\ audited' = audited \cup {c}
    /\ Goto(c, "settlingProof")
    /\ UNCHANGED <<directoryVars, row, attached, timeline, approvals, notices,
                   lock, filer, job, view, faults>>

SettlePayment(c) ==
    /\ pc[c] = "settlingProof"
    /\ SetStatus(Req(c), "COMPLETED")
    /\ Goto(c, "notifyingProof")
    /\ UNCHANGED <<directoryVars, attached, timeline, approvals, audited, notices,
                   lock, filer, job, view, faults>>

NotifyPayment(c) ==
    /\ pc[c] = "notifyingProof"
    /\ notices' = notices \cup {[to |-> row[Req(c)].requester, req |-> Req(c),
                                 kind |-> "REQUEST_PAYMENT_SENT"]}
    /\ Finish(c, "done")
    /\ UNCHANGED <<directoryVars, row, attached, timeline, approvals, audited,
                   filer, job, faults>>

-----------------------------------------------------------------------------
(* report_request_progress lists the caller's open routed requests, then   *)
(* recordProgressNote reads the chosen one again (its role, not its        *)
(* status) and writes.  The text of the note is not modelled.              *)

MayReport(u, r) ==
    /\ row[r].routed # NoRole
    /\ IsAdmin(u) \/ <<u, row[r].routed>> \in holds

StartNote(c) ==
    /\ Begin(c, "note")
    /\ \E r \in Requests, u \in Users, a \in {"RESOLVED", "UPDATE"} :
         /\ row[r].status \in OpenRoutedStatuses
         /\ MayReport(u, r)
         /\ job' = [job EXCEPT ![c] = [op |-> "note", req |-> r, by |-> u, asked |-> a]]
    /\ Goto(c, "readingNote")
    /\ UNCHANGED <<directoryVars, requestVars, lock, filer, view, faults>>

ReadForNote(c) ==
    /\ pc[c] = "readingNote"
    /\ IF MayReport(Actor(c), Req(c))
       THEN Goto(c, "writingNote") /\ UNCHANGED <<lock, view>>
       ELSE Finish(c, "refused")
    /\ UNCHANGED <<directoryVars, requestVars, filer, job, faults>>

WriteNote(c) ==
    /\ pc[c] = "writingNote"
    /\ IF job[c].asked = "RESOLVED"
       THEN SetStatus(Req(c), "COMPLETED") /\ Goto(c, "notifyingNote")
       ELSE UNCHANGED row /\ Goto(c, "done")
    /\ UNCHANGED <<directoryVars, attached, timeline, approvals, audited, notices,
                   lock, filer, job, view, faults>>

NotifyNote(c) ==
    /\ pc[c] = "notifyingNote"
    /\ notices' = notices \cup {[to |-> row[Req(c)].requester, req |-> Req(c),
                                 kind |-> "REQUEST_PROGRESS"]}
    /\ Finish(c, "done")
    /\ UNCHANGED <<directoryVars, row, attached, timeline, approvals, audited,
                   filer, job, faults>>

-----------------------------------------------------------------------------
(* Faults *)

(* A query, an upload or the process fails: what was written stays. *)
Fail(c) ==
    /\ "fail" \in FaultKinds
    /\ faults > 0
    /\ pc[c] \in Active
    /\ faults' = faults - 1
    /\ Finish(c, "failed")
    /\ UNCHANGED <<directoryVars, requestVars, filer, job>>

(* After 20 s Prisma rolls the transaction back.  A call still waiting for *)
(* the lock fails; one that has it loses it, and its callback runs on.     *)
TimeOut(c) ==
    /\ "timeout" \in FaultKinds
    /\ faults > 0
    /\ faults' = faults - 1
    /\ \/ pc[c] = "waiting" /\ Finish(c, "failed")
       \/ /\ pc[c] \in Deciding
          /\ lock[Req(c)] = c
          /\ lock' = Released(c)
          /\ UNCHANGED <<pc, view>>
    /\ UNCHANGED <<directoryVars, requestVars, filer, job>>

-----------------------------------------------------------------------------
(* Administration.  Only two operations reach into the Request rows. *)

\* Mutant: rename forgets the Request rows.
RowKept(q, s, t) == q

RowRenamed(q, s, t) == [q EXCEPT !.budget = Renamed(@, s, t)]

RenameBudget(s, t) ==
    /\ RenameScope(s, t)
    /\ row' = [r \in Requests |-> RowRenamed(row[r], s, t)]
    /\ UNCHANGED <<attached, timeline, approvals, audited, notices, callVars>>

(* routed_role_id is ON DELETE SET NULL *)
RemoveRole(e) ==
    /\ DeleteRole(e)
    /\ row' = [r \in Requests |-> [row[r] EXCEPT !.routed = IF @ = e THEN NoRole ELSE @]]
    /\ UNCHANGED <<attached, timeline, approvals, audited, notices, callVars>>

Administer ==
    /\ \/ \E s \in Scopes, a \in Allocations : UpsertBudget(s, a)
       \/ \E s \in Scopes : RemoveBudget(s)
       \/ \E u \in Users, s \in Scopes \cup {NoScope} : SetDepartment(u, s)
       \/ \E e \in EmployeeRoles : CreateRole(e)
       \/ \E u \in Users, es \in SUBSET EmployeeRoles : SetUserRoles(u, es)
       \/ \E d \in Delegations, s \in Scopes : GrantDelegation(d, s)
       \/ \E d \in Delegations : RevokeDelegation(d)
    /\ UNCHANGED <<requestVars, callVars>>

-----------------------------------------------------------------------------

\* Mutant: files are never ingested.
FilerStepNoFiles(r) == CheckPolicy(r) \/ OpenFirstStage(r) \/ SettleFiling(r)
FilerStep(r) == Ingest(r) \/ CheckPolicy(r) \/ OpenFirstStage(r) \/ SettleFiling(r)

DecideStep(c) ==
    \/ Authorise(c) \/ ReadBudget(c) \/ QueryTransactions(c) \/ QueryReservations(c)
    \/ CompareHeadroom(c) \/ RecordApproval(c) \/ CompleteStage(c) \/ RouteToFinance(c)
    \/ AuditDecision(c) \/ OpenNextStage(c) \/ SettleDecision(c) \/ Commit(c)
    \/ NotifyDecision(c)

ProofStep(c) ==
    \/ ReadForProof(c) \/ AttachFile(c) \/ TracePayment(c) \/ AuditPayment(c)
    \/ SettlePayment(c) \/ NotifyPayment(c)

NoteStep(c) == ReadForNote(c) \/ WriteNote(c) \/ NotifyNote(c)

(* Every call of the instance has been served: nothing is left to do. *)
AllServed ==
    /\ \A c \in Calls : pc[c] \in Over
    /\ \A r \in Requests : filer[r].pc \in {"done", "failed"}
    /\ UNCHANGED vars

Next ==
    \/ \E r \in Requests : File(r) \/ FilerStep(r) \/ FailFiling(r)
    \/ \E c \in Calls : StartDecide(c) \/ LockAndRead(c) \/ DecideStep(c)
    \/ \E c \in Calls : StartProof(c) \/ ProofStep(c)
    \/ \E c \in Calls : StartNote(c) \/ NoteStep(c)
    \/ \E c \in Calls : Fail(c) \/ TimeOut(c)
    \/ \E s, t \in Scopes : RenameBudget(s, t)
    \/ \E e \in EmployeeRoles : RemoveRole(e)
    \/ Administer
    \/ AllServed

Spec == Init /\ [][Next]_vars

=============================================================================
