---------------------------- MODULE OutcomeProofs ----------------------------
(***************************************************************************)
(* What a request comes to: the trail of its decision, the money it was    *)
(* granted, what its requester is told, its timeline, that decisions are   *)
(* atomic, and that no pool is overdrawn.                                  *)
(*                                                                         *)
(* The proofs rest on one lemma, StepKinds: it says what each kind of step *)
(* changes, request by request and call by call, so that the proof of an   *)
(* invariant looks at a kind of step and no longer at the actions.         *)
(***************************************************************************)
EXTENDS DecisionProofs, FiniteSetTheorems, WellFoundedInduction

-----------------------------------------------------------------------------
(* Kinds of steps: a call, and everybody else undisturbed *)

OnJob(c) == Undisturbed(c) /\ UNCHANGED filer /\ job'[c] = job[c]

SameLocals(c) ==
    /\ view'[c].stage = view[c].stage
    /\ view'[c].amount = view[c].amount
    /\ view'[c].verified = view[c].verified
    /\ view'[c].scope = view[c].scope

GetsStatus(r, s) ==
    /\ row'[r] = [row[r] EXCEPT !.status = s]
    /\ \A x \in Requests \ {r} : row'[x] = row[x]

Starts(c) ==
    /\ Undisturbed(c)
    /\ UNCHANGED <<requestVars, filer, lock>>
    /\ pc[c] = "idle"
    /\ Cardinality({d \in Calls : pc[d] \in Active}) < MaxInFlight
    /\ \/ pc'[c] \in {"waiting", "readingProof"} /\ job'[c].op # "note"
       \/ /\ pc'[c] = "readingNote" /\ "note" \in Ops
          /\ job'[c].req \in Requests /\ filer[job'[c].req].pc = "done"
          /\ MayReport(job'[c].by, job'[c].req)

Quits(c) ==
    /\ OnJob(c)
    /\ UNCHANGED requestVars
    /\ pc'[c] \in Over
    /\ pc[c] \in {"notifyingNote"} \cup Over => pc'[c] = "failed"
    /\ FaultKinds = {} => pc[c] \notin Recorded \cup Paying

Locks(c) ==
    /\ OnJob(c)
    /\ UNCHANGED requestVars
    /\ pc[c] = "waiting" /\ pc'[c] = "authorising"
    /\ Req(c) \in Requests
    /\ row[Req(c)].status \in PendingStatuses
    /\ lock[Req(c)] = NoCall /\ lock'[Req(c)] = c
    /\ view'[c].stage = row[Req(c)].status
    /\ view'[c].amount = EffectiveAmount(row[Req(c)], attached[Req(c)])
    /\ view'[c].verified = HasVerifiedAttachment(attached[Req(c)])
    /\ view'[c].scope = ScopeOf(Req(c))

(* What a call that looks for headroom knows afterwards *)
Looks(c) ==
    LET v == view[c]
        w == view'[c]
    IN  \/ /\ pc[c] = "authorising"
           /\ pc'[c] = IF NeedsHeadroom(c) THEN "budgeting" ELSE "recording"
        \/ /\ pc[c] = "budgeting" /\ pc'[c] = "recording"
           /\ budget[v.scope] = NoBudget
        \/ /\ pc[c] = "budgeting" /\ pc'[c] = "querying"
           /\ w.alloc = budget[v.scope]
           /\ w.queries = {"transactions", "reservations"}
        \/ /\ pc[c] = "querying" /\ pc'[c] = "querying"
           /\ w.alloc = v.alloc
           /\ "transactions" \notin w.queries =>
                \/ w.spent = TransactionsOf(v.scope)
                \/ "transactions" \notin v.queries /\ w.spent = v.spent
           /\ "reservations" \notin w.queries =>
                \/ w.held = ReservationsOf(v.scope)
                \/ "reservations" \notin v.queries /\ w.held = v.held
        \/ /\ pc[c] = "querying" /\ pc'[c] = "recording"
           /\ v.queries = {} /\ ~Overdraws(c)

Prepares(c) ==
    /\ OnJob(c) /\ SameLocals(c)
    /\ UNCHANGED <<requestVars, lock>>
    /\ pc[c] \in {"authorising", "budgeting", "querying"}
    /\ pc'[c] \in {"budgeting", "querying", "recording"}
    /\ pc[c] = "authorising" => NotOwn(c)
    /\ Looks(c)

ApprovalOf(c) ==
    [call |-> c, req |-> Req(c), stage |-> view[c].stage, by |-> Actor(c),
     decision |-> job[c].asked,
     amount |-> IF view[c].stage = "PENDING_ROLE_APPROVAL" THEN 0 ELSE view[c].amount,
     delegated |-> view[c].matched]

Records(c) ==
    /\ OnJob(c) /\ SameLocals(c)
    /\ UNCHANGED <<row, attached, timeline, audited, notices, lock>>
    /\ pc[c] = "recording" /\ pc'[c] = "completing"
    /\ approvals' = approvals \cup {ApprovalOf(c)}
    /\ view'[c].next = DecidedStatus(view[c].stage, job[c].asked,
                                     view[c].amount, view[c].verified)

Completes(c) ==
    /\ OnJob(c)
    /\ UNCHANGED <<row, attached, approvals, audited, notices, lock, view>>
    /\ pc[c] = "completing"
    /\ pc'[c] = IF ManagerApproves(c) THEN "routing" ELSE "auditing"
    /\ \A r \in Requests \ {Req(c)} : timeline'[r] = timeline[r]
    /\ timeline'[Req(c)] = IF view[c].stage = "ESCALATED"
                           THEN CompletedLatest(timeline[Req(c)])
                           ELSE Completed(timeline[Req(c)], AwaitingStep[view[c].stage])

PassesOn(c) ==
    /\ OnJob(c) /\ SameLocals(c)
    /\ UNCHANGED <<requestVars, lock>>
    /\ pc[c] = "routing" /\ pc'[c] = "auditing"
    /\ ManagerApproves(c)
    /\ view'[c].next \in MoneyStages

Audits(c) ==
    /\ OnJob(c)
    /\ UNCHANGED <<row, attached, timeline, approvals, notices, lock, view>>
    /\ pc[c] = "auditing"
    /\ pc'[c] = IF ManagerApproves(c) THEN "opening" ELSE "settling"
    /\ audited' = audited \cup {c}

OpensNext(c) ==
    /\ OnJob(c)
    /\ UNCHANGED <<row, attached, approvals, audited, notices, lock, view>>
    /\ pc[c] = "opening" /\ pc'[c] = "settling"
    /\ ManagerApproves(c) /\ view[c].next \in MoneyStages
    /\ \A r \in Requests \ {Req(c)} : timeline'[r] = timeline[r]
    /\ timeline'[Req(c)] = Append(timeline[Req(c)], StepRow(AwaitingStep[view[c].next], TRUE))

Settles(c) ==
    /\ OnJob(c)
    /\ UNCHANGED <<attached, timeline, approvals, audited, notices, lock, view>>
    /\ pc[c] = "settling" /\ pc'[c] = "committing"
    /\ GetsStatus(Req(c), view[c].next)

Commits(c) ==
    /\ OnJob(c)
    /\ UNCHANGED <<requestVars, view>>
    /\ pc[c] = "committing" /\ pc'[c] = "notifying"

TellsOutcome(c) ==
    /\ OnJob(c)
    /\ UNCHANGED <<row, attached, timeline, approvals, audited>>
    /\ pc[c] = "notifying" /\ pc'[c] = "done"
    /\ \A n \in notices' :
         \/ n \in notices
         \/ /\ n.req = Req(c)
            /\ n.kind = "REQUEST_REJECTED" => view[c].next = "REJECTED"
            /\ Approves(n.kind) => view[c].next \in {"APPROVED", "PENDING_PAYMENT"}

TellsNews(c) ==
    /\ OnJob(c)
    /\ UNCHANGED <<row, attached, timeline, approvals, audited>>
    /\ pc[c] \in {"notifyingProof", "notifyingNote"} /\ pc'[c] = "done"
    /\ \A n \in notices' :
         n \in notices \/ n.kind \in {"REQUEST_PAYMENT_SENT", "REQUEST_PROGRESS"}

StartsUpload(c) ==
    /\ OnJob(c)
    /\ UNCHANGED requestVars
    /\ pc[c] = "readingProof" /\ pc'[c] = "uploading"
    /\ row[Req(c)].status = "PENDING_PAYMENT" /\ attached[Req(c)].count = 0

Gets(r, t) ==
    /\ t \in Nat
    /\ attached'[r].count = attached[r].count + 1
    /\ attached'[r].total = attached[r].total + t
    /\ \A x \in Requests \ {r} : attached'[x] = attached[x]

Attaches(c) ==
    /\ OnJob(c)
    /\ UNCHANGED <<row, timeline, approvals, audited, notices, lock>>
    /\ pc[c] = "uploading" /\ pc'[c] \in {"uploading", "tracing"}
    /\ \E t \in OcrTotals : Gets(Req(c), t)

Traces(c) ==
    /\ OnJob(c)
    /\ UNCHANGED <<row, attached, approvals, notices, lock>>
    /\ \/ /\ pc[c] = "tracing" /\ pc'[c] = "auditingProof"
          /\ audited' = audited
          /\ \A r \in Requests \ {Req(c)} : timeline'[r] = timeline[r]
          /\ timeline'[Req(c)] = Append(timeline[Req(c)], StepRow("Payment Sent", FALSE))
       \/ /\ pc[c] = "auditingProof" /\ pc'[c] = "settlingProof"
          /\ audited' = audited \cup {c}
          /\ timeline' = timeline

PaysOut(c) ==
    /\ OnJob(c)
    /\ UNCHANGED <<attached, timeline, approvals, audited, notices, lock>>
    /\ pc[c] = "settlingProof" /\ pc'[c] = "notifyingProof"
    /\ GetsStatus(Req(c), "COMPLETED")

Notes(c) ==
    /\ OnJob(c)
    /\ UNCHANGED <<attached, timeline, approvals, audited, notices, lock>>
    /\ \/ pc[c] = "readingNote" /\ pc'[c] = "writingNote" /\ row' = row
       \/ /\ pc[c] = "writingNote" /\ pc'[c] = "notifyingNote"
          /\ job[c].asked = "RESOLVED"
          /\ GetsStatus(Req(c), "COMPLETED")

LosesLock(c) ==
    /\ "timeout" \in FaultKinds
    /\ OnJob(c)
    /\ UNCHANGED <<requestVars, pc, view>>

CallStep(c) ==
    \/ Starts(c) \/ Quits(c) \/ Locks(c) \/ Prepares(c) \/ Records(c) \/ Completes(c)
    \/ PassesOn(c) \/ Audits(c) \/ OpensNext(c) \/ Settles(c) \/ Commits(c)
    \/ TellsOutcome(c) \/ TellsNews(c) \/ StartsUpload(c) \/ Attaches(c) \/ Traces(c)
    \/ PaysOut(c) \/ Notes(c) \/ LosesLock(c)

(* Kinds of steps: a filing, and no call *)

OnFiling(r) ==
    /\ UNCHANGED <<approvals, audited, notices, lock, job, pc, view>>
    /\ \A x \in Requests \ {r} :
         /\ row'[x] = row[x] /\ filer'[x] = filer[x]
         /\ attached'[x] = attached[x] /\ timeline'[x] = timeline[x]

Files(r) ==
    /\ OnFiling(r)
    /\ UNCHANGED attached
    /\ row[r].status = "UNFILED" /\ row'[r].status = "PENDING_POLICY_CHECK"
    /\ \/ /\ filer'[r].pc = "checking"
          /\ timeline'[r] = Append(timeline[r], Checking)
       \/ /\ filer'[r].pc = "ingesting"
          /\ row'[r].stated = 0 /\ ~row'[r].needsApproval
          /\ timeline' = timeline

Ingests(r) ==
    /\ OnFiling(r)
    /\ UNCHANGED <<row, timeline>>
    /\ filer[r].pc = "ingesting" /\ filer'[r].pc \in {"ingesting", "checking"}
    /\ \E t \in OcrTotals : Gets(r, t)

Checks(r) ==
    /\ OnFiling(r)
    /\ UNCHANGED <<row, attached>>
    /\ filer[r].pc = "checking" /\ filer'[r].pc = "opening"
    /\ filer'[r].next = PipelineStatus(row[r], attached[r])
    /\ timeline'[r] = Append(Completed(timeline[r], "Checking Policy..."), Routing)

OpensFirst(r) ==
    /\ OnFiling(r)
    /\ UNCHANGED <<row, attached>>
    /\ filer[r].pc = "opening" /\ filer'[r].pc = "settling"
    /\ filer'[r].next = filer[r].next
    /\ timeline'[r] = Append(timeline[r], StepRow(AwaitingStep[filer[r].next],
                                                  filer[r].next # "NOTED"))

Routes(r) ==
    /\ OnFiling(r)
    /\ UNCHANGED <<attached, timeline>>
    /\ filer[r].pc = "settling" /\ filer'[r].pc = "done"
    /\ filer[r].next \in DOMAIN AwaitingStep
    /\ row'[r] = [row[r] EXCEPT !.status = filer[r].next]

Abandons(r) ==
    /\ "fail" \in FaultKinds
    /\ OnFiling(r)
    /\ UNCHANGED requestVars
    /\ filer[r].pc \in {"ingesting", "checking", "opening", "settling"}
    /\ filer'[r].pc = "failed"

FilingStep(r) ==
    Files(r) \/ Ingests(r) \/ Checks(r) \/ OpensFirst(r) \/ Routes(r) \/ Abandons(r)

(* Kinds of steps: the administrators', which cut deleted roles off and     *)
(* rename departments.                                                      *)
Administers ==
    /\ UNCHANGED <<attached, timeline, approvals, audited, notices, callVars>>
    /\ \A r \in Requests :
         /\ row'[r].status = row[r].status
         /\ row'[r].requester = row[r].requester
         /\ row'[r].stated = row[r].stated
         /\ row'[r].needsApproval = row[r].needsApproval
         /\ row'[r].routed \in {row[r].routed, NoRole}
    /\ UNCHANGED vars \/ (adminOps > 0 /\ adminOps' = adminOps - 1)

-----------------------------------------------------------------------------
(* Each action is a step of some kind. *)

LEMMA AdministersStep ==
    ASSUME TypeInv,
           \/ \E s, t \in Scopes : RenameBudget(s, t)
           \/ \E e \in EmployeeRoles : RemoveRole(e)
           \/ Administer
           \/ UNCHANGED vars
    PROVE  Administers
<1>1. UNCHANGED <<attached, timeline, approvals, audited, notices, callVars>>
  BY DEF RenameBudget, RemoveRole, Administer, requestVars, vars
<1>2. ASSUME NEW r \in Requests
      PROVE  /\ row'[r].status = row[r].status
             /\ row'[r].requester = row[r].requester
             /\ row'[r].stated = row[r].stated
             /\ row'[r].needsApproval = row[r].needsApproval
             /\ row'[r].routed \in {row[r].routed, NoRole}
  <2>1. row[r] \in Row
    BY DEF TypeInv, TypeOK
  <2>2. CASE \E s, t \in Scopes : RenameBudget(s, t)
    BY <2>1, <2>2 DEF RenameBudget, RowRenamed, Row
  <2>3. CASE \E e \in EmployeeRoles : RemoveRole(e)
    BY <2>1, <2>3 DEF RemoveRole, Row
  <2>4. CASE Administer \/ UNCHANGED vars
    BY <2>4 DEF Administer, requestVars, vars
  <2> QED BY <2>2, <2>3, <2>4
<1>3. UNCHANGED vars \/ (adminOps > 0 /\ adminOps' = adminOps - 1)
  BY DEF RenameBudget, RemoveRole, Administer, RenameScope, DeleteRole, UpsertBudget,
     RemoveBudget, SetDepartment, CreateRole, SetUserRoles, GrantDelegation, RevokeDelegation,
     AdminOp
<1> QED BY <1>1, <1>2, <1>3 DEF Administers

LEMMA FilesStep ==
    ASSUME TypeInv, NEW r \in Requests, File(r)
    PROVE  Files(r)
<1>1. PICK f \in Filings :
        LET live == IF f.routed # NoRole THEN catalog[f.routed] = "live" ELSE FALSE
        IN  /\ row' = [row EXCEPT ![r] =
                         [status        |-> "PENDING_POLICY_CHECK",
                          requester     |-> f.requester,
                          stated        |-> f.stated,
                          budget        |-> f.budget,
                          routed        |-> IF live THEN f.routed ELSE NoRole,
                          needsApproval |-> live /\ f.needsApproval]]
            /\ filer' = [filer EXCEPT ![r] =
                           [pc |-> IF f.files > 0 THEN "ingesting" ELSE "checking",
                            left |-> f.files, next |-> "UNFILED"]]
            /\ IF f.files > 0 THEN UNCHANGED timeline
                              ELSE AddStep(r, "Checking Policy...", TRUE)
  BY DEF File
<1> DEFINE live == IF f.routed # NoRole THEN catalog[f.routed] = "live" ELSE FALSE
           q == [status        |-> "PENDING_POLICY_CHECK",
                 requester     |-> f.requester,
                 stated        |-> f.stated,
                 budget        |-> f.budget,
                 routed        |-> IF live THEN f.routed ELSE NoRole,
                 needsApproval |-> live /\ f.needsApproval]
<1>2. q.status = "PENDING_POLICY_CHECK" /\ q.stated = f.stated
      /\ (~f.needsApproval => ~q.needsApproval)
  OBVIOUS
<1>3. row' = [row EXCEPT ![r] = q]
  BY <1>1
<1> HIDE DEF q
<1>4. row'[r] = q /\ \A x \in Requests \ {r} : row'[x] = row[x]
  BY <1>3 DEF TypeInv, TypeOK
<1>5. /\ filer'[r].pc = IF f.files > 0 THEN "ingesting" ELSE "checking"
      /\ \A x \in Requests \ {r} : filer'[x] = filer[x]
  BY <1>1 DEF TypeInv, TypeOK
<1>6. /\ timeline'[r] = IF f.files > 0 THEN timeline[r] ELSE Append(timeline[r], Checking)
      /\ \A x \in Requests \ {r} : timeline'[x] = timeline[x]
      /\ f.files > 0 => timeline' = timeline
  BY <1>1 DEF AddStep, Checking, TypeInv, TypeOK
<1>7. UNCHANGED <<attached, approvals, audited, notices, lock, job, pc, view>>
      /\ row[r].status = "UNFILED"
  BY DEF File
<1>8. f.files > 0 => f.stated = 0 /\ ~f.needsApproval
  BY SlackFilings
<1>9. OnFiling(r)
  BY <1>4, <1>5, <1>6, <1>7 DEF OnFiling
<1>10. CASE f.files > 0
  BY <1>2, <1>4, <1>5, <1>6, <1>7, <1>8, <1>9, <1>10 DEF Files
<1>11. CASE ~(f.files > 0)
  BY <1>2, <1>4, <1>5, <1>6, <1>7, <1>9, <1>11 DEF Files
<1> QED BY <1>10, <1>11

LEMMA FilerSteps ==
    ASSUME TypeInv, NEW r \in Requests, FilerStep(r) \/ FailFiling(r)
    PROVE  FilingStep(r)
<1>1. CASE Ingest(r)
  <2>1. filer[r] \in Filer /\ r \in DOMAIN filer
    BY DEF TypeInv, TypeOK
  <2>2. filer'[r] = [filer[r] EXCEPT !.left = filer[r].left - 1,
                       !.pc = IF filer[r].left = 1 THEN "checking" ELSE filer[r].pc]
    BY <1>1, <2>1 DEF Ingest
  <2>3. filer'[r].pc \in {"ingesting", "checking"}
    BY <1>1, <2>1, <2>2 DEF Ingest, Filer
  <2>4. \E t \in OcrTotals : Gets(r, t)
    BY <1>1, OcrType DEF Ingest, Attach, Gets, TypeInv, TypeOK
  <2>5. OnFiling(r)
    BY <1>1 DEF OnFiling, Ingest, Attach, TypeInv, TypeOK
  <2> QED BY <1>1, <2>3, <2>4, <2>5 DEF Ingests, Ingest, FilingStep
<1>2. CASE CheckPolicy(r)
  <2>1. OnFiling(r)
    BY <1>2 DEF OnFiling, CheckPolicy, TypeInv, TypeOK
  <2>2. filer'[r].pc = "opening" /\ filer'[r].next = PipelineStatus(row[r], attached[r])
    BY <1>2 DEF CheckPolicy, TypeInv, TypeOK, Filer
  <2>3. timeline'[r] = Append(Completed(timeline[r], "Checking Policy..."), Routing)
    BY <1>2 DEF CheckPolicy, Routing, TypeInv, TypeOK
  <2> QED BY <1>2, <2>1, <2>2, <2>3 DEF Checks, CheckPolicy, FilingStep
<1>3. CASE OpenFirstStage(r)
  <2>1. OnFiling(r)
    BY <1>3 DEF OnFiling, OpenFirstStage, AddStep, TypeInv, TypeOK
  <2>2. filer'[r].pc = "settling" /\ filer'[r].next = filer[r].next
    BY <1>3 DEF OpenFirstStage, TypeInv, TypeOK, Filer
  <2>3. timeline'[r] = Append(timeline[r], StepRow(AwaitingStep[filer[r].next],
                                                   filer[r].next # "NOTED"))
    BY <1>3 DEF OpenFirstStage, AddStep, TypeInv, TypeOK
  <2> QED BY <1>3, <2>1, <2>2, <2>3 DEF OpensFirst, OpenFirstStage, FilingStep
<1>4. CASE SettleFiling(r)
  <2>1. OnFiling(r)
    BY <1>4 DEF OnFiling, SettleFiling, SetStatus, TypeInv, TypeOK
  <2>2. filer'[r].pc = "done" /\ row'[r] = [row[r] EXCEPT !.status = filer[r].next]
    BY <1>4 DEF SettleFiling, SetStatus, TypeInv, TypeOK, Filer
  <2>3. filer[r].next \in DOMAIN AwaitingStep
    BY <1>4 DEF SettleFiling, TypeInv, Locals, FilerFits
  <2> QED BY <1>4, <2>1, <2>2, <2>3 DEF Routes, SettleFiling, FilingStep
<1>5. CASE FailFiling(r)
  <2>1. OnFiling(r)
    BY <1>5 DEF OnFiling, FailFiling, requestVars, TypeInv, TypeOK
  <2>2. filer'[r].pc = "failed"
    BY <1>5 DEF FailFiling, TypeInv, TypeOK, Filer
  <2> QED BY <1>5, <2>1, <2>2 DEF Abandons, FailFiling, FilingStep
<1> QED BY <1>1, <1>2, <1>3, <1>4, <1>5 DEF FilerStep

(* A call that ends. *)
LEMMA FinishStep ==
    ASSUME TypeInv, NEW c \in Calls, NEW p \in Over, Finish(c, p), UNCHANGED <<filer, job>>
    PROVE  OnJob(c) /\ pc'[c] = p
<1>1. pc'[c] = p /\ \A d \in Calls \ {c} : pc'[d] = pc[d]
  BY Moved DEF Finish
<1>2. \A d \in Calls \ {c} : view'[d] = view[d]
  BY DEF Finish, TypeInv, TypeOK
<1>3. ASSUME NEW d \in Calls \ {c}, NEW r \in Requests, lock[r] = d
      PROVE  lock'[r] = d
  BY <1>3, ReleasedOthers DEF Finish
<1>4. Undisturbed(c)
  BY <1>1, <1>2, <1>3 DEF Undisturbed
<1> QED BY <1>1, <1>4 DEF OnJob

LEMMA RefusalStep ==
    ASSUME TypeInv, NEW c \in Calls, Finish(c, "refused"),
           pc[c] \in {"waiting", "authorising", "querying", "readingProof", "readingNote"},
           UNCHANGED <<requestVars, filer, job>>
    PROVE  CallStep(c)
<1>1. OnJob(c) /\ pc'[c] \in Over
  BY FinishStep, Places
<1>2. pc[c] \notin Recorded \cup Paying \cup {"notifyingNote"} \cup Over
  BY Groups DEF Paying, Proving, Noting
<1> QED BY <1>1, <1>2 DEF Quits, CallStep

LEMMA StartSteps ==
    ASSUME TypeInv, \A r \in Requests : FilingFits(r), NEW c \in Calls,
           StartDecide(c) \/ StartProof(c) \/ StartNote(c)
    PROVE  CallStep(c)
<1>1. /\ pc[c] = "idle" /\ UNCHANGED <<requestVars, filer, lock>>
      /\ Cardinality({d \in Calls : pc[d] \in Active}) < MaxInFlight
  BY DEF StartDecide, StartProof, StartNote, Begin
<1>2. Undisturbed(c)
  <2>1. \A d \in Calls \ {c} : pc'[d] = pc[d]
    BY Moved DEF StartDecide, StartProof, StartNote
  <2>2. \A d \in Calls \ {c} : job'[d] = job[d]
    BY DEF StartDecide, StartProof, StartNote, TypeInv, TypeOK
  <2>3. \A d \in Calls \ {c} : view'[d] = view[d]
    BY DEF StartDecide, StartProof, StartNote, TypeInv, TypeOK
  <2> QED BY <1>1, <2>1, <2>2, <2>3 DEF Undisturbed
<1>3. CASE StartDecide(c)
  <2>1. pc'[c] = "waiting"
    BY <1>3, Moved DEF StartDecide
  <2>2. job'[c].op # "note"
    BY <1>3 DEF StartDecide, TypeInv, TypeOK
  <2> QED BY <1>1, <1>2, <2>1, <2>2 DEF Starts, CallStep
<1>4. CASE StartProof(c)
  <2>1. pc'[c] = "readingProof"
    BY <1>4, Moved DEF StartProof
  <2>2. job'[c].op # "note"
    BY <1>4 DEF StartProof, TypeInv, TypeOK
  <2> QED BY <1>1, <1>2, <2>1, <2>2 DEF Starts, CallStep
<1>5. CASE StartNote(c)
  <2>1. pc'[c] = "readingNote" /\ "note" \in Ops
    BY <1>5, Moved DEF StartNote, Begin
  <2>2. PICK r \in Requests, u \in Users, x \in {"RESOLVED", "UPDATE"} :
          /\ row[r].status \in OpenRoutedStatuses
          /\ MayReport(u, r)
          /\ job' = [job EXCEPT ![c] = [op |-> "note", req |-> r, by |-> u, asked |-> x]]
    BY <1>5 DEF StartNote
  <2>3. job'[c].req = r /\ job'[c].by = u
    BY <2>2 DEF TypeInv, TypeOK
  <2>4. filer[r].pc = "done"
    BY <2>2 DEF FilingFits, OpenRoutedStatuses
  <2>5. MayReport(job'[c].by, job'[c].req)
    BY <2>2, <2>3
  <2> QED BY <1>1, <1>2, <2>1, <2>3, <2>4, <2>5 DEF Starts, CallStep
<1> QED BY <1>3, <1>4, <1>5

LEMMA LockStep ==
    ASSUME TypeInv, NEW c \in Calls, LockAndRead(c)
    PROVE  CallStep(c)
<1>1. pc[c] = "waiting" /\ lock[Req(c)] = NoCall /\ UNCHANGED <<requestVars, filer, job>>
  BY DEF LockAndRead, LockFree
<1>2. CASE Finish(c, "refused")
  BY <1>1, <1>2, RefusalStep
<1>3. CASE ~Finish(c, "refused")
  <2>1. /\ row[Req(c)].status \in PendingStatuses
        /\ lock' = [lock EXCEPT ![Req(c)] = c]
        /\ view' = [view EXCEPT ![c] = Snapshot(Req(c))]
        /\ Goto(c, "authorising")
    BY <1>3 DEF LockAndRead
  <2>2. Req(c) \in Requests
    BY <1>1, JobTypes DEF Deciders
  <2>3. /\ Snapshot(Req(c)).stage = row[Req(c)].status
        /\ Snapshot(Req(c)).amount = EffectiveAmount(row[Req(c)], attached[Req(c)])
        /\ Snapshot(Req(c)).verified = HasVerifiedAttachment(attached[Req(c)])
        /\ Snapshot(Req(c)).scope = ScopeOf(Req(c))
    BY Zenon DEF Snapshot, EmptyView, ScopeOf
  <2>4. pc'[c] = "authorising" /\ \A d \in Calls \ {c} : pc'[d] = pc[d]
    BY <2>1, Moved
  <2>5. view'[c] = Snapshot(Req(c)) /\ \A d \in Calls \ {c} : view'[d] = view[d]
    BY <2>1 DEF TypeInv, TypeOK
  <2>6. lock'[Req(c)] = c /\ \A r \in Requests \ {Req(c)} : lock'[r] = lock[r]
    BY <2>1, <2>2 DEF TypeInv, TypeOK
  <2>7. Undisturbed(c)
    BY <1>1, <2>4, <2>5, <2>6, CallsType DEF Undisturbed
  <2>8. OnJob(c)
    BY <1>1, <2>7 DEF OnJob
  <2> HIDE DEF Snapshot
  <2>9. Locks(c)
    BY <1>1, <2>1, <2>2, <2>3, <2>4, <2>5, <2>6, <2>8, Zenon DEF Locks
  <2> QED BY <2>9 DEF CallStep
<1> QED BY <1>2, <1>3

LEMMA AuthoriseStep ==
    ASSUME TypeInv, NEW c \in Calls, Authorise(c)
    PROVE  CallStep(c)
<1>1. pc[c] = "authorising" /\ UNCHANGED <<requestVars, filer, job>>
  BY DEF Authorise
<1>2. CASE Finish(c, "refused")
  BY <1>1, <1>2, RefusalStep
<1>3. CASE ~Finish(c, "refused")
  <2> DEFINE m == view[c].stage = "PENDING_FINANCE_APPROVAL" /\ Matched(Actor(c), view[c])
             v == [view[c] EXCEPT !.matched = m]
             q == IF NeedsHeadroom(c) THEN "budgeting" ELSE "recording"
  <2>1. Goto(c, q) /\ UNCHANGED lock /\ view' = [view EXCEPT ![c] = v]
        /\ Authorised(Actor(c), view[c], row[Req(c)].requester)
    BY <1>3 DEF Authorise
  <2>2. /\ v.stage = view[c].stage /\ v.amount = view[c].amount
        /\ v.verified = view[c].verified /\ v.scope = view[c].scope
    <3> HIDE DEF m
    <3> QED BY DEF TypeInv, TypeOK, View
  <2> HIDE DEF v
  <2>3. Undisturbed(c) /\ pc'[c] = q /\ view'[c] = v
    BY <1>1, <2>1, Reads
  <2>4. NotOwn(c)
    BY <2>1 DEF NotOwn, Authorised
  <2>5. Looks(c)
    BY <1>1, <2>3 DEF Looks
  <2>6. Prepares(c)
    BY <1>1, <2>1, <2>2, <2>3, <2>4, <2>5, Zenon DEF Prepares, OnJob, SameLocals
  <2> QED BY <2>6 DEF CallStep
<1> QED BY <1>2, <1>3

LEMMA ReadBudgetStep ==
    ASSUME TypeInv, NEW c \in Calls, ReadBudget(c)
    PROVE  CallStep(c)
<1>1. pc[c] = "budgeting" /\ UNCHANGED <<requestVars, lock, filer, job>>
  BY DEF ReadBudget
<1>2. CASE budget[view[c].scope] = NoBudget
  <2>1. Undisturbed(c) /\ pc'[c] = "recording" /\ UNCHANGED view
    BY <1>1, <1>2, GoesOn DEF ReadBudget
  <2>2. Looks(c)
    BY <1>1, <1>2, <2>1 DEF Looks
  <2> QED BY <1>1, <2>1, <2>2 DEF Prepares, OnJob, SameLocals, CallStep
<1>3. CASE budget[view[c].scope] # NoBudget
  <2> DEFINE w == [view[c] EXCEPT !.alloc = budget[view[c].scope]]
             v == [w EXCEPT !.queries = {"transactions", "reservations"}]
  <2>1. Goto(c, "querying") /\ view' = [view EXCEPT ![c] = v]
    BY <1>3 DEF ReadBudget
  <2>2. /\ v.stage = view[c].stage /\ v.amount = view[c].amount
        /\ v.verified = view[c].verified /\ v.scope = view[c].scope
        /\ v.alloc = budget[view[c].scope] /\ v.queries = {"transactions", "reservations"}
    BY DEF TypeInv, TypeOK, View
  <2> HIDE DEF v
  <2>3. Undisturbed(c) /\ pc'[c] = "querying" /\ view'[c] = v
    BY <1>1, <2>1, Reads
  <2>4. Looks(c)
    BY <1>1, <2>2, <2>3 DEF Looks
  <2> QED BY <1>1, <2>2, <2>3, <2>4 DEF Prepares, OnJob, SameLocals, CallStep
<1> QED BY <1>2, <1>3

LEMMA QuerySteps ==
    ASSUME TypeInv, NEW c \in Calls, QueryTransactions(c) \/ QueryReservations(c)
    PROVE  CallStep(c)
<1>1. pc[c] = "querying" /\ UNCHANGED <<requestVars, lock, filer, job, pc>>
  BY DEF QueryTransactions, QueryReservations
<1>2. \A d \in Calls \ {c} : view'[d] = view[d]
  BY DEF QueryTransactions, QueryReservations, TypeInv, TypeOK
<1>3. SameLocals(c)
  BY DEF SameLocals, QueryTransactions, QueryReservations, TypeInv, TypeOK, View
<1>4. OnJob(c)
  BY <1>1, <1>2 DEF OnJob, Undisturbed
<1>5. view[c] \in View
  BY DEF TypeInv, TypeOK
<1>6. CASE QueryTransactions(c)
  <2> DEFINE t == TransactionsOf(view[c].scope)
  <2>1. /\ view'[c].alloc = view[c].alloc /\ view'[c].spent = t
        /\ view'[c].held = view[c].held
        /\ view'[c].queries = view[c].queries \ {"transactions"}
    <3> HIDE DEF t
    <3>1. view' = [view EXCEPT ![c].spent = t, ![c].queries = @ \ {"transactions"}]
      BY <1>6 DEF QueryTransactions, t
    <3> QED BY <1>5, <3>1 DEF TypeInv, TypeOK, View
  <2> QED BY <1>1, <1>3, <1>4, <2>1 DEF Looks, Prepares, CallStep
<1>7. CASE QueryReservations(c)
  <2> DEFINE t == ReservationsOf(view[c].scope)
  <2>1. /\ view'[c].alloc = view[c].alloc /\ view'[c].held = t
        /\ view'[c].spent = view[c].spent
        /\ view'[c].queries = view[c].queries \ {"reservations"}
    <3> HIDE DEF t
    <3>1. view' = [view EXCEPT ![c].held = t, ![c].queries = @ \ {"reservations"}]
      BY <1>7 DEF QueryReservations, t
    <3> QED BY <1>5, <3>1 DEF TypeInv, TypeOK, View
  <2> QED BY <1>1, <1>3, <1>4, <2>1 DEF Looks, Prepares, CallStep
<1> QED BY <1>6, <1>7

LEMMA CompareStep ==
    ASSUME TypeInv, NEW c \in Calls, CompareHeadroom(c)
    PROVE  CallStep(c)
<1>1. /\ pc[c] = "querying" /\ view[c].queries = {}
      /\ UNCHANGED <<requestVars, filer, job>>
  BY DEF CompareHeadroom
<1>2. CASE Overdraws(c)
  BY <1>1, <1>2, RefusalStep DEF CompareHeadroom
<1>3. CASE ~Overdraws(c)
  <2>1. Goto(c, "recording") /\ UNCHANGED <<lock, view>>
    BY <1>3 DEF CompareHeadroom
  <2>2. Undisturbed(c) /\ pc'[c] = "recording"
    BY <1>1, <2>1, GoesOn
  <2>3. Looks(c)
    BY <1>1, <1>3, <2>2 DEF Looks
  <2> QED BY <1>1, <2>1, <2>2, <2>3 DEF Prepares, OnJob, SameLocals, CallStep
<1> QED BY <1>2, <1>3

LEMMA RecordStep ==
    ASSUME TypeInv, NEW c \in Calls, RecordApproval(c)
    PROVE  CallStep(c)
<1> DEFINE s == DecidedStatus(view[c].stage, job[c].asked, view[c].amount, view[c].verified)
           v == [view[c] EXCEPT !.next = s]
<1>1. /\ pc[c] = "recording" /\ Goto(c, "completing")
      /\ approvals' = approvals \cup {ApprovalOf(c)}
      /\ view' = [view EXCEPT ![c] = v]
      /\ UNCHANGED <<row, attached, timeline, audited, notices, lock, filer, job>>
  BY DEF RecordApproval, ApprovalOf
<1>2. /\ v.stage = view[c].stage /\ v.amount = view[c].amount
      /\ v.verified = view[c].verified /\ v.scope = view[c].scope /\ v.next = s
  <2> HIDE DEF s
  <2> QED BY DEF TypeInv, TypeOK, View
<1> HIDE DEF v
<1>3. Undisturbed(c) /\ pc'[c] = "completing" /\ view'[c] = v
  BY <1>1, Reads
<1>4. Records(c)
  BY <1>1, <1>2, <1>3, Zenon DEF Records, OnJob, SameLocals
<1> QED BY <1>4 DEF CallStep

(* A timeline step of one request *)
LEMMA TimelineAt ==
    ASSUME TypeInv, NEW r \in Requests, NEW t, timeline' = [timeline EXCEPT ![r] = t]
    PROVE  timeline'[r] = t /\ \A x \in Requests \ {r} : timeline'[x] = timeline[x]
BY DEF TypeInv, TypeOK

LEMMA WriteSteps ==
    ASSUME TypeInv, NEW c \in Calls,
           CompleteStage(c) \/ AuditDecision(c) \/ OpenNextStage(c)
    PROVE  CallStep(c)
<1>1. UNCHANGED <<row, attached, approvals, notices, lock, filer, job, view>>
  BY DEF CompleteStage, AuditDecision, OpenNextStage
<1>2. CASE CompleteStage(c)
  <2> DEFINE t == IF view[c].stage = "ESCALATED" THEN CompletedLatest(timeline[Req(c)])
                  ELSE Completed(timeline[Req(c)], AwaitingStep[view[c].stage])
  <2>1. /\ pc[c] = "completing"
        /\ Goto(c, IF ManagerApproves(c) THEN "routing" ELSE "auditing")
        /\ timeline' = [timeline EXCEPT ![Req(c)] = t]
        /\ UNCHANGED audited
    BY <1>2 DEF CompleteStage
  <2>2. Req(c) \in Requests
    BY <2>1, DecidingTypes, Groups
  <2>3. timeline'[Req(c)] = t /\ \A r \in Requests \ {Req(c)} : timeline'[r] = timeline[r]
    <3> HIDE DEF t
    <3> QED BY <2>1, <2>2, TimelineAt
  <2>4. Undisturbed(c) /\ pc'[c] = IF ManagerApproves(c) THEN "routing" ELSE "auditing"
    BY <1>1, <2>1, GoesOn
  <2> QED BY <1>1, <2>1, <2>3, <2>4 DEF Completes, OnJob, CallStep
<1>3. CASE AuditDecision(c)
  <2>1. /\ pc[c] = "auditing"
        /\ Goto(c, IF ManagerApproves(c) THEN "opening" ELSE "settling")
        /\ audited' = audited \cup {c}
        /\ UNCHANGED timeline
    BY <1>3 DEF AuditDecision, Audited
  <2>2. Undisturbed(c) /\ pc'[c] = IF ManagerApproves(c) THEN "opening" ELSE "settling"
    BY <1>1, <2>1, GoesOn
  <2> QED BY <1>1, <2>1, <2>2 DEF Audits, OnJob, CallStep
<1>4. CASE OpenNextStage(c)
  <2> DEFINE t == Append(timeline[Req(c)], StepRow(AwaitingStep[view[c].next], TRUE))
  <2>1. /\ pc[c] = "opening" /\ Goto(c, "settling")
        /\ timeline' = [timeline EXCEPT ![Req(c)] = t]
        /\ UNCHANGED audited
    BY <1>4 DEF OpenNextStage, AddStep
  <2>2. Req(c) \in Requests
    BY <2>1, DecidingTypes, Groups
  <2>3. timeline'[Req(c)] = t /\ \A r \in Requests \ {Req(c)} : timeline'[r] = timeline[r]
    <3> HIDE DEF t
    <3> QED BY <2>1, <2>2, TimelineAt
  <2>4. Undisturbed(c) /\ pc'[c] = "settling"
    BY <1>1, <2>1, GoesOn
  <2>5. ManagerApproves(c) /\ view[c].next \in MoneyStages
    BY <2>1 DEF TypeInv, Locals, Fits, ManagerApproves, Approving
  <2> QED BY <1>1, <2>1, <2>3, <2>4, <2>5 DEF OpensNext, OnJob, CallStep
<1> QED BY <1>2, <1>3, <1>4

LEMMA RouteStep ==
    ASSUME TypeInv, NEW c \in Calls, RouteToFinance(c)
    PROVE  CallStep(c)
<1>1. pc[c] = "routing" /\ UNCHANGED <<requestVars, lock, filer, job>>
  BY DEF RouteToFinance
<1> DEFINE n == IF Covering(view[c].department, view[c].amount) # {}
                THEN "PENDING_FINANCE_APPROVAL" ELSE "ESCALATED"
           v == [view[c] EXCEPT !.next = n]
<1>2. /\ v.stage = view[c].stage /\ v.amount = view[c].amount
      /\ v.verified = view[c].verified /\ v.scope = view[c].scope
      /\ v.next \in MoneyStages
  BY DEF TypeInv, TypeOK, View, MoneyStages
<1>3. Goto(c, "auditing") /\ view' = [view EXCEPT ![c] = v]
  BY DEF RouteToFinance
<1> HIDE DEF v
<1>4. Undisturbed(c) /\ pc'[c] = "auditing" /\ view'[c] = v
  BY <1>1, <1>3, Reads
<1>5. ManagerApproves(c)
  BY <1>1 DEF TypeInv, Locals, Fits, ManagerApproves, Approving
<1> QED BY <1>1, <1>2, <1>4, <1>5 DEF PassesOn, OnJob, SameLocals, CallStep

LEMMA StatusAt ==
    ASSUME TypeInv, NEW r \in Requests, NEW s, SetStatus(r, s)
    PROVE  GetsStatus(r, s)
BY DEF SetStatus, GetsStatus, TypeInv, TypeOK

LEMMA SettleSteps ==
    ASSUME TypeInv, NEW c \in Calls, SettleDecision(c) \/ SettlePayment(c)
    PROVE  CallStep(c)
<1>1. UNCHANGED <<attached, timeline, approvals, audited, notices, lock, filer, job, view>>
  BY DEF SettleDecision, SettlePayment
<1>2. CASE SettleDecision(c)
  <2>1. pc[c] = "settling" /\ Goto(c, "committing") /\ SetStatus(Req(c), view[c].next)
    BY <1>2 DEF SettleDecision
  <2>2. Undisturbed(c) /\ pc'[c] = "committing"
    BY <1>1, <2>1, GoesOn
  <2>3. GetsStatus(Req(c), view[c].next)
    BY <2>1, DecidingTypes, Groups, StatusAt
  <2> QED BY <1>1, <2>1, <2>2, <2>3 DEF Settles, OnJob, CallStep
<1>3. CASE SettlePayment(c)
  <2>1. pc[c] = "settlingProof" /\ Goto(c, "notifyingProof") /\ SetStatus(Req(c), "COMPLETED")
    BY <1>3 DEF SettlePayment
  <2>2. Undisturbed(c) /\ pc'[c] = "notifyingProof"
    BY <1>1, <2>1, GoesOn
  <2>3. GetsStatus(Req(c), "COMPLETED")
    BY <2>1, ProvingTypes, StatusAt DEF Proving
  <2> QED BY <1>1, <2>1, <2>2, <2>3 DEF PaysOut, OnJob, CallStep
<1> QED BY <1>2, <1>3

LEMMA CommitStep ==
    ASSUME TypeInv, NEW c \in Calls, Commit(c)
    PROVE  CallStep(c)
<1>1. pc[c] = "committing" /\ UNCHANGED <<requestVars, filer, job>>
  BY DEF Commit
<1>2. CASE Finish(c, "failed")
  <2>1. OnJob(c) /\ pc'[c] = "failed" /\ pc'[c] \in Over
    BY <1>1, <1>2, FinishStep, Places
  <2>2. pc[c] \notin Recorded \cup Paying
    BY <1>1, Groups DEF Paying
  <2> QED BY <1>1, <2>1, <2>2 DEF Quits, CallStep
<1>3. CASE ~Finish(c, "failed")
  <2>1. lock' = Released(c) /\ Goto(c, "notifying") /\ UNCHANGED view
    BY <1>3 DEF Commit
  <2>2. pc'[c] = "notifying" /\ \A d \in Calls \ {c} : pc'[d] = pc[d]
    BY <2>1, Moved
  <2>3. Undisturbed(c)
    BY <1>1, <2>1, <2>2, ReleasedOthers DEF Undisturbed
  <2> QED BY <1>1, <2>1, <2>2, <2>3 DEF Commits, OnJob, CallStep
<1> QED BY <1>2, <1>3

LEMMA NotifySteps ==
    ASSUME TypeInv, NEW c \in Calls,
           NotifyDecision(c) \/ NotifyPayment(c) \/ NotifyNote(c)
    PROVE  CallStep(c)
<1>1. UNCHANGED <<row, attached, timeline, approvals, audited, filer, job>>
      /\ Finish(c, "done")
  BY DEF NotifyDecision, NotifyPayment, NotifyNote
<1>2. OnJob(c) /\ pc'[c] = "done"
  BY <1>1, FinishStep, Places
<1>3. CASE NotifyDecision(c)
  <2> DEFINE next == view[c].next
             holders == IF /\ next \in {"APPROVED", "PENDING_PAYMENT"}
                           /\ view[c].stage # "PENDING_ROLE_APPROVAL"
                        THEN {u \in Users : <<u, view[c].routed>> \in holds}
                        ELSE {}
             told == IF next \in DOMAIN NoticeFor
                     THEN {[to |-> row[Req(c)].requester, req |-> Req(c),
                            kind |-> NoticeFor[next]]}
                     ELSE {}
             routed == {[to |-> u, req |-> Req(c), kind |-> "REQUEST_ROUTED"] : u \in holders}
  <2>1. pc[c] = "notifying" /\ notices' = notices \cup told \cup routed
    BY <1>3 DEF NotifyDecision
  <2>2. ASSUME NEW n \in told
        PROVE  /\ n.req = Req(c)
               /\ n.kind = "REQUEST_REJECTED" => next = "REJECTED"
               /\ Approves(n.kind) => next \in {"APPROVED", "PENDING_PAYMENT"}
    BY <2>2 DEF NoticeFor, Approves
  <2>3. ASSUME NEW n \in routed
        PROVE  /\ n.req = Req(c) /\ n.kind = "REQUEST_ROUTED"
               /\ next \in {"APPROVED", "PENDING_PAYMENT"}
    <3>1. PICK u \in holders : n = [to |-> u, req |-> Req(c), kind |-> "REQUEST_ROUTED"]
      BY <2>3
    <3>2. holders # {}
      BY <3>1
    <3> QED BY <3>1, <3>2
  <2> HIDE DEF told, routed, holders
  <2> QED BY <1>1, <1>2, <2>1, <2>2, <2>3 DEF TellsOutcome, CallStep
<1>4. CASE NotifyPayment(c) \/ NotifyNote(c)
  <2>1. pc[c] \in {"notifyingProof", "notifyingNote"}
    BY <1>4 DEF NotifyPayment, NotifyNote
  <2>2. \A n \in notices' :
          n \in notices \/ n.kind \in {"REQUEST_PAYMENT_SENT", "REQUEST_PROGRESS"}
    BY <1>4 DEF NotifyPayment, NotifyNote
  <2> QED BY <1>1, <1>2, <2>1, <2>2 DEF TellsNews, CallStep
<1> QED BY <1>3, <1>4

LEMMA ProofSteps ==
    ASSUME TypeInv, NEW c \in Calls,
           ReadForProof(c) \/ AttachFile(c) \/ TracePayment(c) \/ AuditPayment(c)
    PROVE  CallStep(c)
<1>1. CASE ReadForProof(c)
  <2>1. pc[c] = "readingProof" /\ UNCHANGED <<requestVars, filer, job>>
    BY <1>1 DEF ReadForProof
  <2>2. CASE Finish(c, "refused")
    BY <2>1, <2>2, RefusalStep
  <2>3. CASE ~Finish(c, "refused")
    <3>1. Payable(Req(c)) /\ Goto(c, "uploading") /\ UNCHANGED <<lock, view>>
      BY <1>1, <2>3 DEF ReadForProof
    <3>2. Undisturbed(c) /\ pc'[c] = "uploading"
      BY <2>1, <3>1, GoesOn
    <3> QED BY <2>1, <3>1, <3>2 DEF StartsUpload, OnJob, Payable, CallStep
  <2> QED BY <2>2, <2>3
<1>2. CASE AttachFile(c)
  <2>1. pc[c] = "uploading" /\ UNCHANGED <<row, timeline, approvals, audited, notices,
                                           lock, filer, job>>
    BY <1>2 DEF AttachFile
  <2>2. Req(c) \in Requests
    BY <2>1, ProvingTypes DEF Proving
  <2>3. \E t \in OcrTotals : Gets(Req(c), t)
    BY <1>2, <2>2, OcrType DEF AttachFile, Attach, Gets, TypeInv, TypeOK
  <2>4. \A d \in Calls \ {c} : view'[d] = view[d]
    BY <1>2 DEF AttachFile, TypeInv, TypeOK
  <2>5. PICK q \in {"uploading", "tracing"} : Goto(c, q)
    BY <1>2 DEF AttachFile
  <2>6. pc'[c] = q /\ Undisturbed(c)
    BY <2>1, <2>4, <2>5, Moved DEF Undisturbed
  <2> QED BY <2>1, <2>3, <2>6 DEF Attaches, OnJob, CallStep
<1>3. CASE TracePayment(c)
  <2> DEFINE t == Append(timeline[Req(c)], StepRow("Payment Sent", FALSE))
  <2>1. /\ pc[c] = "tracing" /\ Goto(c, "auditingProof")
        /\ timeline' = [timeline EXCEPT ![Req(c)] = t]
        /\ UNCHANGED <<row, attached, approvals, audited, notices, lock, filer, job, view>>
    BY <1>3 DEF TracePayment, AddStep
  <2>2. Req(c) \in Requests
    BY <2>1, ProvingTypes DEF Proving
  <2>3. timeline'[Req(c)] = t /\ \A r \in Requests \ {Req(c)} : timeline'[r] = timeline[r]
    <3> HIDE DEF t
    <3> QED BY <2>1, <2>2, TimelineAt
  <2>4. Undisturbed(c) /\ pc'[c] = "auditingProof"
    BY <2>1, GoesOn
  <2> QED BY <2>1, <2>3, <2>4 DEF Traces, OnJob, CallStep
<1>4. CASE AuditPayment(c)
  <2>1. /\ pc[c] = "auditingProof" /\ Goto(c, "settlingProof")
        /\ audited' = audited \cup {c}
        /\ UNCHANGED <<row, attached, timeline, approvals, notices, lock, filer, job, view>>
    BY <1>4 DEF AuditPayment
  <2>2. Undisturbed(c) /\ pc'[c] = "settlingProof"
    BY <2>1, GoesOn
  <2> QED BY <2>1, <2>2 DEF Traces, OnJob, CallStep
<1> QED BY <1>1, <1>2, <1>3, <1>4

LEMMA NoteSteps ==
    ASSUME TypeInv, NEW c \in Calls, ReadForNote(c) \/ WriteNote(c)
    PROVE  CallStep(c)
<1>1. CASE ReadForNote(c)
  <2>1. pc[c] = "readingNote" /\ UNCHANGED <<requestVars, filer, job>>
    BY <1>1 DEF ReadForNote
  <2>2. CASE Finish(c, "refused")
    BY <2>1, <2>2, RefusalStep
  <2>3. CASE ~Finish(c, "refused")
    <3>1. Goto(c, "writingNote") /\ UNCHANGED <<lock, view>>
      BY <1>1, <2>3 DEF ReadForNote
    <3>2. Undisturbed(c) /\ pc'[c] = "writingNote"
      BY <2>1, <3>1, GoesOn
    <3> QED BY <2>1, <3>1, <3>2 DEF Notes, OnJob, CallStep, requestVars
  <2> QED BY <2>2, <2>3
<1>2. CASE WriteNote(c)
  <2>1. pc[c] = "writingNote"
        /\ UNCHANGED <<attached, timeline, approvals, audited, notices, lock, filer, job, view>>
    BY <1>2 DEF WriteNote
  <2>2. CASE /\ job[c].asked = "RESOLVED"
             /\ SetStatus(Req(c), "COMPLETED") /\ Goto(c, "notifyingNote")
    <3>1. Undisturbed(c) /\ pc'[c] = "notifyingNote"
      BY <2>1, <2>2, GoesOn
    <3>2. Req(c) \in Requests
      BY <2>1, InFlightTypes DEF Noting
    <3>3. GetsStatus(Req(c), "COMPLETED")
      BY <2>2, <3>2, StatusAt
    <3> QED BY <2>1, <2>2, <3>1, <3>3 DEF Notes, OnJob, CallStep
  <2>3. CASE UNCHANGED row /\ Goto(c, "done")
    <3>1. Undisturbed(c) /\ pc'[c] = "done"
      BY <2>1, <2>3, GoesOn
    <3>2. pc[c] \notin Recorded \cup Paying \cup {"notifyingNote"} \cup Over
      BY <2>1, Groups DEF Paying, Noting
    <3> QED BY <2>1, <2>3, <3>1, <3>2, Places DEF Quits, OnJob, CallStep, requestVars
  <2> QED BY <1>2, <2>2, <2>3 DEF WriteNote
<1> QED BY <1>1, <1>2

LEMMA FaultSteps ==
    ASSUME TypeInv, NEW c \in Calls, Fail(c) \/ TimeOut(c)
    PROVE  CallStep(c)
<1>1. UNCHANGED <<requestVars, filer, job>> /\ FaultKinds # {}
  BY DEF Fail, TimeOut
<1>2. CASE Finish(c, "failed")
  <2>1. OnJob(c) /\ pc'[c] = "failed" /\ pc'[c] \in Over
    BY <1>1, <1>2, FinishStep, Places
  <2> QED BY <1>1, <2>1 DEF Quits, CallStep
<1>3. CASE ~Finish(c, "failed")
  <2>1. "timeout" \in FaultKinds /\ lock' = Released(c) /\ UNCHANGED <<pc, view>>
    BY <1>3 DEF Fail, TimeOut
  <2>2. Undisturbed(c)
    BY <1>1, <2>1, ReleasedOthers DEF Undisturbed
  <2> QED BY <1>1, <2>1, <2>2 DEF LosesLock, OnJob, CallStep
<1> QED BY <1>2, <1>3

(* What a step may change; the directory is the administrators'. *)
LEMMA StepKinds ==
    ASSUME TypeInv, \A r \in Requests : FilingFits(r), [Next]_vars
    PROVE  \/ Administers
           \/ UNCHANGED directoryVars /\ \E r \in Requests : FilingStep(r)
           \/ UNCHANGED directoryVars /\ \E c \in Calls : CallStep(c)
<1>1. ASSUME NEW r \in Requests, File(r) \/ FilerStep(r) \/ FailFiling(r)
      PROVE  FilingStep(r) /\ UNCHANGED directoryVars
  <2>1. FilingStep(r)
    BY <1>1, FilesStep, FilerSteps DEF FilingStep
  <2>2. UNCHANGED directoryVars
    BY <1>1 DEF File, FilerStep, FailFiling, Ingest, CheckPolicy, OpenFirstStage, SettleFiling
  <2> QED BY <2>1, <2>2
<1>2. ASSUME NEW c \in Calls, StartDecide(c) \/ LockAndRead(c) \/ DecideStep(c)
      PROVE  CallStep(c) /\ UNCHANGED directoryVars
  <2>1. CallStep(c)
    BY <1>2, StartSteps, LockStep, AuthoriseStep, ReadBudgetStep, QuerySteps, CompareStep,
       RecordStep, WriteSteps, RouteStep, SettleSteps, CommitStep, NotifySteps DEF DecideStep
  <2>2. UNCHANGED directoryVars
    BY <1>2 DEF StartDecide, LockAndRead, DecideStep, Authorise, ReadBudget, QueryTransactions,
       QueryReservations, CompareHeadroom, RecordApproval, CompleteStage, RouteToFinance,
       AuditDecision, OpenNextStage, SettleDecision, Commit, NotifyDecision
  <2> QED BY <2>1, <2>2
<1>3. ASSUME NEW c \in Calls,
             StartProof(c) \/ ProofStep(c) \/ StartNote(c) \/ NoteStep(c) \/ Fail(c) \/ TimeOut(c)
      PROVE  CallStep(c) /\ UNCHANGED directoryVars
  <2>1. CallStep(c)
    BY <1>3, StartSteps, ProofSteps, SettleSteps, NoteSteps, NotifySteps, FaultSteps
       DEF ProofStep, NoteStep
  <2>2. UNCHANGED directoryVars
    BY <1>3 DEF StartProof, ProofStep, ReadForProof, AttachFile, TracePayment, AuditPayment,
       SettlePayment, NotifyPayment, StartNote, NoteStep, ReadForNote, WriteNote, NotifyNote,
       Fail, TimeOut
  <2> QED BY <2>1, <2>2
<1>4. ASSUME \/ \E s, t \in Scopes : RenameBudget(s, t)
             \/ \E e \in EmployeeRoles : RemoveRole(e)
             \/ Administer \/ AllServed \/ UNCHANGED vars
      PROVE  Administers
  BY <1>4, AdministersStep DEF AllServed
<1> QED BY <1>1, <1>2, <1>3, <1>4 DEF Next

-----------------------------------------------------------------------------
(* The trail of an outcome *)

SameDetails(r) ==
    /\ row'[r].requester = row[r].requester
    /\ row'[r].stated = row[r].stated
    /\ row'[r].needsApproval = row[r].needsApproval
    /\ row'[r].routed = row[r].routed

LEMMA GotStatus ==
    ASSUME TypeInv, NEW r \in Requests, NEW s, GetsStatus(r, s)
    PROVE  /\ row'[r].status = s
           /\ \A x \in Requests : SameDetails(x)
<1>1. row[r] \in Row
  BY DEF TypeInv, TypeOK
<1> QED BY <1>1 DEF GetsStatus, SameDetails, Row

LEMMA SettlingRequest ==
    ASSUME TypeInv, NEW c \in Calls,
           Settles(c) \/ PaysOut(c) \/ Attaches(c) \/ Notes(c) \/ Completes(c)
           \/ OpensNext(c) \/ Traces(c) \/ Records(c)
    PROVE  Req(c) \in Requests
<1>1. pc[c] \in Deciding \cup Proving \cup Noting
  BY DEF Settles, PaysOut, Attaches, Notes, Completes, OpensNext, Traces, Records,
         Deciding, Proving, Noting
<1> QED BY <1>1, InFlightTypes

(* What every step of a call leaves to the others. *)
LEMMA CallShape ==
    ASSUME TypeInv, NEW c \in Calls, CallStep(c)
    PROVE  /\ Undisturbed(c)
           /\ UNCHANGED filer
           /\ approvals \subseteq approvals'
           /\ audited \subseteq audited'
           /\ \A r \in Requests : SameDetails(r)
           /\ row' = row \/ Settles(c) \/ PaysOut(c) \/ Notes(c)
<1>1. CASE Settles(c) \/ PaysOut(c) \/ (Notes(c) /\ row' # row)
  <2>1. PICK s : GetsStatus(Req(c), s)
    BY <1>1 DEF Settles, PaysOut, Notes
  <2>2. \A r \in Requests : SameDetails(r)
    BY <1>1, <2>1, SettlingRequest, GotStatus
  <2> QED BY <1>1, <2>2 DEF Settles, PaysOut, Notes, OnJob
<1>2. CASE ~(Settles(c) \/ PaysOut(c) \/ (Notes(c) /\ row' # row))
  <2>1. UNCHANGED <<row, filer>> /\ Undisturbed(c)
    BY <1>2 DEF CallStep, Starts, Quits, Locks, Prepares, Records, Completes, PassesOn,
       Audits, OpensNext, Commits, TellsOutcome, TellsNews, StartsUpload, Attaches,
       Traces, Notes, LosesLock, OnJob, requestVars
  <2>2. approvals \subseteq approvals' /\ audited \subseteq audited'
    BY <1>2 DEF CallStep, Starts, Quits, Locks, Prepares, Records, Completes, PassesOn,
       Audits, OpensNext, Commits, TellsOutcome, TellsNews, StartsUpload, Attaches,
       Traces, Notes, LosesLock, requestVars
  <2> QED BY <2>1, <2>2 DEF SameDetails
<1> QED BY <1>1, <1>2

LEMMA SameApprovals ==
    ASSUME NEW c, CallStep(c), ~Records(c)
    PROVE  approvals' = approvals
<1>1. CASE \/ Starts(c) \/ Quits(c) \/ Locks(c) \/ Prepares(c) \/ PassesOn(c) \/ Commits(c)
           \/ StartsUpload(c) \/ LosesLock(c)
  BY <1>1 DEF Starts, Quits, Locks, Prepares, PassesOn, Commits, StartsUpload, LosesLock,
              requestVars
<1>2. CASE \/ Completes(c) \/ Audits(c) \/ OpensNext(c) \/ Settles(c) \/ TellsOutcome(c)
           \/ TellsNews(c) \/ Attaches(c) \/ Traces(c) \/ PaysOut(c) \/ Notes(c)
  BY <1>2 DEF Completes, Audits, OpensNext, Settles, TellsOutcome, TellsNews, Attaches,
              Traces, PaysOut, Notes
<1> QED BY <1>1, <1>2 DEF CallStep

LEMMA ToldPlaces ==
    /\ Told \cap (Over \cup Proving \cup Noting \cup
                  {"idle", "waiting", "authorising", "budgeting", "querying", "recording"}) = {}
    /\ {"completing", "routing", "auditing", "opening", "settling", "committing",
        "notifying"} = Told
    /\ {"uploading", "tracing", "auditingProof", "settlingProof", "notifyingProof"}
         = Proving \ {"readingProof"}
BY DEF Told, Recorded, InFlight, Deciding, Over, Proving, Noting

(* The call that moves leaves what it should. *)
LEMMA DeciderStep ==
    ASSUME TypeInv, TypeInv', \A r \in Requests : FilingFits(r), NEW c \in Calls,
           DeciderFits(c), CallStep(c)
    PROVE  DeciderFits(c)'
<1>1. CASE Starts(c) \/ Quits(c) \/ TellsOutcome(c) \/ TellsNews(c)
  <2>1. \/ pc'[c] \in Over \cup {"waiting", "readingProof"}
        \/ pc'[c] = "readingNote" /\ filer'[job'[c].req].pc = "done"
    <3>1. CASE Starts(c)
      BY <3>1 DEF Starts
    <3>2. CASE Quits(c) \/ TellsOutcome(c) \/ TellsNews(c)
      BY <3>2, Places DEF Quits, TellsOutcome, TellsNews
    <3> QED BY <1>1, <3>1, <3>2
  <2>2. pc'[c] \notin Told \cup {"opening", "settling", "committing", "notifying",
                                 "budgeting", "querying", "recording"}
    BY <2>1, ToldPlaces DEF Noting, Over, Proving
  <2>3. pc'[c] \in InFlight \cup (Proving \ {"readingProof"}) \cup Noting
        => pc'[c] = "readingNote"
    BY <2>1, Groups DEF Over, Proving, Noting
  <2> QED BY <2>1, <2>2, <2>3 DEF DeciderFits, Over, Req
<1>2. CASE Locks(c)
  <2>1. pc'[c] = "authorising" /\ filer'[job'[c].req].pc = "done"
    BY <1>2 DEF Locks, OnJob, FilingFits, PendingStatuses, Req
  <2>2. pc'[c] \notin Told
    BY <2>1, ToldPlaces
  <2> QED BY <2>1, <2>2 DEF DeciderFits, Req
<1>3. CASE Prepares(c)
  <2>1. pc'[c] \in {"budgeting", "querying", "recording"} /\ pc'[c] \notin Told
    BY <1>3, ToldPlaces DEF Prepares
  <2>2. NotOwn(c)
    BY <1>3 DEF Prepares, DeciderFits
  <2>3. filer[Req(c)].pc = "done"
    BY <1>3, Groups DEF Prepares, DeciderFits
  <2> QED BY <1>3, <2>1, <2>2, <2>3
          DEF Prepares, OnJob, SameLocals, DeciderFits, NotOwn, Req, Actor, requestVars
<1>4. CASE Records(c)
  <2>1. pc'[c] = "completing" /\ filer[Req(c)].pc = "done"
    BY <1>4, Groups DEF Records, DeciderFits
  <2>2. ApprovalOf(c) \in RecordedBy(c)'
    BY <1>4 DEF Records, OnJob, SameLocals, RecordedBy, ApprovalOf, Req, Actor
  <2>3. LeadsOn(c)'
    BY <1>4 DEF Records, OnJob, SameLocals, LeadsOn
  <2> QED BY <1>4, <2>1, <2>2, <2>3 DEF Records, OnJob, DeciderFits, Req
<1>5. CASE Completes(c) \/ PassesOn(c) \/ Audits(c) \/ OpensNext(c)
           \/ Settles(c) \/ Commits(c)
  <2>1. pc[c] \in Told /\ pc'[c] \in Told /\ OnJob(c) /\ SameLocals(c)
        /\ approvals' = approvals /\ audited \subseteq audited'
    BY <1>5, ToldPlaces
       DEF Completes, PassesOn, Audits, OpensNext, Settles, Commits, SameLocals, requestVars
  <2>2. RecordedBy(c)' # {}
    <3>1. PICK a : a \in RecordedBy(c)
      BY <2>1 DEF DeciderFits
    <3>2. a \in RecordedBy(c)'
      BY <2>1, <3>1 DEF RecordedBy, OnJob, SameLocals, Req, Actor
    <3> QED BY <3>2
  <2>3. LeadsOn(c)'
    <3>1. ManagerApproves(c)' = ManagerApproves(c)
      BY <2>1 DEF OnJob, SameLocals, ManagerApproves, Approving
    <3>2. LeadsOn(c)
      BY <2>1 DEF DeciderFits
    <3>3. CASE ManagerApproves(c)
      <4>1. pc'[c] = "routing" \/ view'[c].next \in MoneyStages
        BY <1>5, <3>2, <3>3
           DEF Completes, PassesOn, Audits, OpensNext, Settles, Commits, LeadsOn
      <4> QED BY <3>1, <3>3, <4>1 DEF LeadsOn
    <3>4. CASE ~ManagerApproves(c)
      <4>1. view'[c].next = view[c].next
        BY <1>5, <3>4 DEF Completes, PassesOn, Audits, OpensNext, Settles, Commits
      <4> QED BY <2>1, <3>1, <3>2, <3>4, <4>1 DEF LeadsOn, OnJob, SameLocals
    <3> QED BY <3>3, <3>4
  <2>4. pc'[c] \in {"opening", "settling", "committing", "notifying"} => c \in audited'
    BY <1>5 DEF Completes, PassesOn, Audits, OpensNext, Settles, Commits, DeciderFits,
                requestVars
  <2>5. pc'[c] \in InFlight => pc[c] \in InFlight
    BY <1>5, Groups DEF Completes, PassesOn, Audits, OpensNext, Settles, Commits
  <2>6. pc'[c] \notin (Proving \ {"readingProof"}) \cup Noting
                     \cup {"budgeting", "querying", "recording"}
    BY <2>1, ToldPlaces
  <2> QED BY <2>1, <2>2, <2>3, <2>4, <2>5, <2>6 DEF DeciderFits, OnJob, Req
<1>6. CASE StartsUpload(c) \/ Attaches(c) \/ Traces(c) \/ PaysOut(c) \/ Notes(c)
  <2>1. OnJob(c) /\ pc'[c] \in Proving \cup Noting
    BY <1>6 DEF StartsUpload, Attaches, Traces, PaysOut, Notes, Proving, Noting
  <2>2. pc'[c] \notin Told \cup {"opening", "settling", "committing", "notifying",
                                 "budgeting", "querying", "recording"}
    BY <2>1, ToldPlaces DEF Proving, Noting
  <2>3. filer[Req(c)].pc = "done"
    <3>1. CASE StartsUpload(c)
      <4>1. Req(c) \in Requests
        BY <3>1, ProvingTypes DEF StartsUpload, Proving
      <4> QED BY <3>1, <4>1 DEF StartsUpload, FilingFits
    <3>2. CASE ~StartsUpload(c)
      BY <1>6, <3>2 DEF Attaches, Traces, PaysOut, Notes, DeciderFits, Proving, Noting
    <3> QED BY <3>1, <3>2
  <2> QED BY <2>1, <2>2, <2>3 DEF DeciderFits, OnJob, Req
<1>7. CASE LosesLock(c)
  BY <1>7 DEF LosesLock, OnJob, requestVars, DeciderFits, RecordedBy, LeadsOn, NotOwn,
              ManagerApproves, Approving, Req, Actor
<1> QED BY <1>1, <1>2, <1>3, <1>4, <1>5, <1>6, <1>7 DEF CallStep

(* The calls that do not move keep what they have. *)
LEMMA DeciderStays ==
    ASSUME NEW d \in Calls, DeciderFits(d),
           pc'[d] = pc[d], job'[d] = job[d], view'[d] = view[d],
           pc[d] \in InFlight \cup (Proving \ {"readingProof"}) \cup Noting =>
               filer'[Req(d)].pc = filer[Req(d)].pc,
           approvals \subseteq approvals', audited \subseteq audited',
           pc[d] \in {"budgeting", "querying", "recording"} =>
               row'[Req(d)].requester = row[Req(d)].requester
    PROVE  DeciderFits(d)'
<1>1. pc[d] \in Told => RecordedBy(d)' # {}
  BY DEF DeciderFits, RecordedBy, Req, Actor
<1>2. LeadsOn(d)' = LeadsOn(d)
  BY DEF LeadsOn, ManagerApproves, Approving
<1>3. pc[d] \in {"budgeting", "querying", "recording"} => NotOwn(d)'
  BY DEF NotOwn, Req, Actor, DeciderFits
<1> QED BY <1>1, <1>2, <1>3 DEF DeciderFits, Req

LEMMA DeciderRequest ==
    ASSUME TypeInv, NEW d \in Calls, pc[d] \in InFlight \cup Proving \cup Noting
    PROVE  Req(d) \in Requests
BY InFlightTypes, Groups

(* An outcome is shown because of the decision that settles. *)
LEMMA OutcomeStays ==
    ASSUME OutcomeHasItsTrail, NEW r \in Requests,
           approvals \subseteq approvals', audited \subseteq audited',
           row'[r].status = row[r].status
           \/ row'[r].status \notin {"APPROVED", "PENDING_PAYMENT", "REJECTED"}
    PROVE  row'[r].status \in {"APPROVED", "PENDING_PAYMENT", "REJECTED"} =>
             \E a \in approvals' :
                /\ a.req = r
                /\ a.call \in audited'
                /\ (a.decision = "REJECTED") <=> (row'[r].status = "REJECTED")
                /\ row'[r].status # "REJECTED" => a.stage # "PENDING_MANAGER_APPROVAL"
BY DEF OutcomeHasItsTrail

LEMMA SettlesTrail ==
    ASSUME TypeInv, NEW c \in Calls, DeciderFits(c), Settles(c),
           view[c].next \in {"APPROVED", "PENDING_PAYMENT", "REJECTED"}
    PROVE  \E a \in approvals :
                /\ a.req = Req(c)
                /\ a.call \in audited
                /\ (a.decision = "REJECTED") <=> (view[c].next = "REJECTED")
                /\ view[c].next # "REJECTED" => a.stage # "PENDING_MANAGER_APPROVAL"
<1>1. pc[c] = "settling" /\ pc[c] \in Told /\ pc[c] \in Deciding
  BY ToldPlaces, Groups DEF Settles
<1>2. PICK a \in RecordedBy(c) : TRUE
  BY <1>1 DEF DeciderFits
<1>3. a \in approvals /\ a.call = c /\ a.req = Req(c) /\ a.stage = view[c].stage
      /\ a.decision = job[c].asked
  BY <1>2 DEF RecordedBy
<1>4. ~ManagerApproves(c)
  BY <1>1 DEF DeciderFits, LeadsOn, MoneyStages
<1>5. view[c].next = DecidedStatus(view[c].stage, job[c].asked, view[c].amount, view[c].verified)
  BY <1>1, <1>4 DEF DeciderFits, LeadsOn
<1>6. job[c].asked \in {"APPROVED", "REJECTED"}
  BY <1>1, DecidingTypes DEF Decisions
<1>7. c \in audited
  BY <1>1 DEF DeciderFits
<1>8. (a.decision = "REJECTED") <=> (view[c].next = "REJECTED")
  BY <1>3, <1>5, <1>6 DEF DecidedStatus
<1>9. view[c].next # "REJECTED" => a.stage # "PENDING_MANAGER_APPROVAL"
  BY <1>3, <1>4, <1>6, <1>8 DEF ManagerApproves, Approving
<1> QED BY <1>3, <1>7, <1>8, <1>9

LEMMA TrailInit == Init => TrailInv
<1> SUFFICES ASSUME Init PROVE TrailInv
  OBVIOUS
<1>1. TypeInv
  BY TypeInit
<1>2. approvals = {} /\ \A c \in Calls : pc[c] = "idle"
  BY DEF Init
<1>3. "idle" \notin Told \cup Proving \cup Noting \cup InFlight
  BY ToldPlaces, Groups
<1>4. \A c \in Calls : DeciderFits(c)
  BY <1>2, <1>3 DEF DeciderFits
<1>5. \A r \in Requests : FilingFits(r) /\ row[r].status = "UNFILED"
  BY DEF Init, NoRow, FilingFits
<1> QED BY <1>1, <1>2, <1>4, <1>5 DEF TrailInv, OutcomeHasItsTrail

LEMMA TrailCallStep ==
    ASSUME TrailInv, TypeInv', NEW c \in Calls, CallStep(c)
    PROVE  TrailInv'
<1>1. /\ TypeInv /\ OutcomeHasItsTrail
      /\ \A d \in Calls : DeciderFits(d)
      /\ \A a \in approvals : ApprovalFits(a)
      /\ \A r \in Requests : FilingFits(r)
  BY DEF TrailInv
<1>2. /\ Undisturbed(c) /\ UNCHANGED filer
      /\ approvals \subseteq approvals' /\ audited \subseteq audited'
      /\ \A r \in Requests : SameDetails(r)
      /\ row' = row \/ Settles(c) \/ PaysOut(c) \/ Notes(c)
  BY <1>1, CallShape
<1>3. ASSUME NEW d \in Calls PROVE DeciderFits(d)'
  <2>1. CASE d = c
    BY <1>1, <2>1, DeciderStep
  <2>2. CASE d # c
    <3>1. pc[d] \in {"budgeting", "querying", "recording"} =>
            row'[Req(d)].requester = row[Req(d)].requester
      BY <1>1, <1>2, DeciderRequest, Groups DEF SameDetails
    <3> QED BY <1>1, <1>2, <2>2, <3>1, DeciderStays DEF Undisturbed
  <2> QED BY <2>1, <2>2
<1>4. ASSUME NEW a \in approvals' PROVE ApprovalFits(a)'
  <2>1. CASE a \in approvals
    BY <1>1, <1>2, <2>1, ApprovalTypes DEF ApprovalFits, SameDetails
  <2>2. CASE a \notin approvals
    <3>1. Records(c) /\ a = ApprovalOf(c)
      <4>1. CASE Records(c)
        BY <2>2, <4>1 DEF Records
      <4>2. CASE ~Records(c)
        BY <2>2, <4>2, SameApprovals
      <4> QED BY <4>1, <4>2
    <3>2. pc[c] = "recording" /\ pc[c] \in InFlight /\ Req(c) \in Requests
      BY <1>1, <3>1, DeciderRequest, Groups DEF Records
    <3>3. a.req = Req(c) /\ a.stage = view[c].stage /\ a.by = Actor(c)
      BY <3>1 DEF ApprovalOf
    <3>4. filer[Req(c)].pc = "done" /\ NotOwn(c)
      BY <1>1, <3>2 DEF DeciderFits
    <3> QED BY <1>2, <3>2, <3>3, <3>4 DEF ApprovalFits, NotOwn, SameDetails
  <2> QED BY <2>1, <2>2
<1>5. ASSUME NEW r \in Requests
      PROVE  \/ row'[r].status = row[r].status
             \/ r = Req(c) /\ Settles(c) /\ row'[r].status = view[c].next
             \/ r = Req(c) /\ row'[r].status = "COMPLETED" /\ filer[r].pc = "done"
  <2>1. CASE Settles(c)
    BY <1>1, <2>1, SettlingRequest, GotStatus DEF Settles, GetsStatus
  <2>2. CASE PaysOut(c) \/ (Notes(c) /\ row' # row)
    <3>1. GetsStatus(Req(c), "COMPLETED") /\ pc[c] \in (Proving \ {"readingProof"}) \cup Noting
      BY <2>2 DEF PaysOut, Notes, Proving, Noting
    <3>2. filer[Req(c)].pc = "done" /\ Req(c) \in Requests
      BY <1>1, <3>1, DeciderRequest DEF DeciderFits
    <3> QED BY <1>1, <3>1, <3>2, GotStatus DEF GetsStatus
  <2> QED BY <1>2, <2>1, <2>2
<1>6. ASSUME NEW r \in Requests PROVE FilingFits(r)'
  <2>1. CASE row'[r].status = row[r].status
    BY <1>1, <1>2, <2>1 DEF FilingFits
  <2>2. CASE r = Req(c) /\ Settles(c) /\ row'[r].status = view[c].next
    <3>1. pc[c] \in InFlight /\ pc[c] \in Deciding /\ pc[c] \in Told
      BY <2>2, Groups, ToldPlaces DEF Settles
    <3>2. filer[r].pc = "done" /\ LeadsOn(c)
      BY <1>1, <2>2, <3>1 DEF DeciderFits
    <3>3. view[c].next # "UNFILED"
      BY <2>2, <3>2, DecidedStatuses DEF Settles, LeadsOn, MoneyStages, DecidedStatus
    <3> QED BY <1>2, <2>2, <3>2, <3>3 DEF FilingFits
  <2>3. CASE r = Req(c) /\ row'[r].status = "COMPLETED" /\ filer[r].pc = "done"
    BY <1>2, <2>3 DEF FilingFits
  <2> QED BY <1>5, <2>1, <2>2, <2>3
<1>7. OutcomeHasItsTrail'
  <2> SUFFICES ASSUME NEW r \in Requests,
                      row'[r].status \in {"APPROVED", "PENDING_PAYMENT", "REJECTED"}
               PROVE  \E a \in approvals' :
                         /\ a.req = r
                         /\ a.call \in audited'
                         /\ (a.decision = "REJECTED") <=> (row'[r].status = "REJECTED")
                         /\ row'[r].status # "REJECTED" =>
                              a.stage # "PENDING_MANAGER_APPROVAL"
    BY DEF OutcomeHasItsTrail
  <2>1. CASE row'[r].status = row[r].status
    BY <1>1, <1>2, <2>1, OutcomeStays
  <2>2. CASE r = Req(c) /\ Settles(c) /\ row'[r].status = view[c].next
    BY <1>1, <1>2, <2>2, SettlesTrail
  <2> QED BY <1>5, <2>1, <2>2
<1> QED BY <1>3, <1>4, <1>6, <1>7 DEF TrailInv

LEMMA TrailFilingStep ==
    ASSUME TrailInv, TypeInv', NEW r \in Requests, FilingStep(r)
    PROVE  TrailInv'
<1>1. /\ TypeInv /\ OutcomeHasItsTrail
      /\ \A d \in Calls : DeciderFits(d)
      /\ \A a \in approvals : ApprovalFits(a)
      /\ \A x \in Requests : FilingFits(x)
  BY DEF TrailInv
<1>2. /\ OnFiling(r) /\ filer[r].pc # "done"
      /\ row' = row \/ Files(r) \/ Routes(r)
  BY <1>1 DEF FilingStep, Files, Ingests, Checks, OpensFirst, Routes, Abandons, FilingFits,
              requestVars
<1>3. /\ \A x \in Requests \ {r} : row'[x] = row[x] /\ filer'[x] = filer[x]
      /\ UNCHANGED <<approvals, audited, job, pc, view>>
  BY <1>2 DEF OnFiling
<1>4. ASSUME NEW d \in Calls PROVE DeciderFits(d)'
  <2>1. ASSUME pc[d] \in InFlight \cup (Proving \ {"readingProof"}) \cup Noting
        PROVE  Req(d) \in Requests \ {r}
    BY <1>1, <1>2, <2>1, DeciderRequest DEF DeciderFits
  <2>2. pc[d] \in {"budgeting", "querying", "recording"} => Req(d) \in Requests \ {r}
    BY <2>1, Groups
  <2> QED BY <1>1, <1>3, <2>1, <2>2, DeciderStays
<1>5. ASSUME NEW a \in approvals' PROVE ApprovalFits(a)'
  <2>1. a \in approvals /\ a.req \in Requests \ {r}
    BY <1>1, <1>2, <1>3, ApprovalTypes DEF ApprovalFits
  <2> QED BY <1>1, <1>3, <2>1 DEF ApprovalFits
<1>6. \/ row'[r].status \in {row[r].status, "PENDING_POLICY_CHECK"}
         /\ filer'[r].pc \notin {"done", "none"}
      \/ Routes(r)
  <2>1. CASE Files(r)
    BY <2>1 DEF Files
  <2>2. CASE Ingests(r) \/ Checks(r) \/ OpensFirst(r)
    BY <2>2 DEF Ingests, Checks, OpensFirst
  <2>3. CASE Abandons(r)
    BY <2>3 DEF Abandons, requestVars
  <2> QED BY <1>2, <2>1, <2>2, <2>3 DEF FilingStep
<1>7. Routes(r) => row'[r].status \in DOMAIN AwaitingStep /\ filer'[r].pc = "done"
  BY <1>1 DEF Routes, TypeInv, TypeOK, Row
<1>8. ASSUME NEW x \in Requests PROVE FilingFits(x)'
  <2>1. CASE x # r
    BY <1>1, <1>3, <2>1 DEF FilingFits
  <2>2. CASE x = r
    <3>1. CASE Routes(r)
      BY <1>7, <2>2, <3>1 DEF FilingFits, AwaitingStep
    <3>2. CASE Files(r)
      BY <2>2, <3>2 DEF FilingFits, Files
    <3>3. CASE ~Files(r) /\ ~Routes(r)
      <4>1. row' = row /\ filer[r].pc # "none"
        BY <1>2, <3>3 DEF FilingStep, Ingests, Checks, OpensFirst, Abandons
      <4> QED BY <1>1, <1>2, <1>6, <2>2, <3>3, <4>1 DEF FilingFits
    <3> QED BY <3>1, <3>2, <3>3
  <2> QED BY <2>1, <2>2
<1>9. OutcomeHasItsTrail'
  <2>1. ASSUME NEW x \in Requests
        PROVE  row'[x].status = row[x].status
               \/ row'[x].status \notin {"APPROVED", "PENDING_PAYMENT", "REJECTED"}
    BY <1>3, <1>6, <1>7 DEF AwaitingStep
  <2> QED BY <1>1, <1>3, <2>1 DEF OutcomeHasItsTrail
<1> QED BY <1>4, <1>5, <1>8, <1>9 DEF TrailInv

LEMMA TrailAdminStep ==
    ASSUME TrailInv, TypeInv', Administers
    PROVE  TrailInv'
<1>1. /\ TypeInv /\ OutcomeHasItsTrail
      /\ \A d \in Calls : DeciderFits(d)
      /\ \A a \in approvals : ApprovalFits(a)
      /\ \A x \in Requests : FilingFits(x)
  BY DEF TrailInv
<1>2. /\ UNCHANGED <<approvals, audited, filer, job, pc, view>>
      /\ \A x \in Requests : row'[x].status = row[x].status
                             /\ row'[x].requester = row[x].requester
  BY DEF Administers, callVars
<1>3. ASSUME NEW d \in Calls PROVE DeciderFits(d)'
  <2>1. pc[d] \in {"budgeting", "querying", "recording"} => Req(d) \in Requests
    BY <1>1, DeciderRequest, Groups
  <2> QED BY <1>1, <1>2, <2>1, DeciderStays
<1>4. ASSUME NEW a \in approvals PROVE ApprovalFits(a)'
  BY <1>1, <1>2, <1>4, ApprovalTypes DEF ApprovalFits
<1>5. \A x \in Requests : FilingFits(x)'
  BY <1>1, <1>2 DEF FilingFits
<1>6. OutcomeHasItsTrail'
  BY <1>1, <1>2 DEF OutcomeHasItsTrail
<1> QED BY <1>2, <1>3, <1>4, <1>5, <1>6 DEF TrailInv

LEMMA TrailStep == TrailInv /\ [Next]_vars => TrailInv'
<1> SUFFICES ASSUME TrailInv, [Next]_vars PROVE TrailInv'
  OBVIOUS
<1>1. TypeInv /\ \A r \in Requests : FilingFits(r)
  BY DEF TrailInv
<1>2. TypeInv'
  BY <1>1, TypeStep
<1> QED BY <1>1, <1>2, StepKinds, TrailCallStep, TrailFilingStep, TrailAdminStep

(* A request shows an outcome only with the decision that led to it, and    *)
(* its audit entry: however calls interleave, fail or time out, and         *)
(* whatever progress notes and administrators do (837-970).                 *)
THEOREM OutcomeTrailProved == Spec => []OutcomeHasItsTrail
<1>1. TrailInv => OutcomeHasItsTrail
  BY DEF TrailInv
<1> QED BY <1>1, TrailInit, TrailStep, PTL DEF Spec

-----------------------------------------------------------------------------
(* What a call knows of its request stays true.  From here on no           *)
(* transaction times out and no progress note is written: either one takes *)
(* a request from under a call that decides it (318-325, 648).             *)

NothingUnderneath == "timeout" \notin FaultKinds /\ "note" \notin Ops

LEMMA CallPlaces ==
    /\ Paying \subseteq Proving \ {"readingProof"}
    /\ Paying \cap (InFlight \cup Deciding \cup Over \cup {"idle", "waiting", "readingProof",
                    "committing", "notifying", "notifyingProof"}) = {}
    /\ Noting \cap (Deciding \cup Proving \cup Over \cup {"idle", "waiting", "notifying"}) = {}
    /\ Granted \cap PendingStatuses = {}
    /\ Granted \cap (DOMAIN AwaitingStep \cup {"UNFILED", "PENDING_POLICY_CHECK"}) = {}
    /\ PendingStatuses \subseteq DOMAIN AwaitingStep
BY DEF Paying, Proving, InFlight, Deciding, Over, Noting, Granted, PendingStatuses, AwaitingStep

(* What a call can change of a request: its status or its attachments *)
LEMMA CallChanges ==
    ASSUME NEW c \in Calls, CallStep(c), NEW r \in Requests
    PROVE  \/ row'[r] = row[r] /\ attached'[r] = attached[r]
           \/ r = Req(c) /\ Settles(c) /\ GetsStatus(r, view[c].next) /\ attached' = attached
           \/ r = Req(c) /\ PaysOut(c) /\ GetsStatus(r, "COMPLETED") /\ attached' = attached
           \/ r = Req(c) /\ Attaches(c) /\ row' = row /\ \E t \in OcrTotals : Gets(r, t)
           \/ /\ r = Req(c) /\ Notes(c) /\ pc[c] = "writingNote" /\ pc'[c] = "notifyingNote"
              /\ job[c].asked = "RESOLVED" /\ GetsStatus(r, "COMPLETED") /\ attached' = attached
<1>1. CASE Settles(c)
  BY <1>1 DEF Settles, GetsStatus
<1>2. CASE PaysOut(c)
  BY <1>2 DEF PaysOut, GetsStatus
<1>3. CASE Attaches(c)
  BY <1>3 DEF Attaches, Gets
<1>4. CASE Notes(c)
  BY <1>4 DEF Notes, GetsStatus
<1>5. CASE ~(Settles(c) \/ PaysOut(c) \/ Attaches(c) \/ Notes(c))
  <2>1. CASE Starts(c) \/ Quits(c) \/ Locks(c) \/ Prepares(c) \/ PassesOn(c) \/ Commits(c)
             \/ StartsUpload(c) \/ LosesLock(c)
    BY <2>1 DEF Starts, Quits, Locks, Prepares, PassesOn, Commits, StartsUpload, LosesLock,
                requestVars
  <2>2. CASE Records(c) \/ Completes(c) \/ Audits(c) \/ OpensNext(c) \/ TellsOutcome(c)
             \/ TellsNews(c) \/ Traces(c)
    BY <2>2 DEF Records, Completes, Audits, OpensNext, TellsOutcome, TellsNews, Traces
  <2> QED BY <1>5, <2>1, <2>2 DEF CallStep
<1> QED BY <1>1, <1>2, <1>3, <1>4, <1>5

(* The calls that change a request in a settled world, and what they change *)
LEMMA Changes ==
    ASSUME TypeInv, NothingUnderneath, NEW c \in Calls, CallStep(c), CallFits(c),
           NEW r \in Requests
    PROVE  \/ row'[r] = row[r] /\ attached'[r] = attached[r]
           \/ r = Req(c) /\ Settles(c) /\ GetsStatus(r, view[c].next) /\ attached' = attached
           \/ r = Req(c) /\ PaysOut(c) /\ GetsStatus(r, "COMPLETED") /\ attached' = attached
           \/ r = Req(c) /\ Attaches(c) /\ row' = row /\ \E t \in OcrTotals : Gets(r, t)
<1>1. ~Notes(c)
  BY DEF CallFits, Notes, Noting
<1> QED BY <1>1, CallChanges

(* The request of a deciding call is touched by no other. *)
LEMMA OthersKeep ==
    ASSUME SettleInv, NothingUnderneath, NEW c \in Calls, CallStep(c),
           NEW d \in Calls, d # c, pc[d] \in InFlight
    PROVE  row'[Req(d)] = row[Req(d)] /\ attached'[Req(d)] = attached[Req(d)]
<1>1. TypeInv /\ CallFits(c) /\ CallFits(d)
  BY DEF SettleInv, TrailInv
<1>2. pc[d] \in Deciding /\ Req(d) \in Requests
  BY <1>1, Groups, InFlightTypes
<1>3. lock[Req(d)] = d /\ row[Req(d)].status \in PendingStatuses
  BY <1>1, <1>2, DecidingTypes DEF CallFits
<1>4. ASSUME Settles(c) PROVE Req(c) # Req(d)
  BY <1>1, <1>3, <1>4, Groups DEF Settles, CallFits
<1>5. ASSUME PaysOut(c) \/ Attaches(c) PROVE Req(c) # Req(d)
  BY <1>1, <1>3, <1>5, CallPlaces DEF PaysOut, Attaches, CallFits, Paying
<1> QED BY <1>1, <1>2, <1>4, <1>5, Changes

LEMMA CallFitsOthers ==
    ASSUME SettleInv, NothingUnderneath, NEW c \in Calls, CallStep(c),
           NEW d \in Calls, d # c
    PROVE  CallFits(d)'
<1>1. TypeInv /\ CallFits(c) /\ CallFits(d)
  BY DEF SettleInv, TrailInv
<1>2. /\ pc'[d] = pc[d] /\ Req(d)' = Req(d) /\ view'[d] = view[d]
      /\ \A r \in Requests : lock[r] = d => lock'[r] = d
  BY <1>1, CallShape DEF Undisturbed, Req
<1>3. pc[d] \in Deciding => lock'[Req(d)] = d
  BY <1>1, <1>2, InFlightTypes DEF CallFits
<1>4. pc[d] \in InFlight =>
        row'[Req(d)] = row[Req(d)] /\ attached'[Req(d)] = attached[Req(d)]
  BY OthersKeep
<1>5. ASSUME pc[d] \in Paying PROVE row'[Req(d)].status \in Granted
  <2>1. Req(d) \in Requests /\ row[Req(d)].status \in Granted
    BY <1>1, <1>5, CallPlaces, ProvingTypes DEF CallFits
  <2>2. ASSUME Settles(c) PROVE Req(c) # Req(d)
    BY <1>1, <2>1, <2>2, Groups, CallPlaces, DecidingTypes DEF Settles, CallFits
  <2>3. row[Req(d)] \in Row
    BY <1>1, <2>1 DEF TypeInv, TypeOK
  <2>4. ASSUME GetsStatus(Req(d), "COMPLETED") PROVE row'[Req(d)].status \in Granted
    BY <2>3, <2>4 DEF GetsStatus, Granted, Row
  <2> QED BY <1>1, <2>1, <2>2, <2>4, Changes
<1> QED BY <1>1, <1>2, <1>3, <1>4, <1>5 DEF CallFits

LEMMA CallFitsMover ==
    ASSUME SettleInv, NothingUnderneath, NEW c \in Calls, CallStep(c)
    PROVE  CallFits(c)'
<1>1. TypeInv /\ CallFits(c)
  BY DEF SettleInv, TrailInv
<1>2. ~Notes(c) /\ ~LosesLock(c)
  BY <1>1 DEF NothingUnderneath, CallFits, Notes, LosesLock, Noting
<1>3. CASE Starts(c) \/ Quits(c) \/ TellsOutcome(c) \/ TellsNews(c) \/ Commits(c)
  <2>1. pc'[c] \in Over \cup {"waiting", "readingProof", "notifying"}
    <3>1. CASE Starts(c)
      BY <3>1 DEF Starts, NothingUnderneath
    <3>2. CASE ~Starts(c)
      BY <1>3, <3>2, Places DEF Quits, TellsOutcome, TellsNews, Commits
    <3> QED BY <3>1, <3>2
  <2>2. pc'[c] \notin Noting \cup Deciding \cup InFlight \cup Paying
    BY <2>1, CallPlaces, Groups DEF Proving
  <2> QED BY <2>2 DEF CallFits
<1>4. CASE Locks(c)
  <2>1. pc'[c] \notin Noting \cup Paying
    BY <1>4, CallPlaces, Groups DEF Locks
  <2> QED BY <1>4, <2>1 DEF Locks, OnJob, CallFits, requestVars, Req
<1>5. CASE Prepares(c) \/ PassesOn(c) \/ Records(c) \/ Completes(c) \/ Audits(c) \/ OpensNext(c)
  <2>1. /\ pc[c] \in InFlight /\ pc'[c] \in InFlight
        /\ OnJob(c) /\ SameLocals(c)
        /\ row' = row /\ attached' = attached /\ lock' = lock
    BY <1>5, Groups DEF Prepares, PassesOn, Records, Completes, Audits, OpensNext,
                        SameLocals, requestVars
  <2>2. pc'[c] \notin Noting \cup Paying /\ pc[c] \in Deciding
    BY <2>1, CallPlaces, Groups
  <2> QED BY <1>1, <2>1, <2>2 DEF CallFits, OnJob, SameLocals, Req
<1>6. CASE Settles(c)
  <2>1. pc'[c] \notin Noting \cup Paying \cup InFlight /\ pc[c] \in Deciding
    BY <1>6, CallPlaces, Groups DEF Settles
  <2> QED BY <1>1, <1>6, <2>1 DEF CallFits, Settles, OnJob, Req
<1>7. CASE StartsUpload(c) \/ Attaches(c) \/ Traces(c)
  <2>1. /\ pc'[c] \in Paying /\ OnJob(c) /\ row' = row
        /\ row[Req(c)].status \in Granted
    BY <1>1, <1>7 DEF StartsUpload, Attaches, Traces, CallFits, Paying, Granted, requestVars
  <2>2. pc'[c] \notin Noting \cup Deciding \cup InFlight
    BY <2>1, CallPlaces, Groups
  <2> QED BY <2>1, <2>2 DEF CallFits, OnJob, Req
<1>8. CASE PaysOut(c)
  <2>1. pc'[c] \notin Noting \cup Paying \cup InFlight \cup Deciding
    BY <1>8, CallPlaces, Groups DEF PaysOut, Proving
  <2> QED BY <2>1 DEF CallFits
<1> QED BY <1>2, <1>3, <1>4, <1>5, <1>6, <1>7, <1>8 DEF CallStep

(* A request nothing happens to, except that its role is deleted. *)
LEMMA FitsKept ==
    ASSUME NEW r \in Requests, RequestFits(r),
           row'[r].status = row[r].status, row'[r].stated = row[r].stated,
           row'[r].needsApproval = row[r].needsApproval,
           row'[r].routed \in {row[r].routed, NoRole},
           attached'[r] = attached[r], filer'[r] = filer[r],
           approvals \subseteq approvals'
    PROVE  RequestFits(r)'
<1>2. MoneyApprovals(r) \subseteq MoneyApprovals(r)'
  BY DEF MoneyApprovals
<1>3. \A s : RoutedBy(r, s)' = RoutedBy(r, s)
  BY DEF RoutedBy
<1>4. RoutedBy(r, row[r].status)' /\ (RoutedBy(r, filer[r].next) => RoutedBy(r, filer[r].next)')
  BY DEF RequestFits, RoutedBy
<1> QED BY <1>2, <1>4 DEF RequestFits

(* The status a decision writes, and the Approval row behind it. *)
LEMMA SettledFits ==
    ASSUME SettleInv, NEW c \in Calls, Settles(c), NEW r \in Requests, r = Req(c),
           GetsStatus(r, view[c].next), attached' = attached
    PROVE  RequestFits(r)'
<1> DEFINE next == view[c].next
           stage == view[c].stage
<1>1. TypeInv /\ CallFits(c) /\ DeciderFits(c) /\ RequestFits(r)
  BY DEF SettleInv, TrailInv
<1>2. pc[c] = "settling" /\ pc[c] \in InFlight /\ pc[c] \in Deciding /\ pc[c] \in Told
  BY Groups, ToldPlaces DEF Settles
<1>3. /\ UNCHANGED <<approvals, filer>> /\ row'[r].status = next /\ SameDetails(r)
      /\ filer[r].pc = "done"
  BY <1>1, <1>2, GotStatus DEF Settles, OnJob, DeciderFits
<1>4. /\ stage \in PendingStatuses /\ stage = row[r].status
      /\ view[c].amount = EffectiveAmount(row[r], attached[r])
      /\ view[c].verified = HasVerifiedAttachment(attached[r])
      /\ view[c].verified \in BOOLEAN
      /\ job[c].asked \in Decisions
  BY <1>1, <1>2, DecidingTypes DEF CallFits, View
<1>5. LeadsOn(c) /\ \E a \in RecordedBy(c) : TRUE
  BY <1>1, <1>2 DEF DeciderFits
<1>6. PICK a \in RecordedBy(c) : TRUE
  BY <1>5
<1>7. /\ a \in approvals' /\ a.req = r /\ a.stage = stage /\ a.decision = job[c].asked
      /\ stage # "PENDING_ROLE_APPROVAL" => a.amount = view[c].amount
  BY <1>3, <1>6 DEF RecordedBy
<1>8. row[r].stated \in Nat /\ attached[r].total \in Nat /\ attached[r].count \in Nat
  BY <1>1 DEF TypeInv, TypeOK, Row, Attached
<1>9. RoutedBy(r, stage)
  BY <1>1, <1>4 DEF RequestFits
<1>10. /\ row'[r].stated = row[r].stated
       /\ row'[r].needsApproval = row[r].needsApproval
  BY <1>3 DEF SameDetails
<1>11. CASE ManagerApproves(c)
  <2>1. next \in MoneyStages /\ stage = "PENDING_MANAGER_APPROVAL"
    BY <1>2, <1>5, <1>11 DEF LeadsOn, ManagerApproves
  <2>2. RoutedBy(r, row[r].status)'
    BY <1>3, <1>9, <1>10, <2>1 DEF RoutedBy, MoneyStages
  <2>4. next \notin {"UNFILED", "APPROVED"} \cup Granted
    BY <2>1 DEF MoneyStages, Granted
  <2>5. attached[r].count > 0 => row[r].stated = 0 /\ ~row[r].needsApproval
    BY <1>1, <1>4, CallPlaces DEF RequestFits
  <2> HIDE DEF next, stage
  <2> QED BY <1>1, <1>3, <1>10, <2>2, <2>4, <2>5 DEF RequestFits
<1>12. CASE ~ManagerApproves(c)
  <2>1. next = DecidedStatus(stage, job[c].asked, view[c].amount, view[c].verified)
    BY <1>5, <1>12 DEF LeadsOn
  <2>2. next \in {"REJECTED", "APPROVED", "PENDING_PAYMENT"}
        /\ (next # "REJECTED" => job[c].asked = "APPROVED")
    BY <1>4, <2>1 DEF DecidedStatus, Decisions
  <2>3. RoutedBy(r, row[r].status)'
    BY <1>3, <2>2 DEF RoutedBy
  <2>4. next # "REJECTED" => stage # "PENDING_MANAGER_APPROVAL"
    BY <1>12, <2>2 DEF ManagerApproves, Approving
  <2>5. stage \in MoneyStages \/ stage = "PENDING_ROLE_APPROVAL" \/ next = "REJECTED"
    BY <1>4, <2>4 DEF PendingStatuses, MoneyStages
  <2>6. next = "PENDING_PAYMENT" =>
          /\ stage \in MoneyStages /\ row[r].stated > 0
          /\ view[c].amount = row[r].stated
    <3>1. SUFFICES ASSUME next = "PENDING_PAYMENT"
                   PROVE  stage \in MoneyStages /\ row[r].stated > 0
                          /\ view[c].amount = row[r].stated
      OBVIOUS
    <3>2. /\ ~view[c].verified
          /\ \/ stage = "PENDING_FINANCE_APPROVAL"
             \/ stage = "ESCALATED" /\ view[c].amount > 0
      BY <2>1, <3>1 DEF DecidedStatus
    <3>3. attached[r].count = 0 /\ attached[r].total = 0
      <4>1. ~HasVerifiedAttachment(attached[r])
        BY <1>4, <3>2
      <4>2. attached[r].count = 0
        BY <1>8, <4>1 DEF HasVerifiedAttachment
      <4> QED BY <1>1, <4>2 DEF RequestFits
    <3>4. view[c].amount = row[r].stated
      BY <1>4, <3>3 DEF EffectiveAmount
    <3> QED BY <1>8, <1>9, <3>2, <3>3, <3>4 DEF MoneyStages, RoutedBy
  <2>7. stage \in MoneyStages /\ next # "REJECTED" /\ view[c].amount > 0 =>
          a \in MoneyApprovals(r)' /\ a.amount = view[c].amount
    BY <1>7, <2>2 DEF MoneyApprovals, MoneyStages
  <2>8. next \in Granted => row'[r].stated > 0
                            /\ \E b \in MoneyApprovals(r)' : b.amount = row'[r].stated
    BY <1>10, <2>2, <2>6, <2>7 DEF Granted
  <2>9. next = "APPROVED" /\ attached[r].total > 0 =>
          \E b \in MoneyApprovals(r)' : b.amount = attached'[r].total
    <3>1. SUFFICES ASSUME next = "APPROVED", attached[r].total > 0
                   PROVE  \E b \in MoneyApprovals(r)' : b.amount = attached'[r].total
      OBVIOUS
    <3>2. stage \in MoneyStages
      BY <1>8, <1>9, <2>5, <3>1 DEF RoutedBy
    <3>3. view[c].amount = attached[r].total
      BY <1>4, <3>1 DEF EffectiveAmount
    <3> QED BY <2>7, <3>1, <3>2, <3>3
  <2>11. attached[r].count > 0 => row[r].stated = 0 /\ ~row[r].needsApproval
    BY <1>1, <1>4, CallPlaces DEF RequestFits
  <2>12. next # "UNFILED"
    BY <2>2
  <2> HIDE DEF next, stage
  <2> QED BY <1>1, <1>3, <1>7, <1>10, <2>3, <2>8, <2>9, <2>11, <2>12 DEF RequestFits
<1> QED BY <1>11, <1>12

(* Proof of payment is attached to what is granted, and closes it. *)
LEMMA PaidForFits ==
    ASSUME SettleInv, NEW c \in Calls, NEW r \in Requests, r = Req(c),
           \/ PaysOut(c) /\ GetsStatus(r, "COMPLETED") /\ attached' = attached
           \/ Attaches(c) /\ row' = row /\ \E t \in OcrTotals : Gets(r, t)
    PROVE  RequestFits(r)'
<1>1. TypeInv /\ CallFits(c) /\ DeciderFits(c) /\ RequestFits(r)
  BY DEF SettleInv, TrailInv
<1>2. pc[c] \in Paying
  BY DEF PaysOut, Attaches, Paying
<1>3. row[r].status \in Granted /\ filer[r].pc = "done"
  BY <1>1, <1>2, CallPlaces DEF CallFits, DeciderFits
<1>4. UNCHANGED <<approvals, filer>>
  BY DEF PaysOut, Attaches, OnJob
<1>5. SameDetails(r) /\ row'[r].status \in Granted
  BY <1>1, <1>3, GotStatus DEF SameDetails, Granted
<1>6. \/ attached'[r].count # 0
      \/ attached'[r] = attached[r]
  <2>1. attached[r].count \in Nat
    BY <1>1 DEF TypeInv, TypeOK, Attached
  <2> QED BY <2>1 DEF Gets
<1>8. RoutedBy(r, row[r].status)'
  BY <1>5 DEF RoutedBy, Granted
<1>9. MoneyApprovals(r)' = MoneyApprovals(r)
  BY <1>4 DEF MoneyApprovals
<1>10. /\ row'[r].status \notin {"UNFILED", "APPROVED"}
       /\ row'[r].stated = row[r].stated
  BY <1>5 DEF Granted, SameDetails
<1> QED BY <1>1, <1>3, <1>4, <1>5, <1>6, <1>8, <1>9, <1>10 DEF RequestFits

LEMMA SettleCallStep ==
    ASSUME SettleInv, TrailInv', NothingUnderneath, NEW c \in Calls, CallStep(c)
    PROVE  SettleInv'
<1>1. ASSUME NEW d \in Calls PROVE CallFits(d)'
  BY <1>1, CallFitsMover, CallFitsOthers
<1>2. ASSUME NEW r \in Requests PROVE RequestFits(r)'
  <2>1. TypeInv /\ CallFits(c) /\ RequestFits(r)
    BY DEF SettleInv, TrailInv
  <2>2. CASE row'[r] = row[r] /\ attached'[r] = attached[r]
    BY <2>1, <2>2, CallShape, FitsKept
  <2>3. CASE ~(row'[r] = row[r] /\ attached'[r] = attached[r])
    BY <2>1, <2>3, Changes, SettledFits, PaidForFits
  <2> QED BY <2>2, <2>3
<1> QED BY <1>1, <1>2 DEF SettleInv

(* A filing moves a request nobody works on yet. *)
LEMMA FilingFitsCalls ==
    ASSUME SettleInv, NEW r \in Requests, FilingStep(r), NEW d \in Calls
    PROVE  CallFits(d)'
<1>1. TypeInv /\ CallFits(d) /\ DeciderFits(d)
  BY DEF SettleInv, TrailInv
<1>2. OnFiling(r) /\ filer[r].pc # "done"
  <2>1. FilingFits(r)
    BY DEF SettleInv, TrailInv
  <2> QED BY <2>1 DEF FilingStep, Files, Ingests, Checks, OpensFirst, Routes, Abandons, FilingFits
<1>3. pc[d] \in InFlight \cup Paying => Req(d) \in Requests /\ Req(d) # r
  BY <1>1, <1>2, DeciderRequest, CallPlaces DEF DeciderFits
<1>4. UNCHANGED <<lock, job, pc, view>>
      /\ \A x \in Requests \ {r} : row'[x] = row[x] /\ attached'[x] = attached[x]
  BY <1>2 DEF OnFiling
<1>5. Req(d)' = Req(d)
  BY <1>4 DEF Req
<1> QED BY <1>1, <1>3, <1>4, <1>5 DEF CallFits

LEMMA FilingFitsRequest ==
    ASSUME SettleInv, TypeInv', NEW r \in Requests, FilingStep(r)
    PROVE  RequestFits(r)'
<1>1. TypeInv /\ RequestFits(r) /\ FilingFits(r)
  BY DEF SettleInv, TrailInv
<1>2. /\ row[r].stated \in Nat /\ attached[r].total \in Nat /\ attached[r].count \in Nat
      /\ row[r] \in Row
  BY <1>1 DEF TypeInv, TypeOK, Row, Attached
<1>3. approvals' = approvals
  BY DEF FilingStep, Files, Ingests, Checks, OpensFirst, Routes, Abandons, OnFiling
<1>4. ASSUME ~Files(r) PROVE row[r].status = "PENDING_POLICY_CHECK"
  <2>1. filer[r].pc \notin {"none", "done"}
    BY <1>4 DEF FilingStep, Ingests, Checks, OpensFirst, Routes, Abandons
  <2> QED BY <1>1, <2>1 DEF FilingFits
<1>5. CASE Files(r)
  <2>1. row'[r].status = "PENDING_POLICY_CHECK" /\ attached'[r] = attached[r]
        /\ attached[r].count = 0
    BY <1>1, <1>5 DEF Files, RequestFits
  <2>2. /\ filer'[r].pc = "ingesting" => row'[r].stated = 0 /\ ~row'[r].needsApproval
        /\ filer'[r].pc \notin {"opening", "settling"}
    BY <1>5 DEF Files
  <2>3. RoutedBy(r, row[r].status)'
    BY <2>1 DEF RoutedBy
  <2> QED BY <1>1, <1>2, <2>1, <2>2, <2>3 DEF RequestFits, Granted
<1>6. CASE Ingests(r)
  <2>1. row' = row /\ filer[r].pc = "ingesting" /\ filer'[r].pc \in {"ingesting", "checking"}
        /\ attached'[r].count = attached[r].count + 1
    BY <1>6 DEF Ingests, Gets
  <2>2. /\ row[r].status = "PENDING_POLICY_CHECK"
        /\ row[r].stated = 0 /\ ~row[r].needsApproval
    BY <1>1, <1>4, <2>1 DEF RequestFits, FilingFits, Granted
  <2>3. RoutedBy(r, row[r].status)'
    BY <2>1, <2>2 DEF RoutedBy
  <2>4. attached'[r].count # 0
    BY <1>2, <2>1
  <2> QED BY <2>1, <2>2, <2>3, <2>4 DEF RequestFits, Granted
<1>7. CASE Checks(r)
  <2>1. /\ row' = row /\ attached' = attached /\ row[r].status = "PENDING_POLICY_CHECK"
        /\ filer'[r].pc = "opening"
        /\ filer'[r].next = PipelineStatus(row[r], attached[r])
    BY <1>1, <1>7 DEF Checks, FilingFits
  <2>2. RoutedBy(r, PipelineStatus(row[r], attached[r]))
    BY <1>2 DEF RoutedBy, PipelineStatus
  <2>3. RoutedBy(r, filer[r].next)' /\ RoutedBy(r, row[r].status)'
    BY <2>1, <2>2 DEF RoutedBy
  <2> QED BY <1>1, <2>1, <2>3 DEF RequestFits, Granted
<1>8. CASE OpensFirst(r) \/ Abandons(r)
  <2>1. /\ row' = row /\ attached' = attached /\ row[r].status = "PENDING_POLICY_CHECK"
        /\ filer'[r].pc # "ingesting"
        /\ filer'[r].pc = "settling" =>
             filer[r].pc = "opening" /\ filer'[r].next = filer[r].next
        /\ filer'[r].pc # "opening"
    BY <1>1, <1>8 DEF OpensFirst, Abandons, FilingFits, requestVars
  <2>2. filer'[r].pc = "settling" => RoutedBy(r, filer[r].next)'
    BY <1>1, <2>1 DEF RequestFits, RoutedBy
  <2>3. RoutedBy(r, row[r].status)'
    BY <2>1 DEF RoutedBy
  <2> QED BY <1>1, <2>1, <2>2, <2>3 DEF RequestFits, Granted
<1>9. CASE Routes(r)
  <2> DEFINE next == filer[r].next
  <2>1. /\ attached' = attached /\ row[r].status = "PENDING_POLICY_CHECK"
        /\ filer[r].pc = "settling" /\ filer'[r].pc = "done" /\ next \in DOMAIN AwaitingStep
        /\ GetsStatus(r, next)
    BY <1>1, <1>9 DEF Routes, OnFiling, FilingFits, GetsStatus
  <2>2. row'[r].status = next /\ SameDetails(r)
    BY <1>1, <2>1, GotStatus
  <2>3. RoutedBy(r, row[r].status)'
    BY <1>1, <2>1, <2>2 DEF RequestFits, RoutedBy, SameDetails
  <2>5. next \notin {"UNFILED", "APPROVED"} \cup Granted
    BY <2>1 DEF AwaitingStep, Granted
  <2>6. attached[r].count > 0 => row[r].stated = 0 /\ ~row[r].needsApproval
    BY <1>1, <2>1 DEF RequestFits, Granted
  <2> HIDE DEF next
  <2> QED BY <1>1, <2>1, <2>2, <2>3, <2>5, <2>6 DEF RequestFits, SameDetails
<1> QED BY <1>5, <1>6, <1>7, <1>8, <1>9 DEF FilingStep

LEMMA SettleFilingStep ==
    ASSUME SettleInv, TrailInv', NEW r \in Requests, FilingStep(r)
    PROVE  SettleInv'
<1>1. \A d \in Calls : CallFits(d)'
  BY FilingFitsCalls
<1>2. RequestFits(r)'
  BY FilingFitsRequest DEF TrailInv
<1>3. ASSUME NEW x \in Requests \ {r} PROVE RequestFits(x)'
  <2>1. OnFiling(r)
    BY DEF FilingStep, Files, Ingests, Checks, OpensFirst, Routes, Abandons
  <2>2. RequestFits(x)
    BY DEF SettleInv
  <2> QED BY <2>1, <2>2, FitsKept DEF OnFiling
<1> QED BY <1>1, <1>2, <1>3 DEF SettleInv

LEMMA SettleAdminStep ==
    ASSUME SettleInv, TrailInv', Administers
    PROVE  SettleInv'
<1>1. UNCHANGED <<attached, approvals, lock, filer, job, pc, view>>
  BY DEF Administers, callVars
<1>2. ASSUME NEW d \in Calls PROVE CallFits(d)'
  <2>1. CallFits(d) /\ TypeInv
    BY DEF SettleInv, TrailInv
  <2>2. Req(d)' = Req(d)
    BY <1>1 DEF Req
  <2>3. pc[d] \in InFlight \cup Paying => Req(d) \in Requests
    BY <2>1, DeciderRequest, CallPlaces
  <2>4. \A x \in Requests : /\ row'[x].status = row[x].status
                            /\ EffectiveAmount(row[x], attached[x])' =
                                 EffectiveAmount(row[x], attached[x])
    BY <1>1 DEF Administers, EffectiveAmount
  <2> QED BY <1>1, <2>1, <2>2, <2>3, <2>4 DEF CallFits
<1>3. ASSUME NEW x \in Requests PROVE RequestFits(x)'
  <2>1. RequestFits(x)
    BY DEF SettleInv
  <2> QED BY <1>1, <2>1, FitsKept DEF Administers
<1> QED BY <1>2, <1>3 DEF SettleInv

LEMMA SettleInit == Init => SettleInv
<1> SUFFICES ASSUME Init PROVE SettleInv
  OBVIOUS
<1>1. TrailInv
  BY TrailInit
<1>2. ASSUME NEW c \in Calls PROVE CallFits(c)
  <2>1. pc[c] = "idle"
    BY DEF Init
  <2> QED BY <2>1, CallPlaces, Groups DEF CallFits
<1>3. ASSUME NEW r \in Requests PROVE RequestFits(r)
  <2>1. /\ row[r].status = "UNFILED" /\ attached[r].count = 0 /\ attached[r].total = 0
        /\ filer[r].pc = "none" /\ ~row[r].needsApproval
    BY DEF Init, NoRow
  <2> QED BY <2>1 DEF RequestFits, RoutedBy, Granted
<1> QED BY <1>1, <1>2, <1>3 DEF SettleInv

LEMMA SettleStep ==
    ASSUME NothingUnderneath
    PROVE  SettleInv /\ [Next]_vars => SettleInv'
<1> SUFFICES ASSUME SettleInv, [Next]_vars PROVE SettleInv'
  OBVIOUS
<1>1. TrailInv /\ TypeInv /\ \A r \in Requests : FilingFits(r)
  BY DEF SettleInv, TrailInv
<1>2. TrailInv'
  BY <1>1, TrailStep
<1> QED BY <1>1, <1>2, StepKinds, SettleCallStep, SettleFilingStep, SettleAdminStep

LEMMA SettleHolds ==
    ASSUME NothingUnderneath
    PROVE  Spec => []SettleInv
BY SettleInit, SettleStep, PTL DEF Spec

(* Every figure a budget counts, spent or reserved, is the figure an        *)
(* Approval committed, for all requests, amounts and mixes of calls that    *)
(* may fail half-way (656-662, 1142-1148).                                  *)
THEOREM CountedMoneyProved ==
    ASSUME NothingUnderneath
    PROVE  Spec => []CountedMoneyWasApproved
<1>1. ASSUME SettleInv PROVE CountedMoneyWasApproved
  <2> SUFFICES ASSUME NEW r \in Requests
               PROVE  /\ IsTransaction(row[r], attached[r]) =>
                           \E a \in MoneyApprovals(r) :
                               a.amount = TransactionAmount(row[r], attached[r])
                      /\ IsReservation(row[r], attached[r]) =>
                           \E a \in MoneyApprovals(r) : a.amount = row[r].stated
    BY DEF CountedMoneyWasApproved
  <2>1. RequestFits(r) /\ attached[r].total \in Nat /\ attached[r].count \in Nat
        /\ row[r].stated \in Nat
    BY <1>1 DEF SettleInv, TrailInv, TypeInv, TypeOK, Attached, Row
  <2>2. row[r].status \in Granted =>
          row[r].stated > 0 /\ \E a \in MoneyApprovals(r) : a.amount = row[r].stated
    BY <2>1 DEF RequestFits
  <2>3. attached[r].total > 0 \/ attached[r].count > 0 =>
          row[r].stated = 0 \/ row[r].status \in Granted
    BY <2>1 DEF RequestFits
  <2>4. row[r].status = "APPROVED" /\ attached[r].total > 0 =>
          \E a \in MoneyApprovals(r) : a.amount = attached[r].total
    BY <2>1 DEF RequestFits
  <2>5. CASE row[r].status \in Granted
    BY <2>2, <2>5 DEF IsTransaction, IsReservation, TransactionAmount
  <2>6. CASE row[r].status \notin Granted
    <3>1. ~IsReservation(row[r], attached[r])
      BY <2>6 DEF IsReservation, Granted
    <3>2. IsTransaction(row[r], attached[r]) =>
            /\ row[r].status = "APPROVED" /\ attached[r].total > 0
            /\ TransactionAmount(row[r], attached[r]) = attached[r].total
      BY <2>1, <2>3, <2>6 DEF IsTransaction, TransactionStatuses, TransactionAmount, Granted
    <3> QED BY <2>4, <3>1, <3>2
  <2> QED BY <2>5, <2>6
<1>2. SettleInv => CountedMoneyWasApproved
  BY <1>1
<1> QED BY <1>2, SettleHolds, PTL

-----------------------------------------------------------------------------
(* Progress notes, failures and timeouts included: what a role must decide *)

(* Who has reported a request resolved stays known. *)
LEMMA ReportsStay ==
    ASSUME TypeInv, NEW c \in Calls, CallStep(c), NEW r
    PROVE  ResolvedBy(r) \subseteq ResolvedBy(r)'
<1>1. ASSUME NEW d \in ResolvedBy(r), d # c PROVE d \in ResolvedBy(r)'
  <2>1. Undisturbed(c)
    BY CallShape
  <2> QED BY <1>1, <2>1 DEF ResolvedBy, Resolves, Undisturbed, Req
<1>2. ASSUME c \in ResolvedBy(r) PROVE c \in ResolvedBy(r)'
  <2>1. pc[c] \in {"notifyingNote", "done", "failed"} /\ Resolves(c, r)
    BY <1>2 DEF ResolvedBy
  <2>2. CASE Quits(c)
    BY <2>1, <2>2 DEF Quits, OnJob, Over, ResolvedBy, Resolves, Req
  <2>3. CASE TellsNews(c)
    BY <2>1, <2>3 DEF TellsNews, OnJob, ResolvedBy, Resolves, Req
  <2>4. CASE LosesLock(c)
    BY <2>1, <2>4 DEF LosesLock, OnJob, ResolvedBy, Resolves, Req
  <2>5. ~(Starts(c) \/ Locks(c) \/ Prepares(c) \/ Records(c) \/ Completes(c) \/ PassesOn(c)
          \/ Audits(c) \/ OpensNext(c) \/ Settles(c) \/ Commits(c) \/ TellsOutcome(c)
          \/ StartsUpload(c) \/ Attaches(c) \/ Traces(c) \/ PaysOut(c) \/ Notes(c))
    <3>1. ~(Starts(c) \/ Locks(c) \/ Prepares(c) \/ Records(c) \/ Completes(c) \/ PassesOn(c)
            \/ Audits(c) \/ OpensNext(c))
      BY <2>1 DEF Starts, Locks, Prepares, Records, Completes, PassesOn, Audits, OpensNext
    <3>2. ~(Settles(c) \/ Commits(c) \/ TellsOutcome(c) \/ StartsUpload(c) \/ Attaches(c)
            \/ Traces(c) \/ PaysOut(c) \/ Notes(c))
      BY <2>1 DEF Settles, Commits, TellsOutcome, StartsUpload, Attaches, Traces, PaysOut, Notes
    <3> QED BY <3>1, <3>2
  <2> QED BY <2>2, <2>3, <2>4, <2>5 DEF CallStep
<1> QED BY <1>1, <1>2

(* A request nothing happens to, except that its role is deleted, stays as  *)
(* a role's request should be.                                              *)
LEMMA RoleFitsKept ==
    ASSUME NEW r \in Requests, RoleFits(r),
           row'[r].status = row[r].status, row'[r].stated = row[r].stated,
           row'[r].needsApproval = row[r].needsApproval,
           row'[r].routed \in {row[r].routed, NoRole},
           attached'[r] = attached[r], filer'[r] = filer[r],
           approvals \subseteq approvals', ResolvedBy(r) \subseteq ResolvedBy(r)'
    PROVE  RoleFits(r)'
<1>1. ForRole(r)' => ForRole(r)
  BY DEF ForRole
<1> QED BY <1>1 DEF RoleFits

(* The status a decision writes on a role's request *)
LEMMA RoleSettles ==
    ASSUME TypeInv, NEW c \in Calls, DeciderFits(c), RoleCallFits(c), Settles(c),
           ForRole(Req(c))
    PROVE  /\ view[c].next \in {"REJECTED", "APPROVED"}
           /\ view[c].next = "APPROVED" =>
                \E a \in approvals : /\ a.req = Req(c)
                                     /\ a.stage = "PENDING_ROLE_APPROVAL"
                                     /\ a.decision = "APPROVED"
<1>1. pc[c] = "settling" /\ pc[c] \in InFlight /\ pc[c] \in Told /\ pc[c] \in Deciding
  BY Groups, ToldPlaces DEF Settles
<1>2. view[c].stage = "PENDING_ROLE_APPROVAL"
  BY <1>1 DEF RoleCallFits
<1>3. view[c].next = DecidedStatus(view[c].stage, job[c].asked, view[c].amount, view[c].verified)
  BY <1>1, <1>2 DEF DeciderFits, LeadsOn, ManagerApproves
<1>4. job[c].asked \in {"APPROVED", "REJECTED"}
  BY <1>1, DecidingTypes DEF Decisions
<1>5. PICK a \in RecordedBy(c) : TRUE
  BY <1>1 DEF DeciderFits
<1>6. a \in approvals /\ a.req = Req(c) /\ a.stage = view[c].stage /\ a.decision = job[c].asked
  BY <1>5 DEF RecordedBy
<1> QED BY <1>2, <1>3, <1>4, <1>6 DEF DecidedStatus

LEMMA RoleRequestsStep ==
    ASSUME RoleInv, TrailInv', NEW c \in Calls, CallStep(c), NEW r \in Requests
    PROVE  RoleFits(r)'
<1>1. /\ TypeInv /\ RoleFits(r) /\ RoleCallFits(c) /\ DeciderFits(c) /\ FilingFits(r)
      /\ FilingFits(r)'
  BY DEF RoleInv, TrailInv
<1>2. /\ filer' = filer /\ approvals \subseteq approvals' /\ SameDetails(r)
      /\ ResolvedBy(r) \subseteq ResolvedBy(r)'
  BY <1>1, CallShape, ReportsStay
<1>3. ForRole(r)' = ForRole(r)
  BY <1>2 DEF ForRole, SameDetails
<1>4. CASE row'[r] = row[r] /\ attached'[r] = attached[r]
  BY <1>1, <1>2, <1>4, RoleFitsKept
<1>5. CASE r = Req(c) /\ Settles(c) /\ GetsStatus(r, view[c].next) /\ attached' = attached
  <2>1. pc[c] \in InFlight /\ filer[r].pc = "done"
    BY <1>1, <1>5, Groups DEF Settles, DeciderFits
  <2>2. row'[r].status = view[c].next /\ row'[r].status # "UNFILED"
    BY <1>1, <1>2, <1>5, <2>1, GotStatus DEF FilingFits
  <2>3. ForRole(r) =>
          /\ view[c].next \in {"REJECTED", "APPROVED"}
          /\ view[c].next = "APPROVED" =>
               \E a \in approvals : /\ a.req = r
                                    /\ a.stage = "PENDING_ROLE_APPROVAL"
                                    /\ a.decision = "APPROVED"
    BY <1>1, <1>5, RoleSettles
  <2> QED BY <1>1, <1>2, <1>3, <1>5, <2>1, <2>2, <2>3 DEF RoleFits
<1>6. CASE r = Req(c) /\ pc[c] \in Paying
  <2>1. ~ForRole(r) /\ filer[r].pc = "done"
    BY <1>1, <1>6, CallPlaces DEF RoleCallFits, DeciderFits
  <2>2. row'[r].status # "UNFILED"
    BY <1>1, <1>2, <2>1 DEF FilingFits
  <2> QED BY <1>3, <2>1, <2>2 DEF RoleFits
<1>7. CASE /\ r = Req(c) /\ Notes(c) /\ pc[c] = "writingNote" /\ pc'[c] = "notifyingNote"
           /\ job[c].asked = "RESOLVED" /\ GetsStatus(r, "COMPLETED") /\ attached' = attached
  <2>1. row'[r].status = "COMPLETED"
    BY <1>1, <1>7, GotStatus
  <2>2. job[c].op = "note" /\ filer[r].pc = "done"
    BY <1>1, <1>7 DEF TypeInv, Locals, Fits, Noting, DeciderFits
  <2>3. c \in ResolvedBy(r)'
    BY <1>7, <2>2 DEF ResolvedBy, Resolves, Notes, OnJob, Req
  <2> QED BY <1>1, <1>2, <1>3, <1>7, <2>1, <2>2, <2>3 DEF RoleFits
<1> QED BY <1>4, <1>5, <1>6, <1>7, CallChanges DEF PaysOut, Attaches, Paying

(* Who reports progress may, as long as the directory stands. *)
LEMMA ReportersMay ==
    ASSUME TypeInv, NEW c \in Calls, CallStep(c), UNCHANGED directoryVars,
           \A d \in Calls : RoleCallFits(d), NEW d \in Calls, job'[d].op = "note"
    PROVE  filer'[Req(d)'].pc = "done" /\ (Untouched' => MayReport(Actor(d), Req(d))')
<1>1. /\ UNCHANGED filer /\ \A r \in Requests : SameDetails(r)
      /\ Undisturbed(c)
  BY CallShape
<1>2. ASSUME NEW u, NEW r \in Requests PROVE MayReport(u, r)' = MayReport(u, r)
  BY <1>1 DEF MayReport, SameDetails, directoryVars
<1>3. CASE job'[d] = job[d]
  <2>1. Req(d) \in Requests /\ Req(d)' = Req(d) /\ Actor(d)' = Actor(d)
    BY <1>3 DEF TypeInv, TypeOK, Job, NoJob, Req, Actor
  <2>2. Untouched' = Untouched
    BY DEF Untouched, directoryVars
  <2>3. filer[Req(d)].pc = "done" /\ (Untouched => MayReport(Actor(d), Req(d)))
    BY <1>3 DEF RoleCallFits
  <2>4. MayReport(Actor(d), Req(d))' = MayReport(Actor(d), Req(d))
    <3> PICK r \in Requests : r = Req(d)
      BY <2>1
    <3> PICK u : u = Actor(d)
      OBVIOUS
    <3>1. MayReport(Actor(d), Req(d))' = MayReport(u, r)'
      BY <2>1
    <3> QED BY <1>2, <3>1
  <2> QED BY <1>1, <2>1, <2>2, <2>3, <2>4
<1>4. CASE job'[d] # job[d]
  <2>1. Starts(c) /\ d = c
    BY <1>1, <1>4 DEF Undisturbed, CallStep, Quits, Locks, Prepares, Records, Completes,
       PassesOn, Audits, OpensNext, Settles, Commits, TellsOutcome, TellsNews, StartsUpload,
       Attaches, Traces, PaysOut, Notes, LosesLock, OnJob
  <2>2. /\ Req(d)' \in Requests /\ filer[Req(d)'].pc = "done"
        /\ MayReport(Actor(d)', Req(d)')
    BY <2>1 DEF Starts, Req, Actor
  <2>3. MayReport(Actor(d), Req(d))'
    <3> PICK r \in Requests : r = Req(d)'
      BY <2>2
    <3> PICK u : u = Actor(d)'
      OBVIOUS
    <3>1. MayReport(Actor(d), Req(d))' = MayReport(u, r)'
      OBVIOUS
    <3> QED BY <1>2, <2>2, <3>1
  <2> QED BY <1>1, <2>2, <2>3
<1> QED BY <1>3, <1>4

LEMMA RoleCallsStep ==
    ASSUME RoleInv, TypeInv', NEW c \in Calls, CallStep(c), UNCHANGED directoryVars,
           NEW d \in Calls
    PROVE  RoleCallFits(d)'
<1>1. /\ TypeInv /\ \A x \in Calls : RoleCallFits(x)
      /\ \A r \in Requests : RoleFits(r)
      /\ \A r \in Requests : FilingFits(r)
  BY DEF RoleInv, TrailInv
<1>2. Undisturbed(c) /\ UNCHANGED filer /\ \A r \in Requests : SameDetails(r)
  BY <1>1, CallShape
<1>3. job'[d].op = "note" =>
        filer'[Req(d)'].pc = "done" /\ (Untouched' => MayReport(Actor(d), Req(d))')
  BY <1>1, ReportersMay
<1>4. ASSUME pc[d] \in InFlight \cup Paying, job'[d] = job[d]
      PROVE  Req(d)' = Req(d) /\ ForRole(Req(d))' = ForRole(Req(d))
  <2>1. Req(d) \in Requests
    BY <1>1, <1>4, DeciderRequest, CallPlaces
  <2> PICK r \in Requests : r = Req(d)
    BY <2>1
  <2>2. Req(d)' = r
    BY <1>4 DEF Req
  <2>3. ForRole(r)' = ForRole(r)
    BY <1>2 DEF ForRole, SameDetails
  <2>4. ForRole(Req(d))' = ForRole(r)'
    BY <2>2
  <2> QED BY <2>2, <2>3, <2>4
<1>5. ASSUME pc'[d] \in InFlight \cup Paying, ForRole(Req(d))'
      PROVE  pc'[d] \in InFlight /\ view'[d].stage = "PENDING_ROLE_APPROVAL"
  <2>1. CASE d # c
    BY <1>1, <1>2, <1>4, <1>5, <2>1 DEF Undisturbed, RoleCallFits
  <2>2. CASE d = c /\ (Starts(c) \/ Quits(c) \/ Settles(c) \/ Commits(c) \/ TellsOutcome(c)
                       \/ TellsNews(c) \/ PaysOut(c) \/ Notes(c))
    <3>1. pc'[c] \in Over \cup Noting \cup {"waiting", "readingProof", "committing",
                                            "notifying", "notifyingProof"}
      BY <2>2 DEF Starts, Quits, Settles, Commits, TellsOutcome, TellsNews, PaysOut, Notes,
                  Noting, Over
    <3> QED BY <1>5, <2>2, <3>1, CallPlaces, Groups DEF Proving
  <2>3. CASE d = c /\ Locks(c)
    <3> PICK r \in Requests : r = Req(c)
      BY <2>3 DEF Locks
    <3>1. /\ view'[c].stage = row[r].status /\ row[r].status \in PendingStatuses
          /\ row' = row /\ Req(c)' = r /\ pc'[c] = "authorising"
      BY <2>3 DEF Locks, OnJob, Req, requestVars
    <3>2. ForRole(r)
      BY <1>5, <2>3, <3>1 DEF ForRole
    <3> QED BY <1>1, <2>3, <3>1, <3>2, Groups DEF RoleFits, PendingStatuses
  <2>4. CASE d = c /\ (Prepares(c) \/ Records(c) \/ Completes(c) \/ PassesOn(c) \/ Audits(c)
                       \/ OpensNext(c) \/ LosesLock(c))
    <3>1. /\ job'[c] = job[c] /\ view'[c].stage = view[c].stage
          /\ pc'[c] \in InFlight => pc[c] \in InFlight
          /\ pc'[c] \in Paying => pc[c] \in Paying
      BY <2>4, Groups, CallPlaces DEF Prepares, Records, Completes, PassesOn, Audits, OpensNext,
                                      LosesLock, OnJob, SameLocals
    <3>2. pc[c] \in InFlight \cup Paying
      BY <1>5, <2>4, <3>1
    <3>3. ForRole(Req(c)) /\ RoleCallFits(c)
      BY <1>1, <1>4, <1>5, <2>4, <3>1, <3>2
    <3>4. pc[c] \in InFlight /\ view[c].stage = "PENDING_ROLE_APPROVAL"
      BY <3>2, <3>3 DEF RoleCallFits
    <3> QED BY <1>5, <2>4, <3>1, <3>4, CallPlaces
  <2>5. CASE d = c /\ StartsUpload(c)
    <3>1. Req(c) \in Requests
      BY <1>1, <2>5, ProvingTypes DEF StartsUpload, Proving
    <3> PICK r \in Requests : r = Req(c)
      BY <3>1
    <3>2. row[r].status = "PENDING_PAYMENT" /\ row' = row /\ Req(c)' = r
      BY <2>5 DEF StartsUpload, OnJob, Req, requestVars
    <3>3. ForRole(r)
      BY <1>5, <2>5, <3>2 DEF ForRole
    <3> QED BY <1>1, <3>2, <3>3 DEF RoleFits
  <2>6. CASE d = c /\ (Attaches(c) \/ Traces(c))
    <3>1. pc[c] \in Paying /\ job'[c] = job[c]
      BY <2>6 DEF Attaches, Traces, OnJob, Paying
    <3> QED BY <1>1, <1>4, <1>5, <2>6, <3>1, CallPlaces DEF RoleCallFits
  <2> QED BY <2>1, <2>2, <2>3, <2>4, <2>5, <2>6 DEF CallStep
<1> QED BY <1>3, <1>5 DEF RoleCallFits

LEMMA RoleFilingStep ==
    ASSUME RoleInv, TrailInv', NEW r \in Requests, FilingStep(r), UNCHANGED directoryVars
    PROVE  RoleInv'
<1>1. /\ TypeInv /\ RoleFits(r) /\ FilingFits(r) /\ FilingFits(r)'
      /\ attached[r].count \in Nat /\ attached[r].total \in Nat
  BY DEF RoleInv, TrailInv, TypeInv, TypeOK, Attached
<1>2. /\ OnFiling(r) /\ filer[r].pc # "done"
  BY <1>1 DEF FilingStep, Files, Ingests, Checks, OpensFirst, Routes, Abandons, FilingFits
<1>3. /\ UNCHANGED <<approvals, job, pc, view>>
      /\ \A x \in Requests \ {r} : /\ row'[x] = row[x] /\ filer'[x] = filer[x]
                                   /\ attached'[x] = attached[x]
  BY <1>2 DEF OnFiling
<1>4. adminOps' = adminOps /\ holds' = holds
  BY DEF directoryVars
<1>5. \A x : ResolvedBy(x)' = ResolvedBy(x)
  BY <1>3 DEF ResolvedBy, Resolves, Req
<1>6. ASSUME NEW x \in Requests \ {r} PROVE RoleFits(x)'
  <2>1. RoleFits(x)
    BY DEF RoleInv
  <2> QED BY <1>3, <1>5, <2>1, RoleFitsKept
<1>7. RoleFits(r)'
  <2>1. CASE Files(r)
    <3>1. /\ attached' = attached /\ attached[r].count = 0 /\ attached[r].total = 0
          /\ row'[r].status = "PENDING_POLICY_CHECK"
          /\ filer'[r].pc \notin {"opening", "settling"}
          /\ filer'[r].pc = "ingesting" => ~row'[r].needsApproval
      BY <1>1, <2>1 DEF Files, RoleFits
    <3> QED BY <3>1 DEF RoleFits, ForRole
  <2>2. CASE ~Files(r)
    <3>1. row[r].status = "PENDING_POLICY_CHECK" /\ filer[r].pc \notin {"none", "done"}
      BY <1>1, <1>2, <2>2 DEF FilingStep, Ingests, Checks, OpensFirst, Routes, Abandons, FilingFits
    <3>2. CASE Routes(r)
      <4>1. /\ GetsStatus(r, filer[r].next) /\ attached' = attached
            /\ filer[r].pc = "settling" /\ filer'[r].pc = "done"
            /\ filer[r].next \in DOMAIN AwaitingStep
        BY <1>3, <3>2 DEF Routes, GetsStatus
      <4>2. row'[r].status = filer[r].next /\ SameDetails(r)
        BY <1>1, <4>1, GotStatus
      <4>3. ForRole(r)' = ForRole(r)
        BY <4>2 DEF ForRole, SameDetails
      <4>4. row'[r].status # "UNFILED"
        BY <4>1, <4>2 DEF AwaitingStep
      <4> QED BY <1>1, <4>1, <4>2, <4>3, <4>4 DEF RoleFits
    <3>3. CASE ~Routes(r)
      <4>1. row' = row
        BY <2>2, <3>3 DEF FilingStep, Ingests, Checks, OpensFirst, Abandons, requestVars
      <4>2. ForRole(r)' = ForRole(r)
        BY <4>1 DEF ForRole
      <4>3. CASE Ingests(r)
        <5>1. ~ForRole(r)
          BY <1>1, <4>3 DEF Ingests, RoleFits
        <5> QED BY <3>1, <4>1, <4>2, <5>1 DEF RoleFits
      <4>4. CASE Checks(r)
        <5>1. ForRole(r) => PipelineStatus(row[r], attached[r]) = "PENDING_ROLE_APPROVAL"
          BY <1>1 DEF RoleFits, ForRole, PipelineStatus
        <5>2. /\ attached' = attached /\ filer'[r].pc = "opening"
              /\ filer'[r].next = PipelineStatus(row[r], attached[r])
          BY <4>4 DEF Checks
        <5> QED BY <1>1, <3>1, <4>1, <4>2, <5>1, <5>2 DEF RoleFits
      <4>5. CASE OpensFirst(r) \/ Abandons(r)
        <5>1. /\ attached' = attached /\ filer'[r].pc \notin {"ingesting", "opening"}
              /\ filer'[r].pc = "settling" =>
                   filer[r].pc = "opening" /\ filer'[r].next = filer[r].next
          BY <4>5 DEF OpensFirst, Abandons, requestVars
        <5> QED BY <1>1, <3>1, <4>1, <4>2, <5>1 DEF RoleFits
      <4> QED BY <2>2, <3>3, <4>3, <4>4, <4>5 DEF FilingStep
    <3> QED BY <3>2, <3>3
  <2> QED BY <2>1, <2>2
<1>8. ASSUME NEW d \in Calls PROVE RoleCallFits(d)'
  <2>1. RoleCallFits(d) /\ DeciderFits(d)
    BY DEF RoleInv, TrailInv
  <2>2. Req(d)' = Req(d) /\ Actor(d)' = Actor(d)
    BY <1>3 DEF Req, Actor
  <2>3. pc[d] \in InFlight \cup Paying => Req(d) \in Requests \ {r}
    BY <1>1, <1>2, <2>1, DeciderRequest, CallPlaces DEF DeciderFits
  <2>4. job[d].op = "note" => Req(d) \in Requests \ {r}
    BY <1>1, <1>2, <2>1 DEF RoleCallFits, TypeInv, TypeOK, Job, NoJob, Req
  <2>5. Req(d) \in Requests \ {r} =>
          /\ row'[Req(d)] = row[Req(d)] /\ filer'[Req(d)] = filer[Req(d)]
    BY <1>3
  <2>6. Req(d) \in Requests \ {r} =>
          /\ ForRole(Req(d))' = ForRole(Req(d))
          /\ MayReport(Actor(d), Req(d))' = MayReport(Actor(d), Req(d))
    BY <1>4, <2>2, <2>5 DEF ForRole, MayReport
  <2> QED BY <1>3, <1>4, <2>1, <2>2, <2>3, <2>4, <2>5, <2>6 DEF RoleCallFits, Untouched
<1>9. adminOps' <= MaxAdminOps
  BY <1>4 DEF RoleInv
<1> QED BY <1>6, <1>7, <1>8, <1>9 DEF RoleInv

LEMMA RoleAdminStep ==
    ASSUME RoleInv, TrailInv', Administers
    PROVE  RoleInv'
<1>1. /\ UNCHANGED <<attached, approvals, filer, job, pc, view>>
      /\ \A x \in Requests : /\ row'[x].status = row[x].status
                             /\ row'[x].stated = row[x].stated
                             /\ row'[x].needsApproval = row[x].needsApproval
                             /\ row'[x].routed \in {row[x].routed, NoRole}
  BY DEF Administers, callVars
<1>2. \A x : ResolvedBy(x)' = ResolvedBy(x)
  BY <1>1 DEF ResolvedBy, Resolves, Req
<1>3. ASSUME NEW x \in Requests PROVE RoleFits(x)'
  <2>1. RoleFits(x)
    BY DEF RoleInv
  <2> QED BY <1>1, <1>2, <2>1, RoleFitsKept
<1>4. /\ TypeInv /\ adminOps <= MaxAdminOps /\ adminOps \in Nat /\ MaxAdminOps \in Nat
  BY MaxAdminOpsType DEF RoleInv, TrailInv, TypeInv, TypeOK, DirectoryTypeOK
<1>5. adminOps' <= MaxAdminOps /\ (Untouched' => UNCHANGED vars)
  <2>1. CASE UNCHANGED vars
    <3>1. adminOps' = adminOps
      BY <2>1 DEF vars, directoryVars
    <3> QED BY <1>4, <2>1, <3>1
  <2>2. CASE ~UNCHANGED vars
    <3>1. adminOps > 0 /\ adminOps' = adminOps - 1
      BY <2>2 DEF Administers
    <3> QED BY <1>4, <3>1 DEF Untouched
  <2> QED BY <2>1, <2>2
<1>6. ASSUME NEW d \in Calls PROVE RoleCallFits(d)'
  <2>1. RoleCallFits(d)
    BY DEF RoleInv
  <2>2. Req(d)' = Req(d) /\ Actor(d)' = Actor(d)
    BY <1>1 DEF Req, Actor
  <2>3. pc[d] \in InFlight \cup Paying => Req(d) \in Requests
    BY <1>4, DeciderRequest, CallPlaces
  <2>4. Req(d) \in Requests /\ ForRole(Req(d))' => ForRole(Req(d))
    BY <1>1, <2>2 DEF ForRole
  <2>5. Untouched' => /\ Untouched
                      /\ MayReport(Actor(d), Req(d))' = MayReport(Actor(d), Req(d))
    <3> SUFFICES ASSUME Untouched'
                 PROVE  /\ Untouched
                        /\ MayReport(Actor(d), Req(d))' = MayReport(Actor(d), Req(d))
      OBVIOUS
    <3>1. row' = row /\ holds' = holds /\ adminOps' = adminOps
      BY <1>5 DEF vars, requestVars, directoryVars
    <3>2. Untouched
      BY <3>1 DEF Untouched
    <3> QED BY <2>2, <3>1, <3>2 DEF MayReport
  <2> QED BY <1>1, <2>1, <2>2, <2>3, <2>4, <2>5 DEF RoleCallFits
<1> QED BY <1>3, <1>5, <1>6 DEF RoleInv

LEMMA RoleInit == Init => RoleInv
<1> SUFFICES ASSUME Init PROVE RoleInv
  OBVIOUS
<1>1. TrailInv
  BY TrailInit
<1>2. ASSUME NEW c \in Calls PROVE RoleCallFits(c)
  <2>1. pc[c] = "idle" /\ job[c].op = "none"
    BY <1>2 DEF Init, NoJob
  <2> QED BY <2>1, CallPlaces, Groups DEF RoleCallFits
<1>3. ASSUME NEW r \in Requests PROVE RoleFits(r)
  <2>1. attached[r].count = 0 /\ attached[r].total = 0 /\ ~row[r].needsApproval
    BY <1>3 DEF Init, NoRow
  <2> QED BY <2>1 DEF RoleFits, ForRole
<1>4. adminOps <= MaxAdminOps
  BY MaxAdminOpsType DEF Init, DirectoryInit
<1> QED BY <1>1, <1>2, <1>3, <1>4 DEF RoleInv

LEMMA RoleStep == RoleInv /\ [Next]_vars => RoleInv'
<1> SUFFICES ASSUME RoleInv, [Next]_vars PROVE RoleInv'
  OBVIOUS
<1>1. TrailInv /\ TypeInv /\ \A r \in Requests : FilingFits(r)
  BY DEF RoleInv, TrailInv
<1>2. TrailInv' /\ TypeInv'
  <2>1. TrailInv'
    BY <1>1, TrailStep
  <2> QED BY <2>1 DEF TrailInv
<1>3. ASSUME NEW c \in Calls, CallStep(c), UNCHANGED directoryVars PROVE RoleInv'
  <2>1. \A r \in Requests : RoleFits(r)'
    BY <1>2, <1>3, RoleRequestsStep
  <2>2. \A d \in Calls : RoleCallFits(d)'
    BY <1>2, <1>3, RoleCallsStep
  <2>3. adminOps' <= MaxAdminOps
    BY <1>3 DEF RoleInv, directoryVars
  <2> QED BY <1>2, <2>1, <2>2, <2>3 DEF RoleInv
<1> QED BY <1>1, <1>2, <1>3, StepKinds, RoleFilingStep, RoleAdminStep

(* Whatever overlaps, fails or times out, a request that a role must decide *)
(* shows APPROVED only after somebody other than its requester approved it  *)
(* for that role, and COMPLETED only because a report said it is resolved,  *)
(* by a holder of the role or an administrator while nobody's roles had     *)
(* been changed (622-627, 294-325, 1052-1066).                              *)
THEOREM RoleMustDecideProved == Spec => []RoleMustDecide
<1>1. ASSUME RoleInv PROVE RoleMustDecide
  <2>1. ASSUME NEW r \in Requests, ForRole(r), row[r].status = "APPROVED"
        PROVE  \E a \in approvals : /\ a.req = r
                                    /\ a.stage = "PENDING_ROLE_APPROVAL"
                                    /\ a.decision = "APPROVED"
                                    /\ a.by # row[r].requester
    <3>1. RoleFits(r) /\ \A a \in approvals : ApprovalFits(a)
      BY <1>1 DEF RoleInv, TrailInv
    <3>2. PICK a \in approvals : /\ a.req = r /\ a.stage = "PENDING_ROLE_APPROVAL"
                                 /\ a.decision = "APPROVED"
      BY <2>1, <3>1 DEF RoleFits
    <3> QED BY <3>1, <3>2 DEF ApprovalFits
  <2>2. ASSUME NEW r \in Requests, ForRole(r), row[r].status = "COMPLETED"
        PROVE  \E c \in ResolvedBy(r) :
                   adminOps = MaxAdminOps =>
                       IsAdmin(Actor(c)) \/ <<Actor(c), row[r].routed>> \in holds
    <3>1. RoleFits(r)
      BY <1>1 DEF RoleInv
    <3>2. PICK c \in Calls : c \in ResolvedBy(r)
      BY <2>2, <3>1 DEF RoleFits, ResolvedBy
    <3>3. RoleCallFits(c)
      BY <1>1 DEF RoleInv
    <3>4. job[c].op = "note" /\ Req(c) = r
      BY <3>2 DEF ResolvedBy, Resolves
    <3> QED BY <3>2, <3>3, <3>4 DEF RoleCallFits, Untouched, MayReport
  <2> QED BY <2>1, <2>2 DEF RoleMustDecide, ForRole
<1>2. RoleInv => RoleMustDecide
  BY <1>1
<1> QED BY <1>2, RoleInit, RoleStep, PTL DEF Spec

-----------------------------------------------------------------------------
(* What is settled.  Without timeouts the calls that decide one request     *)
(* exclude each other, and decisions and proofs of one request never meet;  *)
(* only a report that it is resolved comes between.                         *)

LEMMA NotedOthers ==
    ASSUME "timeout" \notin FaultKinds, NotedInv, NEW c \in Calls, CallStep(c),
           NEW d \in Calls, d # c
    PROVE  NotedFits(d)'
<1>1. /\ TypeInv /\ NotedFits(c) /\ NotedFits(d)
      /\ \A r \in Requests : lock[r] = d => lock'[r] = d
  BY CallShape DEF NotedInv, TrailInv, Undisturbed
<1>2. pc'[d] = pc[d] /\ Req(d)' = Req(d) /\ view'[d] = view[d]
  BY <1>1, CallShape DEF Undisturbed, Req
<1>3. pc[d] \in Deciding => lock'[Req(d)] = d
  BY <1>1, InFlightTypes DEF NotedFits
<1>4. ASSUME pc[d] \in InFlight
      PROVE  \/ view[d].stage = row'[Req(d)].status
             \/ row'[Req(d)].status = "COMPLETED" /\ ResolvedBy(Req(d))' # {}
  <2>1. pc[d] \in Deciding /\ Req(d) \in Requests
    BY <1>1, <1>4, Groups, InFlightTypes
  <2> PICK r \in Requests : r = Req(d)
    BY <2>1
  <2>2. ResolvedBy(r) \subseteq ResolvedBy(r)' /\ Req(d)' = r
    BY <1>1, <1>2, ReportsStay
  <2>3. CASE row'[r] = row[r]
    BY <1>1, <1>4, <2>2, <2>3 DEF NotedFits
  <2>4. CASE r = Req(c) /\ Settles(c)
    BY <1>1, <2>1, <2>4, Groups DEF NotedFits, Settles
  <2>5. CASE r = Req(c) /\ PaysOut(c)
    BY <1>1, <1>4, <2>5 DEF NotedFits, PaysOut, Paying
  <2>6. CASE /\ r = Req(c) /\ Notes(c) /\ pc[c] = "writingNote" /\ pc'[c] = "notifyingNote"
             /\ job[c].asked = "RESOLVED" /\ GetsStatus(r, "COMPLETED")
    <3>1. row'[r].status = "COMPLETED"
      BY <1>1, <2>6, GotStatus
    <3>2. c \in ResolvedBy(r)'
      <4>1. job[c].op = "note"
        BY <1>1, <2>6 DEF TypeInv, Locals, Fits, Noting
      <4> QED BY <2>6, <4>1 DEF ResolvedBy, Resolves, Notes, OnJob, Req
    <3> QED BY <2>2, <3>1, <3>2
  <2> QED BY <2>3, <2>4, <2>5, <2>6, CallChanges
<1>5. ASSUME pc[d] \in Paying
      PROVE  /\ row'[Req(d)].status \in Granted
             /\ \A x \in Calls : pc'[x] \in InFlight => Req(x)' # Req(d)
  <2>1. /\ Req(d) \in Requests /\ row[Req(d)].status \in Granted
        /\ \A x \in Calls : pc[x] \in InFlight => Req(x) # Req(d)
    BY <1>1, <1>5, CallPlaces, ProvingTypes DEF NotedFits
  <2> PICK r \in Requests : r = Req(d)
    BY <2>1
  <2>2. row'[r].status \in Granted
    <3>1. CASE row'[r] = row[r]
      BY <2>1, <3>1
    <3>2. CASE r = Req(c) /\ Settles(c)
      BY <2>1, <3>2, Groups DEF Settles
    <3>3. CASE GetsStatus(r, "COMPLETED")
      BY <1>1, <3>3, GotStatus DEF Granted
    <3> QED BY <3>1, <3>2, <3>3, CallChanges
  <2>3. ASSUME pc'[c] \in InFlight PROVE Req(c)' # r
    <3>1. CASE pc[c] \in InFlight
      <4>1. ~Starts(c)
        BY <3>1, Groups DEF Starts
      <4>2. Req(c)' = Req(c)
        BY <4>1 DEF CallStep, Quits, Locks, Prepares, Records, Completes, PassesOn, Audits,
           OpensNext, Settles, Commits, TellsOutcome, TellsNews, StartsUpload, Attaches,
           Traces, PaysOut, Notes, LosesLock, OnJob, Req
      <4> QED BY <2>1, <3>1, <4>2
    <3>2. CASE pc[c] \notin InFlight
      <4>1. Locks(c)
        <5>1. CASE Starts(c) \/ Quits(c) \/ Settles(c) \/ Commits(c) \/ TellsOutcome(c)
                   \/ TellsNews(c) \/ PaysOut(c) \/ Notes(c) \/ StartsUpload(c)
                   \/ Attaches(c) \/ Traces(c)
          <6>1. pc'[c] \in Over \cup Noting \cup Proving \cup {"waiting", "committing", "notifying"}
            BY <5>1 DEF Starts, Quits, Settles, Commits, TellsOutcome, TellsNews, PaysOut, Notes,
                        StartsUpload, Attaches, Traces, Noting, Proving, Over
          <6> QED BY <2>3, <6>1, Groups
        <5>2. CASE Prepares(c) \/ Records(c) \/ Completes(c) \/ PassesOn(c) \/ Audits(c)
                   \/ OpensNext(c) \/ LosesLock(c)
          BY <2>3, <3>2, <5>2, Groups DEF Prepares, Records, Completes, PassesOn, Audits,
             OpensNext, LosesLock
        <5> QED BY <5>1, <5>2 DEF CallStep
      <4> QED BY <2>1, <4>1, CallPlaces DEF Locks, OnJob, Req
    <3> QED BY <3>1, <3>2
  <2>4. ASSUME NEW x \in Calls, x # c, pc'[x] \in InFlight PROVE Req(x)' # r
    BY <1>1, <2>1, <2>4, CallShape DEF Undisturbed, Req
  <2> QED BY <2>2, <2>3, <2>4
<1> QED BY <1>1, <1>2, <1>3, <1>4, <1>5 DEF NotedFits

LEMMA NotedMover ==
    ASSUME "timeout" \notin FaultKinds, NotedInv, NEW c \in Calls, CallStep(c)
    PROVE  NotedFits(c)'
<1>1. TypeInv /\ NotedFits(c) /\ \A d \in Calls : NotedFits(d)
  BY DEF NotedInv, TrailInv
<1>2. ~LosesLock(c)
  BY DEF LosesLock
<1>3. CASE Starts(c) \/ Quits(c) \/ TellsOutcome(c) \/ TellsNews(c) \/ Commits(c) \/ PaysOut(c)
           \/ Notes(c)
  <2>1. pc'[c] \in Over \cup Noting \cup {"waiting", "readingProof", "notifying", "notifyingProof"}
    BY <1>3 DEF Starts, Quits, TellsOutcome, TellsNews, Commits, PaysOut, Notes, Noting, Over
  <2>2. pc'[c] \notin Deciding \cup InFlight \cup Paying
    BY <2>1, CallPlaces, Groups DEF Proving, Paying, Noting
  <2> QED BY <2>2 DEF NotedFits
<1>4. CASE Locks(c)
  <2>1. pc'[c] \notin Paying
    BY <1>4, CallPlaces, Groups DEF Locks
  <2> QED BY <1>4, <2>1 DEF Locks, OnJob, NotedFits, requestVars, Req
<1>5. CASE Prepares(c) \/ PassesOn(c) \/ Records(c) \/ Completes(c) \/ Audits(c) \/ OpensNext(c)
  <2>1. /\ pc[c] \in InFlight /\ pc'[c] \in InFlight
        /\ OnJob(c) /\ SameLocals(c)
        /\ row' = row /\ lock' = lock
    BY <1>5, Groups DEF Prepares, PassesOn, Records, Completes, Audits, OpensNext,
                        SameLocals, requestVars
  <2>2. pc'[c] \notin Paying /\ pc[c] \in Deciding /\ Req(c)' = Req(c)
    BY <2>1, CallPlaces, Groups DEF OnJob, Req
  <2>3. ResolvedBy(Req(c)) \subseteq ResolvedBy(Req(c))'
    <3> PICK r : r = Req(c)
      OBVIOUS
    <3>1. ResolvedBy(r) \subseteq ResolvedBy(r)'
      BY <1>1, ReportsStay
    <3>2. Req(c)' = r
      BY <2>2
    <3> QED BY <3>1, <3>2
  <2> QED BY <1>1, <2>1, <2>2, <2>3 DEF NotedFits, SameLocals
<1>6. CASE Settles(c)
  <2>1. pc'[c] \notin Paying \cup InFlight /\ pc[c] \in Deciding
    BY <1>6, CallPlaces, Groups DEF Settles
  <2> QED BY <1>1, <1>6, <2>1 DEF NotedFits, Settles, OnJob, Req
<1>7. CASE StartsUpload(c) \/ Attaches(c) \/ Traces(c)
  <2>1. /\ pc'[c] \in Paying /\ OnJob(c) /\ row' = row /\ Req(c)' = Req(c)
        /\ pc[c] \notin InFlight
    BY <1>7, Groups DEF StartsUpload, Attaches, Traces, OnJob, Paying, requestVars, Req
  <2>2. row[Req(c)].status \in Granted
    BY <1>1, <1>7 DEF StartsUpload, Attaches, Traces, NotedFits, Paying, Granted
  <2>3. ASSUME NEW d \in Calls, pc'[d] \in InFlight PROVE Req(d)' # Req(c)
    <3>1. pc'[c] \notin InFlight
      BY <2>1, CallPlaces
    <3>2. d # c /\ pc[d] \in InFlight /\ Req(d)' = Req(d)
      BY <2>1, <2>3, <3>1 DEF OnJob, Undisturbed, Req
    <3>3. CASE StartsUpload(c)
      <4>1. view[d].stage \in PendingStatuses
        BY <1>1, <3>2, DecidingTypes, Groups
      <4> QED BY <1>1, <3>2, <3>3, <4>1 DEF NotedFits, StartsUpload, PendingStatuses
    <3>4. CASE Attaches(c) \/ Traces(c)
      <4>1. pc[c] \in Paying
        BY <3>4 DEF Attaches, Traces, Paying
      <4> QED BY <1>1, <3>2, <4>1 DEF NotedFits
    <3> QED BY <1>7, <3>2, <3>3, <3>4
  <2>4. pc'[c] \notin Deciding \cup InFlight
    BY <2>1, CallPlaces, Groups
  <2> QED BY <2>1, <2>2, <2>3, <2>4 DEF NotedFits
<1> QED BY <1>2, <1>3, <1>4, <1>5, <1>6, <1>7 DEF CallStep

LEMMA NotedElsewhere ==
    ASSUME NotedInv, NEW d \in Calls, UNCHANGED <<lock, job, pc, view>>,
           pc[d] \in InFlight \cup Paying => row'[Req(d)].status = row[Req(d)].status
    PROVE  NotedFits(d)'
<1>1. NotedFits(d) /\ \A x \in Calls : Req(x)' = Req(x)
  BY DEF NotedInv, Req
<1>2. ResolvedBy(Req(d))' = ResolvedBy(Req(d))
  BY <1>1 DEF ResolvedBy, Resolves
<1> QED BY <1>1, <1>2 DEF NotedFits

LEMMA NotedInit == Init => NotedInv
<1> SUFFICES ASSUME Init PROVE NotedInv
  OBVIOUS
<1>1. \A c \in Calls : pc[c] = "idle"
  BY DEF Init
<1>2. \A c \in Calls : NotedFits(c)
  BY <1>1, CallPlaces, Groups DEF NotedFits
<1> QED BY <1>2, TrailInit DEF NotedInv

LEMMA NotedStep ==
    ASSUME "timeout" \notin FaultKinds
    PROVE  NotedInv /\ [Next]_vars => NotedInv'
<1> SUFFICES ASSUME NotedInv, [Next]_vars PROVE NotedInv'
  OBVIOUS
<1>1. TrailInv /\ TypeInv /\ \A r \in Requests : FilingFits(r)
  BY DEF NotedInv, TrailInv
<1>2. TrailInv'
  BY <1>1, TrailStep
<1>3. ASSUME NEW c \in Calls, CallStep(c) PROVE NotedInv'
  <2>1. \A d \in Calls : NotedFits(d)'
    BY <1>3, NotedMover, NotedOthers
  <2> QED BY <1>2, <2>1 DEF NotedInv
<1>4. ASSUME NEW r \in Requests, FilingStep(r) PROVE NotedInv'
  <2>1. OnFiling(r) /\ filer[r].pc # "done"
    BY <1>1, <1>4 DEF FilingStep, Files, Ingests, Checks, OpensFirst, Routes, Abandons, FilingFits
  <2>2. ASSUME NEW d \in Calls PROVE NotedFits(d)'
    <3>1. DeciderFits(d)
      BY <1>1 DEF TrailInv
    <3>2. pc[d] \in InFlight \cup Paying => Req(d) \in Requests /\ Req(d) # r
      BY <1>1, <2>1, <3>1, DeciderRequest, CallPlaces DEF DeciderFits
    <3> QED BY <2>1, <3>2, NotedElsewhere DEF OnFiling
  <2> QED BY <1>2, <2>2 DEF NotedInv
<1>5. ASSUME Administers PROVE NotedInv'
  <2>1. ASSUME NEW d \in Calls PROVE NotedFits(d)'
    <3>1. pc[d] \in InFlight \cup Paying => Req(d) \in Requests
      BY <1>1, DeciderRequest, CallPlaces
    <3> QED BY <1>5, <3>1, NotedElsewhere DEF Administers, callVars
  <2> QED BY <1>2, <2>1 DEF NotedInv
<1> QED BY <1>1, <1>3, <1>4, <1>5, StepKinds

SettledStay ==
    \A r \in Requests :
        /\ row[r].status \in {"REJECTED", "COMPLETED", "APPROVED"}
        /\ row'[r].status # row[r].status
        => \/ /\ row'[r].status = "COMPLETED"
              /\ \E c \in Calls : /\ Resolves(c, r)
                                  /\ pc[c] = "writingNote" /\ pc'[c] = "notifyingNote"
           \/ /\ row[r].status = "COMPLETED" /\ ResolvedBy(r) # {}
              /\ \E c \in Calls : /\ Req(c) = r
                                  /\ pc[c] = "settling" /\ pc'[c] = "committing"

LEMMA SettledStayStep ==
    ASSUME NotedInv, [Next]_vars
    PROVE  SettledStay
<1> SUFFICES ASSUME NEW r \in Requests,
                    row[r].status \in {"REJECTED", "COMPLETED", "APPROVED"},
                    row'[r].status # row[r].status
             PROVE  \/ /\ row'[r].status = "COMPLETED"
                       /\ \E c \in Calls : /\ Resolves(c, r)
                                           /\ pc[c] = "writingNote" /\ pc'[c] = "notifyingNote"
                    \/ /\ row[r].status = "COMPLETED" /\ ResolvedBy(r) # {}
                       /\ \E c \in Calls : /\ Req(c) = r
                                           /\ pc[c] = "settling" /\ pc'[c] = "committing"
  BY DEF SettledStay
<1>1. TypeInv /\ FilingFits(r) /\ \A x \in Requests : FilingFits(x)
  BY DEF NotedInv, TrailInv
<1>2. ~Administers
  BY DEF Administers
<1>3. ASSUME NEW x \in Requests, FilingStep(x) PROVE FALSE
  <2>1. CASE x # r
    BY <1>3, <2>1 DEF FilingStep, Files, Ingests, Checks, OpensFirst, Routes, Abandons, OnFiling
  <2>2. CASE x = r
    <3>1. filer[r].pc = "done"
      BY <1>1 DEF FilingFits
    <3> QED BY <1>3, <2>2, <3>1 DEF FilingStep, Files, Ingests, Checks, OpensFirst, Routes, Abandons
  <2> QED BY <2>1, <2>2
<1>4. PICK c \in Calls : CallStep(c)
  BY <1>1, <1>2, <1>3, StepKinds
<1>5. NotedFits(c)
  BY DEF NotedInv
<1>6. CASE r = Req(c) /\ Settles(c)
  <2>1. pc[c] = "settling" /\ pc'[c] = "committing" /\ pc[c] \in InFlight /\ pc[c] \in Deciding
    BY <1>6, Groups DEF Settles
  <2>2. view[c].stage \in PendingStatuses
    BY <1>1, <2>1, DecidingTypes
  <2>3. row[r].status = "COMPLETED" /\ ResolvedBy(r) # {}
    BY <1>5, <1>6, <2>1, <2>2 DEF NotedFits, PendingStatuses
  <2> QED BY <1>6, <2>1, <2>3
<1>7. CASE r = Req(c) /\ PaysOut(c) /\ GetsStatus(r, "COMPLETED")
  <2>1. row[r].status \in Granted
    BY <1>5, <1>7 DEF PaysOut, NotedFits, Paying
  <2> QED BY <1>1, <1>7, <2>1, GotStatus DEF Granted
<1>8. CASE /\ r = Req(c) /\ Notes(c) /\ pc[c] = "writingNote" /\ pc'[c] = "notifyingNote"
           /\ job[c].asked = "RESOLVED" /\ GetsStatus(r, "COMPLETED")
  <2>1. job[c].op = "note"
    BY <1>1, <1>8 DEF TypeInv, Locals, Fits, Noting
  <2>2. row'[r].status = "COMPLETED"
    BY <1>1, <1>8, GotStatus
  <2> QED BY <1>8, <2>1, <2>2 DEF Resolves
<1> QED BY <1>4, <1>6, <1>7, <1>8, CallChanges

(* As long as no transaction times out, a request that is rejected,         *)
(* completed or approved changes its status only by a report that it is     *)
(* resolved, or by a decision that such a report overtook (638-648,         *)
(* 318-325), for every mix of calls, failures included.                     *)
THEOREM SettledStaysProved ==
    ASSUME "timeout" \notin FaultKinds
    PROVE  Spec => SettledStays
<1>1. NotedInv /\ [Next]_vars => [SettledStay]_row
  BY SettledStayStep
<1>2. Spec => []NotedInv
  BY NotedInit, NotedStep, PTL DEF Spec
<1>3. Spec => [][SettledStay]_row
  BY <1>1, <1>2, PTL DEF Spec
<1> QED BY <1>3 DEF SettledStays, SettledStay

-----------------------------------------------------------------------------
(* One outcome is told.  From here on no call fails between its writes.    *)

FinalFits(a) ==
    Final(a) =>
        /\ pc[a.call] \notin Recorded => row[a.req].status \notin PendingStatuses
        /\ \A c \in Calls : pc[c] \in InFlight /\ Req(c) = a.req => a.call = c
        /\ \A b \in approvals : Final(b) /\ a.req = b.req => a = b

NoticeFits(n) ==
    /\ n.kind = "REQUEST_REJECTED" =>
         \E a \in approvals : a.req = n.req /\ a.decision = "REJECTED"
    /\ Approves(n.kind) =>
         \E a \in approvals : a.req = n.req /\ a.decision = "APPROVED" /\ Final(a)

LEMMA ToldParts ==
    ToldInv <=> /\ TrailInv /\ DecisionInv
                /\ \A a \in approvals : FinalFits(a)
                /\ \A n \in notices : NoticeFits(n)
BY DEF ToldInv, FinalFits, NoticeFits

(* The Approval of the decision a call is carrying out. *)
LEMMA OwnApproval ==
    ASSUME TypeInv, NEW c \in Calls, DeciderFits(c), OneApprovalPerCall, pc[c] \in Recorded,
           NEW a \in approvals, a.call = c
    PROVE  /\ a.req = Req(c) /\ a.stage = view[c].stage /\ a.decision = job[c].asked
           /\ a.stage # "PENDING_ROLE_APPROVAL" => a.amount = view[c].amount
           /\ LeadsOn(c)
<1>1. pc[c] \in Told
  BY DEF Told
<1>2. PICK b \in RecordedBy(c) : LeadsOn(c)
  BY <1>1 DEF DeciderFits
<1>3. a = b
  BY <1>2 DEF RecordedBy, OneApprovalPerCall
<1> QED BY <1>2, <1>3 DEF RecordedBy

(* A final decision ends in a status nobody decides. *)
LEMMA FinalSettles ==
    ASSUME TypeInv, NEW c \in Calls, DeciderFits(c), OneApprovalPerCall, pc[c] = "settling",
           NEW a \in approvals, a.call = c, Final(a)
    PROVE  /\ ~ManagerApproves(c)
           /\ view[c].next = DecidedStatus(view[c].stage, job[c].asked,
                                           view[c].amount, view[c].verified)
           /\ view[c].next \notin PendingStatuses
<1>1. a.stage = view[c].stage /\ a.decision = job[c].asked /\ LeadsOn(c)
  BY OwnApproval, Groups
<1>2. ~ManagerApproves(c)
  BY <1>1 DEF Final, ManagerApproves, Approving
<1> QED BY <1>1, <1>2, DecidedStatuses DEF LeadsOn

LEMMA SameNotices ==
    ASSUME NEW c, CallStep(c), ~TellsOutcome(c), ~TellsNews(c)
    PROVE  notices' = notices
<1>1. CASE \/ Starts(c) \/ Quits(c) \/ Locks(c) \/ Prepares(c) \/ PassesOn(c) \/ Commits(c)
           \/ StartsUpload(c) \/ LosesLock(c)
  BY <1>1 DEF Starts, Quits, Locks, Prepares, PassesOn, Commits, StartsUpload, LosesLock,
              requestVars
<1>2. CASE \/ Records(c) \/ Completes(c) \/ Audits(c) \/ OpensNext(c) \/ Settles(c)
           \/ Attaches(c) \/ Traces(c) \/ PaysOut(c) \/ Notes(c)
  BY <1>2 DEF Records, Completes, Audits, OpensNext, Settles, Attaches, Traces, PaysOut, Notes
<1> QED BY <1>1, <1>2 DEF CallStep

(* The statuses calls write. *)
LEMMA StatusWrites ==
    ASSUME TypeInv, NEW c \in Calls, CallStep(c), NEW r \in Requests
    PROVE  \/ row'[r] = row[r]
           \/ r = Req(c) /\ Settles(c) /\ row'[r].status = view[c].next
           \/ row'[r].status = "COMPLETED"
<1>1. CASE Settles(c)
  BY <1>1, SettlingRequest, GotStatus DEF Settles, GetsStatus
<1>2. CASE PaysOut(c) \/ (Notes(c) /\ row' # row)
  <2>1. GetsStatus(Req(c), "COMPLETED")
    BY <1>2 DEF PaysOut, Notes
  <2> QED BY <1>2, <2>1, SettlingRequest, GotStatus DEF GetsStatus
<1> QED BY <1>1, <1>2, CallShape

(* How a call gets to decide, and how it stops. *)
LEMMA DecidingPath ==
    ASSUME FaultKinds = {}, NEW c \in Calls, CallStep(c)
    PROVE  /\ pc'[c] \in InFlight => Locks(c) \/ (pc[c] \in InFlight /\ job'[c] = job[c])
           /\ pc[c] \in Recorded /\ pc'[c] \notin Recorded => Settles(c)
           /\ pc[c] # "idle" => job'[c] = job[c]
<1>1. ~LosesLock(c)
  BY DEF LosesLock
<1>2. CASE Starts(c)
  <2>1. pc'[c] \in {"waiting", "readingProof", "readingNote"} /\ pc[c] = "idle"
    BY <1>2 DEF Starts
  <2>2. pc'[c] \notin InFlight /\ pc[c] \notin Recorded
    BY <2>1, Groups DEF Proving, Noting
  <2> QED BY <2>1, <2>2
<1>3. CASE Quits(c) \/ TellsOutcome(c) \/ TellsNews(c) \/ Commits(c)
  <2>1. pc'[c] \notin InFlight /\ pc[c] \notin Recorded /\ job'[c] = job[c]
    BY <1>3, Groups, Places DEF Quits, TellsOutcome, TellsNews, Commits, OnJob
  <2> QED BY <2>1
<1>4. CASE Locks(c)
  BY <1>4, Groups DEF Locks, OnJob
<1>5. CASE Prepares(c) \/ Records(c) \/ Completes(c) \/ PassesOn(c) \/ Audits(c) \/ OpensNext(c)
  <2>1. pc[c] \in InFlight /\ job'[c] = job[c] /\ (pc[c] \in Recorded => pc'[c] \in Recorded)
    BY <1>5, Groups DEF Prepares, Records, Completes, PassesOn, Audits, OpensNext, OnJob
  <2> QED BY <2>1
<1>6. CASE Settles(c)
  BY <1>6, Groups DEF Settles, OnJob
<1>7. CASE StartsUpload(c) \/ Attaches(c) \/ Traces(c) \/ PaysOut(c) \/ Notes(c)
  <2>1. pc[c] \in Proving \cup Noting /\ pc'[c] \in Proving \cup Noting /\ job'[c] = job[c]
    BY <1>7 DEF StartsUpload, Attaches, Traces, PaysOut, Notes, OnJob, Proving, Noting
  <2> QED BY <2>1, Groups
<1> QED BY <1>1, <1>2, <1>3, <1>4, <1>5, <1>6, <1>7 DEF CallStep

LEMMA FinalCallStep ==
    ASSUME ToldInv, FaultKinds = {}, DecisionInv', NEW c \in Calls, CallStep(c),
           NEW a \in approvals'
    PROVE  FinalFits(a)'
<1>1. /\ TypeInv /\ DecisionInv /\ OneApprovalPerCall /\ LockHeld
      /\ \A d \in Calls : DeciderFits(d)
      /\ \A b \in approvals : FinalFits(b)
      /\ LockHeld'
  BY ToldParts DEF DecisionInv, TrailInv
<1>2. /\ \A d \in Calls \ {c} : pc'[d] = pc[d] /\ job'[d] = job[d]
      /\ approvals \subseteq approvals'
  BY <1>1, CallShape DEF Undisturbed
<1> SUFFICES ASSUME Final(a)
             PROVE  /\ pc'[a.call] \notin Recorded => row'[a.req].status \notin PendingStatuses
                    /\ \A d \in Calls : pc'[d] \in InFlight /\ Req(d)' = a.req => a.call = d
                    /\ \A b \in approvals' : Final(b) /\ a.req = b.req => a = b
  BY DEF FinalFits, Final
<1>3. ASSUME NEW b \in approvals, Records(c), Final(b), b.req = Req(c) PROVE FALSE
  <2>1. pc[c] = "recording" /\ pc[c] \in InFlight \ Recorded
    BY <1>3, Groups DEF Records
  <2>2. b.call = c
    BY <1>1, <1>3, <2>1 DEF FinalFits
  <2> QED BY <1>1, <2>1, <2>2 DEF OneApprovalPerCall
<1>4. approvals' = approvals \/ (Records(c) /\ approvals' = approvals \cup {ApprovalOf(c)})
  BY SameApprovals DEF Records
<1>5. CASE a \in approvals
  <2>1. a.call \in Calls /\ a.req \in Requests /\ a.req = Req(a.call)
    BY <1>1, <1>5, ApprovalTypes DEF OneApprovalPerCall
  <2>2. ASSUME pc'[a.call] \notin Recorded PROVE row'[a.req].status \notin PendingStatuses
    <3>1. ASSUME Settles(c), a.req = Req(c) PROVE view[c].next \notin PendingStatuses
      <4>1. pc[c] = "settling" /\ pc[c] \in InFlight
        BY <3>1, Groups DEF Settles
      <4>2. a.call = c
        BY <1>1, <1>5, <3>1, <4>1 DEF FinalFits
      <4> QED BY <1>1, <1>5, <4>1, <4>2, FinalSettles
    <3>2. CASE pc[a.call] \in Recorded
      <4>1. a.call = c
        BY <1>2, <2>1, <2>2, <3>2
      <4>2. Settles(c)
        BY <2>2, <3>2, <4>1, DecidingPath
      <4>3. row'[a.req].status = view[c].next
        BY <1>1, <2>1, <4>1, <4>2, SettlingRequest, GotStatus DEF Settles
      <4> QED BY <2>1, <3>1, <4>1, <4>2, <4>3
    <3>3. CASE pc[a.call] \notin Recorded
      <4>1. row[a.req].status \notin PendingStatuses
        BY <1>1, <1>5, <3>3 DEF FinalFits
      <4> QED BY <1>1, <2>1, <3>1, <4>1, StatusWrites DEF PendingStatuses
    <3> QED BY <3>2, <3>3
  <2>3. ASSUME NEW d \in Calls, pc'[d] \in InFlight, Req(d)' = a.req PROVE a.call = d
    <3>1. CASE pc[d] \in InFlight /\ job'[d] = job[d]
      BY <1>1, <1>5, <2>3, <3>1 DEF FinalFits, Req
    <3>2. CASE ~(pc[d] \in InFlight /\ job'[d] = job[d])
      <4>1. d = c /\ Locks(c)
        BY <1>2, <2>3, <3>2, DecidingPath
      <4>2. row[a.req].status \in PendingStatuses /\ lock[a.req] = NoCall
        BY <2>3, <4>1 DEF Locks, OnJob, Req
      <4>3. pc[a.call] \in Recorded
        BY <1>1, <1>5, <4>2 DEF FinalFits
      <4>4. lock[a.req] = a.call
        BY <1>1, <2>1, <4>3, Groups DEF LockHeld
      <4> QED BY <2>1, <4>2, <4>4, CallsType
    <3> QED BY <3>1, <3>2
  <2>4. ASSUME NEW b \in approvals', Final(b), a.req = b.req PROVE a = b
    <3>1. CASE b \in approvals
      BY <1>1, <1>5, <2>4, <3>1 DEF FinalFits
    <3>2. CASE b \notin approvals
      BY <1>3, <1>4, <1>5, <2>4, <3>2 DEF ApprovalOf
    <3> QED BY <3>1, <3>2
  <2> QED BY <2>2, <2>3, <2>4
<1>6. CASE a \notin approvals
  <2>1. Records(c) /\ a = ApprovalOf(c) /\ approvals' = approvals \cup {a}
    BY <1>4, <1>6
  <2>2. a.call = c /\ a.req = Req(c) /\ pc'[c] = "completing" /\ Req(c)' = Req(c)
    BY <2>1 DEF ApprovalOf, Records, OnJob, Req
  <2>3. pc'[c] \in Recorded /\ pc'[c] \in Deciding
    BY <2>2, Groups
  <2>4. ASSUME NEW d \in Calls, pc'[d] \in InFlight, Req(d)' = a.req PROVE a.call = d
    <3>1. lock'[Req(d)'] = d /\ lock'[Req(c)'] = c
      BY <1>1, <2>3, <2>4, Groups DEF LockHeld
    <3> QED BY <2>2, <2>4, <3>1
  <2>5. ASSUME NEW b \in approvals', Final(b), a.req = b.req PROVE a = b
    BY <1>3, <2>1, <2>2, <2>5
  <2> QED BY <2>2, <2>3, <2>4, <2>5
<1> QED BY <1>5, <1>6

LEMMA NoticeCallStep ==
    ASSUME ToldInv, NEW c \in Calls, CallStep(c), NEW n \in notices'
    PROVE  NoticeFits(n)'
<1>1. TypeInv /\ DeciderFits(c) /\ approvals \subseteq approvals'
  BY CallShape DEF ToldInv, TrailInv
<1>2. CASE n \in notices
  BY <1>1, <1>2, ToldParts DEF NoticeFits, Final
<1>3. CASE n \notin notices /\ TellsNews(c)
  BY <1>3 DEF TellsNews, NoticeFits, Approves
<1>4. CASE n \notin notices /\ TellsOutcome(c)
  <2>1. /\ pc[c] = "notifying" /\ n.req = Req(c)
        /\ n.kind = "REQUEST_REJECTED" => view[c].next = "REJECTED"
        /\ Approves(n.kind) => view[c].next \in {"APPROVED", "PENDING_PAYMENT"}
    BY <1>4 DEF TellsOutcome
  <2>2. PICK a \in RecordedBy(c) : LeadsOn(c)
    BY <1>1, <2>1, ToldPlaces DEF DeciderFits
  <2>3. a \in approvals' /\ a.req = Req(c) /\ a.stage = view[c].stage /\ a.decision = job[c].asked
    BY <1>1, <2>2 DEF RecordedBy
  <2>4. job[c].asked \in {"APPROVED", "REJECTED"}
    BY <1>1, <2>1, JobTypes DEF Deciders, Decisions
  <2>5. view[c].next \in {"REJECTED", "APPROVED", "PENDING_PAYMENT"} =>
          /\ ~ManagerApproves(c)
          /\ (job[c].asked = "REJECTED") <=> (view[c].next = "REJECTED")
    <3>1. ASSUME ManagerApproves(c) PROVE view[c].next \in MoneyStages
      BY <2>1, <2>2, <3>1 DEF LeadsOn
    <3>2. ASSUME ~ManagerApproves(c)
          PROVE  (job[c].asked = "REJECTED") <=> (view[c].next = "REJECTED")
      BY <2>2, <2>4, <3>2 DEF LeadsOn, DecidedStatus
    <3> QED BY <3>1, <3>2 DEF MoneyStages
  <2>6. n.kind = "REQUEST_REJECTED" => a.decision = "REJECTED"
    BY <2>1, <2>3, <2>5
  <2>7. Approves(n.kind) => a.decision = "APPROVED" /\ Final(a)
    BY <2>1, <2>3, <2>4, <2>5 DEF Final, ManagerApproves, Approving
  <2> QED BY <2>1, <2>3, <2>6, <2>7 DEF NoticeFits, Final, Approves
<1> QED BY <1>2, <1>3, <1>4, SameNotices

(* Filings and administrators leave decisions alone. *)
LEMMA ToldQuiet ==
    ASSUME ToldInv, TrailInv', DecisionInv',
           UNCHANGED <<approvals, notices, job, pc>>,
           \A r \in Requests : filer[r].pc = "done" => row'[r].status = row[r].status
    PROVE  ToldInv'
<1>1. TypeInv /\ \A a \in approvals : FinalFits(a) /\ ApprovalFits(a)
  BY ToldParts DEF TrailInv
<1>2. ASSUME NEW a \in approvals PROVE FinalFits(a)'
  <2>1. row'[a.req].status = row[a.req].status
    BY <1>1, ApprovalTypes DEF ApprovalFits
  <2> QED BY <1>1, <2>1 DEF FinalFits, Final, Req
<1>3. \A n \in notices : NoticeFits(n)'
  BY ToldParts DEF NoticeFits, Final
<1>4. /\ \A a \in approvals' : FinalFits(a)'
      /\ \A n \in notices' : NoticeFits(n)'
  BY <1>2, <1>3
<1> QED BY <1>4 DEF ToldInv, FinalFits, NoticeFits

LEMMA QuietKinds ==
    ASSUME TypeInv, \A r \in Requests : FilingFits(r),
           Administers \/ \E r \in Requests : FilingStep(r)
    PROVE  /\ UNCHANGED <<approvals, audited, notices, lock, job, pc, view>>
           /\ \A r \in Requests : filer[r].pc = "done" => row'[r].status = row[r].status
<1>1. CASE Administers
  BY <1>1 DEF Administers, callVars
<1>2. ASSUME NEW x \in Requests, FilingStep(x)
      PROVE  /\ UNCHANGED <<approvals, audited, notices, lock, job, pc, view>>
             /\ \A r \in Requests : filer[r].pc = "done" => row'[r].status = row[r].status
  <2>1. OnFiling(x)
    BY <1>2 DEF FilingStep, Files, Ingests, Checks, OpensFirst, Routes, Abandons
  <2>2. filer[x].pc # "done"
    BY <1>2 DEF FilingStep, Files, Ingests, Checks, OpensFirst, Routes, Abandons, FilingFits
  <2> QED BY <2>1, <2>2 DEF OnFiling
<1> QED BY <1>1, <1>2

LEMMA ToldStep ==
    ASSUME FaultKinds = {}
    PROVE  ToldInv /\ [Next]_vars => ToldInv'
<1> SUFFICES ASSUME ToldInv, [Next]_vars PROVE ToldInv'
  OBVIOUS
<1>1. TrailInv /\ DecisionInv /\ TypeInv /\ \A r \in Requests : FilingFits(r)
  BY DEF ToldInv, TrailInv
<1>2. TrailInv' /\ DecisionInv'
  BY <1>1, TrailStep, DecisionStep
<1>3. ASSUME NEW c \in Calls, CallStep(c) PROVE ToldInv'
  <2>1. \A a \in approvals' : FinalFits(a)'
    BY <1>2, <1>3, FinalCallStep
  <2>2. \A n \in notices' : NoticeFits(n)'
    BY <1>3, NoticeCallStep
  <2> QED BY <1>2, <2>1, <2>2 DEF ToldInv, FinalFits, NoticeFits
<1>4. CASE Administers \/ \E r \in Requests : FilingStep(r)
  BY <1>1, <1>2, <1>4, QuietKinds, ToldQuiet
<1> QED BY <1>1, <1>3, <1>4, StepKinds

LEMMA ToldHolds ==
    ASSUME FaultKinds = {}
    PROVE  Spec => []ToldInv
<1>1. Init => ToldInv
  <2> SUFFICES ASSUME Init PROVE ToldInv
    OBVIOUS
  <2>1. TrailInv /\ DecisionInv
    BY TrailInit, DecisionInit
  <2>2. approvals = {} /\ notices = {}
    BY DEF Init
  <2> QED BY <2>1, <2>2 DEF ToldInv
<1> QED BY <1>1, ToldStep, PTL DEF Spec

(* Nobody is told both that a request was rejected and that it was          *)
(* approved: of all the decisions on a request only one is final, and the   *)
(* bell tells that one (766-775).                                           *)
THEOREM OneOutcomeToldProved ==
    ASSUME FaultKinds = {}
    PROVE  Spec => []OneOutcomeTold
<1>1. ASSUME ToldInv PROVE OneOutcomeTold
  <2> SUFFICES ASSUME NEW m \in notices, NEW n \in notices, m.req = n.req,
                      m.kind = "REQUEST_REJECTED", Approves(n.kind)
               PROVE  FALSE
    BY DEF OneOutcomeTold, Approves
  <2>1. PICK a \in approvals : a.req = m.req /\ a.decision = "REJECTED"
    BY <1>1 DEF ToldInv
  <2>2. PICK b \in approvals : b.req = n.req /\ b.decision = "APPROVED" /\ Final(b)
    BY <1>1 DEF ToldInv
  <2>3. a = b
    BY <1>1, <2>1, <2>2, ToldParts DEF FinalFits, Final
  <2> QED BY <2>1, <2>2, <2>3
<1>2. ToldInv => OneOutcomeTold
  BY <1>1
<1> QED BY <1>2, ToldHolds, PTL

-----------------------------------------------------------------------------
(* Approved money is accounted for.                                        *)

(* Without a file there is nothing verified, and files come with requests  *)
(* that state no amount, until they are granted.                           *)
LEMMA DecidedMoney ==
    ASSUME SettleInv, NEW c \in Calls, pc[c] = "settling", ~ManagerApproves(c)
    PROVE  /\ view[c].next # "COMPLETED"
           /\ view[c].next = "PENDING_PAYMENT" => attached[Req(c)].count = 0
           /\ /\ job[c].asked = "APPROVED" /\ view[c].stage \in MoneyStages
              /\ view[c].amount > 0
              => /\ view[c].next \in {"APPROVED", "PENDING_PAYMENT"}
                 /\ view[c].next = "APPROVED" => attached[Req(c)].total > 0
<1> DEFINE r == Req(c)
           next == view[c].next
           stage == view[c].stage
<1>1. TypeInv /\ CallFits(c) /\ DeciderFits(c)
  BY DEF SettleInv, TrailInv
<1>2. pc[c] \in InFlight /\ pc[c] \in Deciding /\ pc[c] \in Told
  BY Groups, ToldPlaces
<1>3. /\ stage \in PendingStatuses /\ stage = row[r].status /\ r \in Requests
      /\ view[c].amount = EffectiveAmount(row[r], attached[r])
      /\ view[c].verified = HasVerifiedAttachment(attached[r])
      /\ view[c].verified \in BOOLEAN /\ view[c].amount \in Nat
  BY <1>1, <1>2, DecidingTypes DEF CallFits, View
<1>4. next = DecidedStatus(stage, job[c].asked, view[c].amount, view[c].verified)
  BY <1>1, <1>2 DEF DeciderFits, LeadsOn
<1>5. RequestFits(r) /\ row[r].stated \in Nat /\ attached[r].total \in Nat
      /\ attached[r].count \in Nat
  BY <1>1, <1>3 DEF SettleInv, TypeInv, TypeOK, Row, Attached
<1>6. next # "COMPLETED"
  BY <1>4 DEF DecidedStatus
<1>7. ASSUME next = "PENDING_PAYMENT" PROVE attached[r].count = 0
  <2>1. ~view[c].verified
    BY <1>4, <1>7 DEF DecidedStatus
  <2>2. ~HasVerifiedAttachment(attached[r])
    BY <1>3, <2>1
  <2> QED BY <1>5, <2>2 DEF HasVerifiedAttachment
<1>8. ASSUME job[c].asked = "APPROVED", stage \in MoneyStages, view[c].amount > 0
      PROVE  /\ next \in {"APPROVED", "PENDING_PAYMENT"}
             /\ next = "APPROVED" => attached[r].total > 0
  <2>1. next \in {"APPROVED", "PENDING_PAYMENT"}
    BY <1>4, <1>8 DEF DecidedStatus
  <2>2. ASSUME next = "APPROVED" PROVE attached[r].total > 0
    <3>1. view[c].verified
      BY <1>4, <1>8, <2>2 DEF DecidedStatus, MoneyStages
    <3>2. HasVerifiedAttachment(attached[r])
      BY <1>3, <3>1
    <3>3. row[r].stated = 0
      BY <1>3, <1>5, <3>2, CallPlaces DEF HasVerifiedAttachment, RequestFits
    <3> QED BY <1>3, <1>5, <1>8, <3>3 DEF EffectiveAmount
  <2> QED BY <2>1, <2>2
<1> QED BY <1>6, <1>7, <1>8

LEMMA MoneyCallStep ==
    ASSUME PaidInv, FaultKinds = {}, NothingUnderneath, NEW c \in Calls, CallStep(c),
           NEW a \in approvals'
    PROVE  MoneyFits(a)'
<1>1. /\ TypeInv /\ OneApprovalPerCall /\ SettleInv /\ CallFits(c) /\ DeciderFits(c)
      /\ \A b \in approvals : MoneyFits(b)
  BY DEF PaidInv, SettleInv, TrailInv, DecisionInv
<1>2. \A d \in Calls \ {c} : pc'[d] = pc[d]
  BY <1>1, CallShape DEF Undisturbed
<1> SUFFICES ASSUME a.stage \in MoneyStages, a.decision = "APPROVED", a.amount > 0,
                    pc'[a.call] \notin Recorded
             PROVE  /\ row'[a.req].status \in Granted \cup {"APPROVED"}
                    /\ row'[a.req].status = "APPROVED" => attached'[a.req].total > 0
  BY DEF MoneyFits
<1>3. a \in approvals
  <2>1. CASE Records(c) /\ a = ApprovalOf(c)
    BY <2>1, Groups DEF Records, ApprovalOf
  <2> QED BY <2>1, SameApprovals DEF Records
<1>4. a.call \in Calls /\ a.req \in Requests /\ a.req = Req(a.call)
  BY <1>1, <1>3, ApprovalTypes DEF OneApprovalPerCall
<1>5. CASE pc[a.call] \in Recorded
  <2>1. a.call = c /\ Settles(c) /\ a.req = Req(c)
    BY <1>2, <1>4, <1>5, DecidingPath
  <2>2. pc[c] = "settling" /\ attached' = attached /\ GetsStatus(Req(c), view[c].next)
    BY <2>1 DEF Settles
  <2>3. a.stage = view[c].stage /\ job[c].asked = "APPROVED" /\ a.amount = view[c].amount
    BY <1>1, <1>3, <1>5, <2>1, OwnApproval DEF MoneyStages
  <2>4. ~ManagerApproves(c)
    BY <2>3 DEF ManagerApproves, MoneyStages
  <2>5. /\ view[c].next \in {"APPROVED", "PENDING_PAYMENT"}
        /\ view[c].next = "APPROVED" => attached[Req(c)].total > 0
    BY <1>1, <2>2, <2>3, <2>4, DecidedMoney
  <2>6. row'[a.req].status = view[c].next
    BY <1>1, <1>4, <2>1, <2>2, GotStatus
  <2> QED BY <2>1, <2>2, <2>5, <2>6 DEF Granted
<1>6. CASE pc[a.call] \notin Recorded
  <2>1. /\ row[a.req].status \in Granted \cup {"APPROVED"}
        /\ row[a.req].status = "APPROVED" => attached[a.req].total > 0
    BY <1>1, <1>3, <1>6 DEF MoneyFits
  <2>2. ASSUME Settles(c), a.req = Req(c) PROVE FALSE
    <3>1. row[a.req].status \in PendingStatuses
      BY <1>1, <2>2, Groups, DecidingTypes DEF Settles, CallFits
    <3> QED BY <2>1, <3>1 DEF PendingStatuses, Granted
  <2>3. ASSUME Attaches(c), a.req = Req(c) PROVE row[a.req].status \in Granted
    BY <1>1, <2>3 DEF Attaches, CallFits, Paying
  <2>4. ASSUME GetsStatus(a.req, "COMPLETED") PROVE row'[a.req].status = "COMPLETED"
    BY <1>1, <1>4, <2>4, GotStatus
  <2> QED BY <1>1, <1>4, <2>1, <2>2, <2>3, <2>4, Changes DEF Granted
<1> QED BY <1>5, <1>6

(* A call that pays goes on paying until it settles. *)
LEMMA PayingPath ==
    ASSUME FaultKinds = {}, NothingUnderneath, NEW c \in Calls, CallStep(c)
    PROVE  /\ pc[c] \in Paying => /\ job'[c] = job[c]
                                  /\ pc'[c] \in Paying \/ PaysOut(c)
           /\ pc'[c] \in Paying =>
                StartsUpload(c) \/ Attaches(c) \/ (Traces(c) /\ pc[c] \in Paying \ {"uploading"})
<1>1. ~LosesLock(c)
  BY DEF LosesLock
<1>2. CASE StartsUpload(c) \/ Attaches(c) \/ Traces(c) \/ PaysOut(c)
  <2>1. job'[c] = job[c]
    BY <1>2 DEF StartsUpload, Attaches, Traces, PaysOut, OnJob
  <2>2. pc'[c] \in Paying \/ PaysOut(c)
    BY <1>2 DEF StartsUpload, Attaches, Traces, Paying
  <2>3. PaysOut(c) => pc'[c] \notin Paying
    BY CallPlaces DEF PaysOut
  <2>4. Traces(c) => pc[c] \in Paying \ {"uploading"}
    BY DEF Traces, Paying
  <2> QED BY <1>2, <2>1, <2>2, <2>3, <2>4
<1>3. CASE Starts(c) \/ Quits(c) \/ TellsOutcome(c) \/ TellsNews(c) \/ Notes(c)
  <2>1. pc[c] \notin Paying
    BY <1>3, CallPlaces DEF Starts, Quits, TellsOutcome, TellsNews, Notes, Paying
  <2>2. pc'[c] \notin Paying
    BY <1>3, CallPlaces, Places
       DEF Starts, Quits, TellsOutcome, TellsNews, Notes, NothingUnderneath, Paying, Noting
  <2> QED BY <2>1, <2>2
<1>4. CASE Locks(c) \/ Prepares(c) \/ Records(c) \/ Completes(c) \/ PassesOn(c) \/ Audits(c)
           \/ OpensNext(c) \/ Settles(c) \/ Commits(c)
  <2>1. /\ pc[c] \in Deciding \cup {"waiting"}
        /\ pc'[c] \in Deciding \cup {"notifying"}
    BY <1>4, Groups DEF Locks, Prepares, Records, Completes, PassesOn, Audits, OpensNext,
                        Settles, Commits
  <2> QED BY <2>1, CallPlaces
<1> QED BY <1>1, <1>2, <1>3, <1>4 DEF CallStep

LEMMA PaidCallStep ==
    ASSUME PaidInv, FaultKinds = {}, NothingUnderneath, NEW c \in Calls, CallStep(c),
           NEW r \in Requests
    PROVE  PaidFits(r)' /\ PayingFits(r)'
<1>1. TypeInv /\ SettleInv /\ CallFits(c) /\ DeciderFits(c) /\ PaidFits(r) /\ PayingFits(r)
  BY DEF PaidInv, SettleInv, TrailInv
<1>2. /\ \A d \in Calls \ {c} : pc'[d] = pc[d] /\ Req(d)' = Req(d)
      /\ attached[r].count \in Nat /\ row[r] \in Row
  BY <1>1, CallShape DEF Undisturbed, Req, TypeInv, TypeOK, Attached
<1>3. ASSUME Settles(c), r = Req(c), GetsStatus(r, view[c].next)
      PROVE  /\ row'[r].status # "COMPLETED"
             /\ row'[r].status = "PENDING_PAYMENT" => attached[r].count = 0
  <2>1. row'[r].status = view[c].next
    BY <1>1, <1>3, GotStatus
  <2>2. pc[c] = "settling"
    BY <1>3 DEF Settles
  <2>3. ManagerApproves(c) => view[c].next \in MoneyStages
    BY <1>1, <2>2, ToldPlaces DEF DeciderFits, LeadsOn
  <2> QED BY <1>1, <1>3, <2>1, <2>2, <2>3, DecidedMoney DEF MoneyStages
<1>4. ASSUME PaysOut(c), r = Req(c), GetsStatus(r, "COMPLETED")
      PROVE  row'[r].status = "COMPLETED" /\ attached[r].count # 0
  <2>1. pc[c] \in Paying /\ pc[c] # "uploading"
    BY <1>4 DEF PaysOut, Paying
  <2> QED BY <1>1, <1>4, <2>1, GotStatus DEF PaidFits
<1>5. ASSUME Attaches(c), r = Req(c), \E t \in OcrTotals : Gets(r, t)
      PROVE  /\ attached'[r].count # 0
             /\ pc'[c] \in Paying /\ Req(c)' = r
  BY <1>2, <1>5 DEF Attaches, Gets, Paying, OnJob, Req
<1>6. PaidFits(r)'
  <2> SUFFICES ASSUME attached'[r].count = 0
               PROVE  /\ row'[r].status # "COMPLETED"
                      /\ \A d \in Calls :
                           pc'[d] \in Paying /\ Req(d)' = r => pc'[d] = "uploading"
    BY DEF PaidFits
  <2>1. attached[r].count = 0 /\ row'[r].status # "COMPLETED"
    BY <1>1, <1>2, <1>3, <1>4, <1>5, Changes DEF PaidFits
  <2>2. ASSUME NEW d \in Calls, pc'[d] \in Paying, Req(d)' = r PROVE pc'[d] = "uploading"
    <3>1. CASE d # c
      BY <1>1, <1>2, <2>1, <2>2, <3>1 DEF PaidFits
    <3>2. CASE d = c /\ StartsUpload(c)
      BY <3>2 DEF StartsUpload
    <3>3. CASE d = c /\ Attaches(c)
      <4>1. Req(c) = r /\ \E t \in OcrTotals : Gets(r, t)
        BY <2>2, <3>3 DEF Attaches, OnJob, Req
      <4> QED BY <1>5, <3>3, <4>1
    <3>4. CASE d = c /\ Traces(c) /\ pc[c] \in Paying \ {"uploading"}
      <4>1. Req(c) = r
        BY <2>2, <3>4 DEF Traces, OnJob, Req
      <4> QED BY <1>1, <2>1, <3>4, <4>1 DEF PaidFits
    <3> QED BY <2>2, <3>1, <3>2, <3>3, <3>4, PayingPath
  <2> QED BY <2>1, <2>2
<1>7. PayingFits(r)'
  <2> SUFFICES ASSUME row'[r].status = "PENDING_PAYMENT", attached'[r].count > 0
               PROVE  \E d \in Calls : pc'[d] \in Paying /\ Req(d)' = r
    BY DEF PayingFits
  <2>1. CASE row'[r] = row[r] /\ attached'[r] = attached[r]
    <3>1. PICK d \in Calls : pc[d] \in Paying /\ Req(d) = r
      BY <1>1, <2>1 DEF PayingFits
    <3>2. CASE d # c
      BY <1>2, <3>1, <3>2
    <3>3. CASE d = c
      <4>1. ~PaysOut(c)
        BY <1>1, <3>1, <3>3, GotStatus DEF PaysOut
      <4> QED BY <3>1, <3>3, <4>1, PayingPath DEF Req
    <3> QED BY <3>2, <3>3
  <2>2. CASE ~(row'[r] = row[r] /\ attached'[r] = attached[r])
    BY <1>1, <1>2, <1>3, <1>4, <1>5, <2>2, Changes
  <2> QED BY <2>1, <2>2
<1> QED BY <1>6, <1>7

LEMMA PaidFilingStep ==
    ASSUME PaidInv, SettleInv', DecisionInv', NEW r \in Requests, FilingStep(r)
    PROVE  PaidInv'
<1>1. /\ TypeInv /\ SettleInv /\ FilingFits(r) /\ RequestFits(r)
      /\ \A d \in Calls : DeciderFits(d)
      /\ \A a \in approvals : MoneyFits(a) /\ ApprovalFits(a)
      /\ \A x \in Requests : PaidFits(x) /\ PayingFits(x)
  BY DEF PaidInv, SettleInv, TrailInv
<1>2. OnFiling(r) /\ filer[r].pc # "done"
  BY <1>1 DEF FilingStep, Files, Ingests, Checks, OpensFirst, Routes, Abandons, FilingFits
<1>3. /\ UNCHANGED <<approvals, job, pc>>
      /\ \A x \in Requests \ {r} : row'[x] = row[x] /\ attached'[x] = attached[x]
  BY <1>2 DEF OnFiling
<1>4. ASSUME NEW a \in approvals PROVE MoneyFits(a)'
  <2>1. a.req \in Requests \ {r}
    BY <1>1, <1>2, ApprovalTypes DEF ApprovalFits
  <2> QED BY <1>1, <1>3, <2>1 DEF MoneyFits
<1>5. row'[r].status \notin Granted
  <2>1. row[r].status \notin Granted
    BY <1>1, <1>2 DEF FilingFits, Granted
  <2>2. CASE Routes(r)
    <3>1. GetsStatus(r, filer[r].next) /\ filer[r].next \in DOMAIN AwaitingStep
      BY <2>2 DEF Routes, OnFiling, GetsStatus
    <3> QED BY <1>1, <3>1, GotStatus, CallPlaces
  <2>3. CASE ~Routes(r)
    BY <2>1, <2>3 DEF FilingStep, Files, Ingests, Checks, OpensFirst, Abandons, Granted,
                      requestVars
  <2> QED BY <2>2, <2>3
<1>6. ASSUME NEW d \in Calls, pc[d] \in Paying PROVE Req(d) # r
  BY <1>1, <1>2, <1>6, CallPlaces DEF DeciderFits
<1>7. ASSUME NEW x \in Requests PROVE PaidFits(x)' /\ PayingFits(x)'
  <2>1. CASE x # r
    BY <1>1, <1>3, <2>1 DEF PaidFits, PayingFits, Req
  <2>2. CASE x = r
    BY <1>3, <1>5, <1>6, <2>2 DEF PaidFits, PayingFits, Req, Granted
  <2> QED BY <2>1, <2>2
<1> QED BY <1>3, <1>4, <1>7 DEF PaidInv

LEMMA PaidAdminStep ==
    ASSUME PaidInv, SettleInv', DecisionInv', Administers
    PROVE  PaidInv'
<1>1. /\ TypeInv
      /\ \A a \in approvals : MoneyFits(a)
      /\ \A x \in Requests : PaidFits(x) /\ PayingFits(x)
  BY DEF PaidInv, SettleInv, TrailInv
<1>2. /\ UNCHANGED <<approvals, attached, job, pc>>
      /\ \A x \in Requests : row'[x].status = row[x].status
  BY DEF Administers, callVars
<1>3. ASSUME NEW a \in approvals PROVE MoneyFits(a)'
  BY <1>1, <1>2, ApprovalTypes DEF MoneyFits
<1>4. ASSUME NEW x \in Requests PROVE PaidFits(x)' /\ PayingFits(x)'
  BY <1>1, <1>2 DEF PaidFits, PayingFits, Req
<1> QED BY <1>2, <1>3, <1>4 DEF PaidInv

LEMMA PaidStep ==
    ASSUME FaultKinds = {}, NothingUnderneath
    PROVE  PaidInv /\ [Next]_vars => PaidInv'
<1> SUFFICES ASSUME PaidInv, [Next]_vars PROVE PaidInv'
  OBVIOUS
<1>1. SettleInv /\ DecisionInv /\ TypeInv /\ \A r \in Requests : FilingFits(r)
  BY DEF PaidInv, SettleInv, TrailInv
<1>2. SettleInv' /\ DecisionInv'
  BY <1>1, SettleStep, DecisionStep
<1>3. ASSUME NEW c \in Calls, CallStep(c) PROVE PaidInv'
  BY <1>2, <1>3, MoneyCallStep, PaidCallStep DEF PaidInv
<1> QED BY <1>1, <1>2, <1>3, StepKinds, PaidFilingStep, PaidAdminStep

LEMMA PaidHolds ==
    ASSUME FaultKinds = {}, NothingUnderneath
    PROVE  Spec => []PaidInv
<1>1. Init => PaidInv
  <2> SUFFICES ASSUME Init PROVE PaidInv
    OBVIOUS
  <2>1. SettleInv /\ DecisionInv
    BY SettleInit, DecisionInit
  <2>2. approvals = {} /\ \A r \in Requests : row[r].status = "UNFILED"
    BY DEF Init, NoRow
  <2>3. \A c \in Calls : pc[c] \notin Paying
    BY CallPlaces DEF Init
  <2> QED BY <2>1, <2>2, <2>3 DEF PaidInv, PaidFits, PayingFits
<1> QED BY <1>1, PaidStep, PTL DEF Spec

(* Between two calls, approved money is either reserved or spent: it never  *)
(* falls between the two queries of a budget, so nobody can approve it away *)
(* a second time (budgets.service.ts:190-197).                              *)
THEOREM ApprovedMoneyProved ==
    ASSUME FaultKinds = {}, NothingUnderneath
    PROVE  Spec => []ApprovedMoneyIsCounted
<1>1. ASSUME PaidInv PROVE ApprovedMoneyIsCounted
  <2> SUFFICES ASSUME NEW r \in Requests, NEW a \in MoneyApprovals(r), ~BusyOn(r)
               PROVE  IsTransaction(row[r], attached[r]) \/ IsReservation(row[r], attached[r])
    BY DEF ApprovedMoneyIsCounted
  <2>1. /\ TypeInv /\ OneApprovalPerCall /\ RequestFits(r) /\ PaidFits(r) /\ PayingFits(r)
        /\ a \in approvals /\ MoneyFits(a) /\ a.req = r
    BY <1>1 DEF PaidInv, SettleInv, TrailInv, DecisionInv, MoneyApprovals
  <2>2. a.call \in Calls /\ Req(a.call) = r
    BY <2>1, ApprovalTypes DEF OneApprovalPerCall
  <2>3. pc[a.call] \notin Recorded
    BY <2>2, Groups DEF BusyOn, Active
  <2>4. /\ row[r].status \in Granted \cup {"APPROVED"}
        /\ row[r].status = "APPROVED" => attached[r].total > 0
    BY <2>1, <2>3 DEF MoneyFits, MoneyApprovals
  <2>5. ~ \E c \in Calls : pc[c] \in Paying /\ Req(c) = r
    BY CallPlaces DEF BusyOn, Active
  <2>6. /\ attached[r].count \in Nat
        /\ row[r].status \in Granted => row[r].stated > 0
    BY <2>1 DEF TypeInv, TypeOK, Attached, RequestFits
  <2>7. CASE row[r].status = "APPROVED"
    BY <2>4, <2>7 DEF IsTransaction, TransactionStatuses
  <2>8. CASE row[r].status = "PENDING_PAYMENT"
    BY <2>1, <2>5, <2>6, <2>8 DEF PayingFits, IsReservation, Granted
  <2>9. CASE row[r].status = "COMPLETED"
    BY <2>1, <2>6, <2>9 DEF PaidFits, IsTransaction, TransactionStatuses, Granted
  <2> QED BY <2>4, <2>7, <2>8, <2>9 DEF Granted
<1>2. PaidInv => ApprovedMoneyIsCounted
  BY <1>1
<1> QED BY <1>2, PaidHolds, PTL

-----------------------------------------------------------------------------
(* Timelines.  The steps open in one, when a step is added or closed.      *)

LEMMA AppendEntry ==
    ASSUME NEW t \in Seq(Step), NEW name \in Steps, NEW open \in BOOLEAN
    PROVE  /\ DOMAIN Append(t, StepRow(name, open)) = DOMAIN t \cup {Len(t) + 1}
           /\ Len(t) + 1 \notin DOMAIN t
           /\ \A i \in DOMAIN t : Append(t, StepRow(name, open))[i] = t[i]
           /\ Append(t, StepRow(name, open))[Len(t) + 1] = StepRow(name, open)
<1>1. DOMAIN t = 1..Len(t) /\ Len(t) \in Nat
  BY LenProperties
<1>2. StepRow(name, open) \in Step
  BY DEF Step, StepRow
<1> DEFINE u == Append(t, StepRow(name, open))
<1> HIDE DEF StepRow
<1>3. /\ Len(u) = Len(t) + 1 /\ DOMAIN u = 1..Len(u)
      /\ \A i \in 1..Len(t) : u[i] = t[i]
      /\ u[Len(t) + 1] = StepRow(name, open)
  BY <1>1, <1>2, AppendProperties, LenProperties
<1> HIDE DEF u
<1>4. /\ DOMAIN u = DOMAIN t \cup {Len(t) + 1} /\ Len(t) + 1 \notin DOMAIN t
      /\ \A i \in DOMAIN t : u[i] = t[i]
      /\ u[Len(t) + 1] = StepRow(name, open)
  BY <1>1, <1>3
<1> QED BY <1>4 DEF u

\* The names of u are those of t, and perhaps the new one.
Adds(t, u, name) ==
    \A i \in DOMAIN u : u[i].name = name \/ \E j \in DOMAIN t : t[j].name = u[i].name

Lacks(t, name) == \A i \in DOMAIN t : t[i].name # name

LEMMA AppendOpen ==
    ASSUME NEW t \in Seq(Step), NEW name \in Steps, NamedOnce(t), Lacks(t, name)
    PROVE  /\ OpenNames(Append(t, StepRow(name, TRUE))) = OpenNames(t) \cup {name}
           /\ NamedOnce(Append(t, StepRow(name, TRUE)))
<1> DEFINE u == Append(t, StepRow(name, TRUE))
           n == Len(t) + 1
<1>1. /\ DOMAIN u = DOMAIN t \cup {n} /\ n \notin DOMAIN t
      /\ \A i \in DOMAIN t : u[i] = t[i]
      /\ u[n] = StepRow(name, TRUE)
  BY AppendEntry
<1>2. u[n].name = name /\ u[n].open
  BY <1>1 DEF StepRow
<1> HIDE DEF u, n
<1>3. OpenNames(u) = OpenNames(t) \cup {name}
  <2>1. Open(u) = Open(t) \cup {n} /\ \A i \in Open(t) : u[i].name = t[i].name
    BY <1>1, <1>2 DEF Open
  <2> QED BY <1>2, <2>1 DEF OpenNames
<1>4. NamedOnce(u)
  BY <1>1, <1>2 DEF NamedOnce, Lacks
<1> QED BY <1>3, <1>4 DEF u

LEMMA AppendClosed ==
    ASSUME NEW t \in Seq(Step), NEW name \in Steps
    PROVE  /\ OpenNames(Append(t, StepRow(name, FALSE))) = OpenNames(t)
           /\ Adds(t, Append(t, StepRow(name, FALSE)), name)
           /\ NamedOnce(t) /\ (name \notin StageNames \/ Lacks(t, name))
                => NamedOnce(Append(t, StepRow(name, FALSE)))
<1> DEFINE u == Append(t, StepRow(name, FALSE))
           n == Len(t) + 1
<1>1. /\ DOMAIN u = DOMAIN t \cup {n} /\ n \notin DOMAIN t
      /\ \A i \in DOMAIN t : u[i] = t[i]
      /\ u[n] = StepRow(name, FALSE)
  BY AppendEntry
<1>2. u[n].name = name /\ ~u[n].open
  BY <1>1 DEF StepRow
<1> HIDE DEF u, n
<1>3. OpenNames(u) = OpenNames(t)
  BY <1>1, <1>2 DEF OpenNames, Open
<1>4. Adds(t, u, name)
  BY <1>1, <1>2 DEF Adds
<1>5. NamedOnce(t) /\ (name \notin StageNames \/ Lacks(t, name)) => NamedOnce(u)
  BY <1>1, <1>2 DEF NamedOnce, Lacks
<1> QED BY <1>3, <1>4, <1>5 DEF u

(* The stage a timeline shows, if only it is open, is one step. *)
LEMMA OpenStage ==
    ASSUME NEW t \in Seq(Step), NEW name \in StageNames, NamedOnce(t), OpenNames(t) = {name}
    PROVE  \E i \in DOMAIN t : Open(t) = {i} /\ Named(t, name) = {i}
<1>1. PICK i \in Open(t) : t[i].name = name
  BY DEF OpenNames
<1>2. i \in DOMAIN t /\ t[i].open
  BY <1>1 DEF Open
<1>3. \A j \in DOMAIN t : t[j].name = name => j = i
  BY <1>1, <1>2 DEF NamedOnce
<1>4. \A j \in Open(t) : t[j].name = name /\ j \in DOMAIN t
  BY DEF OpenNames, Open
<1>5. Open(t) = {i}
  BY <1>1, <1>3, <1>4
<1>6. Named(t, name) = {i}
  BY <1>1, <1>2, <1>3 DEF Named
<1> QED BY <1>2, <1>5, <1>6

LEMMA CloseShows ==
    ASSUME NEW t \in Seq(Step), NEW name \in StageNames, NamedOnce(t), OpenNames(t) = {name},
           NEW u, u = Completed(t, name) \/ u = CompletedLatest(t)
    PROVE  /\ OpenNames(u) = {} /\ NamedOnce(u)
           /\ DOMAIN u = DOMAIN t
           /\ \A j \in DOMAIN t : u[j].name = t[j].name
<1>1. PICK i \in DOMAIN t : Open(t) = {i} /\ Named(t, name) = {i}
  BY OpenStage
<1>2. u = CloseLatest(t, {i})
  BY <1>1 DEF Completed, CompletedLatest
<1>3. Max({i}) = i
  <2>1. i \in Nat
    BY LenProperties
  <2> QED BY <2>1 DEF Max
<1>4. u = [t EXCEPT ![i] = StepRow(t[i].name, FALSE)]
  BY <1>2, <1>3 DEF CloseLatest
<1>5. DOMAIN u = DOMAIN t /\ \A j \in DOMAIN t \ {i} : u[j] = t[j]
  BY <1>4
<1>6. u[i] = StepRow(t[i].name, FALSE)
  BY <1>4
<1>7. u[i].name = t[i].name /\ ~u[i].open
  BY <1>6 DEF StepRow
<1>8. \A j \in DOMAIN t : u[j].name = t[j].name
  BY <1>5, <1>7
<1>9. \A j \in DOMAIN u : ~u[j].open
  BY <1>1, <1>5, <1>7 DEF Open
<1>10. OpenNames(u) = {}
  BY <1>9 DEF OpenNames, Open
<1>11. NamedOnce(u)
  BY <1>5, <1>8 DEF NamedOnce
<1> QED BY <1>5, <1>8, <1>10, <1>11

(* The steps of a filing are none of a stage. *)
LEMMA FilingNames ==
    /\ Steps = StageNames \cup {"Logged", "Checking Policy...", "Routing for Approval",
                                "Payment Sent"}
    /\ StageNames = {"Awaiting Manager Approval", "Awaiting Finance Approval",
                     "Awaiting Role Approval", "Escalated"}
    /\ \A s \in PendingStatuses : AwaitingStep[s] \in StageNames
    /\ \A s \in DOMAIN AwaitingStep \ PendingStatuses : AwaitingStep[s] = "Logged" /\ s = "NOTED"
    /\ \A s \in MoneyStages : AwaitingStep[s] # "Awaiting Manager Approval"
    /\ AwaitingStep["PENDING_MANAGER_APPROVAL"] = "Awaiting Manager Approval"
BY DEF Steps, StageNames, AwaitingStep, PendingStatuses, MoneyStages

LEMMA StepsOfFilings ==
    /\ Checking \in Step /\ Checked \in Step /\ Routing \in Step
    /\ Checking.name = "Checking Policy..."
    /\ Checked = StepRow(Checking.name, FALSE)
<1>1. {"Checking Policy...", "Routing for Approval"} \subseteq Steps
  BY FilingNames
<1> QED BY <1>1 DEF Checking, Checked, Routing, StepRow, Step

LEMMA ClosedSteps ==
    /\ ~Checked.open /\ ~Routing.open
    /\ Checked.name = "Checking Policy..." /\ Routing.name = "Routing for Approval"
BY DEF Checked, Routing, StepRow

LEMMA RoutedShows ==
    ASSUME NEW t \in Routed
    PROVE  /\ t \in Seq(Step) /\ OpenNames(t) = {} /\ NamedOnce(t)
           /\ \A i \in DOMAIN t : t[i].name \notin StageNames
<1>0. Checked \in Step /\ Routing \in Step
  BY StepsOfFilings
<1>1. t \in Seq(Step)
  <2>1. <<Routing>> \in Seq(Step) /\ <<Checked, Routing>> \in Seq(Step)
    BY <1>0
  <2> QED BY <2>1 DEF Routed
<1>2. \A i \in DOMAIN t : t[i] \in {Checked, Routing}
  <2>1. CASE t = <<Routing>>
    BY <1>0, <2>1
  <2>2. CASE t = <<Checked, Routing>>
    BY <1>0, <2>2
  <2> QED BY <2>1, <2>2 DEF Routed
<1>3. \A i \in DOMAIN t : ~t[i].open /\ t[i].name \notin StageNames
  BY <1>2, ClosedSteps, FilingNames
<1> QED BY <1>1, <1>3 DEF OpenNames, Open, NamedOnce

LEMMA AppendToOne ==
    ASSUME NEW S, NEW x \in S, NEW y \in S
    PROVE  Append(<<x>>, y) = <<x, y>>
<1>1. <<x>> \in Seq(S) /\ <<x, y>> \in Seq(S) /\ Len(<<x>>) = 1 /\ Len(<<x, y>>) = 2
  OBVIOUS
<1>2. /\ Append(<<x>>, y) \in Seq(S) /\ Len(Append(<<x>>, y)) = 2
      /\ Append(<<x>>, y)[1] = x /\ Append(<<x>>, y)[2] = y
  BY <1>1, AppendProperties
<1>3. \A i \in 1..2 : Append(<<x>>, y)[i] = <<x, y>>[i]
  BY <1>2
<1> QED BY <1>1, <1>2, <1>3, SeqEqual

LEMMA CheckedRoutes ==
    ASSUME NEW t \in {<<>>, <<Checking>>}
    PROVE  Append(Completed(t, "Checking Policy..."), Routing) \in Routed
<1>0. Checking \in Step /\ Checked \in Step /\ Routing \in Step
  BY StepsOfFilings
<1>1. CASE t = <<>>
  <2>1. Completed(t, "Checking Policy...") = <<>>
    BY <1>1 DEF Completed, CloseLatest, Named
  <2>2. Append(<<>>, Routing) = <<Routing>>
    BY <1>0
  <2> QED BY <2>1, <2>2 DEF Routed
<1>2. CASE t = <<Checking>>
  <2>1. DOMAIN t = {1} /\ t[1] = Checking
    BY <1>0, <1>2
  <2>2. Named(t, "Checking Policy...") = {1}
    BY <2>1, StepsOfFilings DEF Named
  <2>3. Max({1}) = 1
    BY DEF Max
  <2>4. Completed(t, "Checking Policy...") = [t EXCEPT ![1] = Checked]
    BY <2>1, <2>2, <2>3, StepsOfFilings DEF Completed, CloseLatest
  <2>5. [t EXCEPT ![1] = Checked] = <<Checked>>
    BY <1>0, <1>2
  <2>6. Append(<<Checked>>, Routing) = <<Checked, Routing>>
    BY <1>0, AppendToOne
  <2> QED BY <2>4, <2>5, <2>6 DEF Routed
<1> QED BY <1>1, <1>2

-----------------------------------------------------------------------------
(* What the timeline of a request shows                                    *)

Working == Closed \cup {"settling"}

LEMMA WorkingPlaces ==
    /\ Working = {"routing", "auditing", "opening", "settling"}
    /\ Working \subseteq InFlight /\ Working \subseteq Recorded /\ "settling" \notin Closed
    /\ Working \cap (Over \cup Proving \cup Noting \cup {"idle", "waiting", "notifying"}) = {}
BY DEF Working, Closed, InFlight, Recorded, Deciding, Over, Proving, Noting

(* No two calls are deciding one request. *)
LEMMA DecidesAlone ==
    ASSUME TypeInv, NEW c \in Calls, NEW d \in Calls, CallFits(c), CallFits(d),
           pc[c] \in InFlight, pc[d] \in InFlight, Req(c) = Req(d)
    PROVE  c = d
BY Groups DEF CallFits

LEMMA TimelineWrites ==
    ASSUME NEW c \in Calls, CallStep(c), NEW r \in Requests
    PROVE  timeline'[r] = timeline[r]
           \/ (r = Req(c) /\ (Completes(c) \/ OpensNext(c) \/ Traces(c)))
<1>1. CASE \/ Starts(c) \/ Quits(c) \/ Locks(c) \/ Prepares(c) \/ PassesOn(c) \/ Commits(c)
           \/ StartsUpload(c) \/ LosesLock(c)
  BY <1>1 DEF Starts, Quits, Locks, Prepares, PassesOn, Commits, StartsUpload, LosesLock,
              requestVars
<1>2. CASE \/ Records(c) \/ Audits(c) \/ Settles(c) \/ TellsOutcome(c) \/ TellsNews(c)
           \/ Attaches(c) \/ PaysOut(c) \/ Notes(c)
  BY <1>2 DEF Records, Audits, Settles, TellsOutcome, TellsNews, Attaches, PaysOut, Notes
<1>3. CASE Completes(c) \/ OpensNext(c) \/ Traces(c)
  BY <1>3 DEF Completes, OpensNext, Traces
<1> QED BY <1>1, <1>2, <1>3 DEF CallStep

LEMMA FilingShowsStays ==
    ASSUME TrailInv, NEW c \in Calls, CallStep(c), NEW r \in Requests, FilingShows(r)
    PROVE  FilingShows(r)'
<1>1. TypeInv /\ DeciderFits(c) /\ UNCHANGED filer
  BY CallShape DEF TrailInv
<1>2. ASSUME r = Req(c), Completes(c) \/ OpensNext(c) \/ Traces(c) PROVE filer[r].pc = "done"
  <2>1. pc[c] \in InFlight \cup (Proving \ {"readingProof"})
    BY <1>2, Groups, ToldPlaces DEF Completes, OpensNext, Traces
  <2> QED BY <1>1, <1>2, <2>1 DEF DeciderFits
<1> QED BY <1>1, <1>2, TimelineWrites DEF FilingShows

(* A request whose deciding calls stay where they are. *)
LEMMA StageShowsStays ==
    ASSUME NEW c \in Calls, Undisturbed(c), NEW r \in Requests, StageShows(r),
           UNCHANGED filer, timeline'[r] = timeline[r], row'[r].status = row[r].status,
           pc[c] \in Working /\ Req(c) = r <=> pc'[c] \in Working /\ Req(c)' = r,
           pc[c] = "settling" /\ Req(c) = r => pc'[c] = "settling" /\ Req(c)' = r
    PROVE  StageShows(r)'
<1>1. Closing(r)' = Closing(r)
  BY DEF Closing, Working, Undisturbed, Req
<1>2. (\A d \in Calls : pc'[d] = "settling" => Req(d)' # r)
        => \A d \in Calls : pc[d] = "settling" => Req(d) # r
  BY DEF Undisturbed, Req
<1> QED BY <1>1, <1>2 DEF StageShows

LEMMA DecisionShowsStays ==
    ASSUME NEW d \in Calls, DecisionShows(d),
           pc'[d] = pc[d], job'[d] = job[d], view'[d] = view[d],
           pc[d] \in Working => OpenNames(timeline'[Req(d)]) = OpenNames(timeline[Req(d)])
    PROVE  DecisionShows(d)'
BY DEF DecisionShows, Working, Req

(* What the calls of a request know of its timeline. *)
ShownParts ==
    /\ TypeInv /\ TrailInv /\ SettleInv
    /\ \A d \in Calls : CallFits(d) /\ DeciderFits(d) /\ DecisionShows(d)
    /\ \A r \in Requests : FilingShows(r) /\ StageShows(r) /\ timeline[r] \in Seq(Step)

LEMMA PartsOfShown ==
    ASSUME ShownInv PROVE ShownParts
BY DEF ShownInv, SettleInv, TrailInv, TypeInv, TypeOK, ShownParts

(* A step that neither writes to a timeline nor gets on with a decision. *)
LEMMA ShownQuiet ==
    ASSUME ShownParts, NEW c \in Calls, Undisturbed(c),
           UNCHANGED <<filer, timeline>>,
           \A r \in Requests : row'[r].status = row[r].status,
           \/ pc[c] \notin Working /\ pc'[c] \notin Working
           \/ PassesOn(c)
    PROVE  /\ \A r \in Requests : StageShows(r)'
           /\ \A d \in Calls : DecisionShows(d)'
<1>1. ASSUME NEW r \in Requests PROVE StageShows(r)'
  <2>1. /\ pc[c] \in Working /\ Req(c) = r <=> pc'[c] \in Working /\ Req(c)' = r
        /\ pc[c] = "settling" /\ Req(c) = r => pc'[c] = "settling" /\ Req(c)' = r
    BY WorkingPlaces DEF PassesOn, OnJob, Req
  <2> QED BY <2>1, StageShowsStays DEF ShownParts
<1>2. ASSUME NEW d \in Calls PROVE DecisionShows(d)'
  <2>1. CASE d # c
    BY <2>1, DecisionShowsStays DEF ShownParts, Undisturbed
  <2>2. CASE d = c /\ pc'[c] \notin Working
    BY <2>2 DEF DecisionShows, Working
  <2>3. CASE d = c /\ PassesOn(c)
    <3>1. OpenNames(timeline[Req(c)]) = {}
      BY <2>3 DEF ShownParts, DecisionShows, PassesOn, Closed
    <3> QED BY <2>3, <3>1, WorkingPlaces DEF DecisionShows, PassesOn, OnJob, Req
  <2> QED BY <2>1, <2>2, <2>3
<1> QED BY <1>1, <1>2

(* Another request, and another call, of a step in a decision. *)
LEMMA ShownElsewhere ==
    ASSUME ShownParts, NEW c \in Calls, Undisturbed(c), pc[c] \in InFlight, job'[c] = job[c],
           UNCHANGED filer,
           \A r \in Requests \ {Req(c)} :
               timeline'[r] = timeline[r] /\ row'[r].status = row[r].status
    PROVE  /\ \A r \in Requests \ {Req(c)} : StageShows(r)'
           /\ \A d \in Calls \ {c} : DecisionShows(d)'
<1>1. ASSUME NEW r \in Requests \ {Req(c)} PROVE StageShows(r)'
  BY StageShowsStays DEF ShownParts, Req
<1>2. ASSUME NEW d \in Calls \ {c} PROVE DecisionShows(d)'
  <2>1. pc[d] \in Working => Req(d) # Req(c) /\ Req(d) \in Requests
    BY DecidesAlone, WorkingPlaces, DeciderRequest DEF ShownParts
  <2> QED BY <2>1, DecisionShowsStays DEF ShownParts, Undisturbed
<1> QED BY <1>1, <1>2

(* The call that decides a request is the only one to have closed its step. *)
LEMMA ClosingOne ==
    ASSUME ShownParts, NEW c \in Calls, pc[c] \in InFlight
    PROVE  Closing(Req(c)) \subseteq {c} /\ (pc[c] \notin Working => Closing(Req(c)) = {})
BY DecidesAlone, WorkingPlaces DEF ShownParts, Closing, Working

LEMMA ShownCompletes ==
    ASSUME ShownParts, NEW c \in Calls, Completes(c)
    PROVE  /\ \A r \in Requests : StageShows(r)'
           /\ \A d \in Calls : DecisionShows(d)'
<1> DEFINE r == Req(c)
<1>1. pc[c] = "completing" /\ pc[c] \in InFlight /\ pc[c] \notin Working /\ pc[c] \in Deciding
  BY Groups, WorkingPlaces DEF Completes
<1>2. /\ TypeInv /\ CallFits(c) /\ DeciderFits(c) /\ StageShows(Req(c))
      /\ r \in Requests /\ timeline[r] \in Seq(Step)
      /\ view[c].stage = row[r].status /\ view[c].stage \in PendingStatuses
  <2>1. TypeInv /\ CallFits(c) /\ DeciderFits(c)
    BY DEF ShownParts
  <2>2. r \in Requests /\ view[c].stage \in PendingStatuses
    BY <1>1, <2>1, DecidingTypes
  <2> QED BY <1>1, <2>1, <2>2 DEF ShownParts, CallFits
<1>3. NamedOnce(timeline[r]) /\ OpenNames(timeline[r]) = {AwaitingStep[view[c].stage]}
  <2>1. filer[r].pc = "done" /\ Closing(r) = {}
    BY <1>1, <1>2, ClosingOne DEF DeciderFits
  <2> QED BY <1>2, <2>1 DEF StageShows, Awaited
<1>4. /\ OpenNames(timeline'[r]) = {} /\ NamedOnce(timeline'[r])
      /\ DOMAIN timeline'[r] = DOMAIN timeline[r]
      /\ \A j \in DOMAIN timeline[r] : timeline'[r][j].name = timeline[r][j].name
  <2>1. AwaitingStep[view[c].stage] \in StageNames
    BY <1>2, FilingNames
  <2>2. \/ timeline'[r] = Completed(timeline[r], AwaitingStep[view[c].stage])
        \/ timeline'[r] = CompletedLatest(timeline[r])
    BY DEF Completes
  <2> QED BY <1>2, <1>3, <2>1, <2>2, CloseShows
<1>5. /\ Undisturbed(c) /\ UNCHANGED <<filer, row>> /\ job'[c] = job[c]
      /\ pc'[c] \in Closed
      /\ \A x \in Requests \ {r} : timeline'[x] = timeline[x]
  BY DEF Completes, OnJob, Closed
<1>6. /\ \A x \in Requests \ {r} : StageShows(x)'
      /\ \A d \in Calls \ {c} : DecisionShows(d)'
  BY <1>1, <1>5, ShownElsewhere
<1>7. StageShows(Req(c))'
  <2>1. c \in Closing(Req(c))'
    BY <1>5 DEF Closing, Req
  <2>2. /\ row'[r].status = "PENDING_MANAGER_APPROVAL"
        /\ \A d \in Calls : pc'[d] = "settling" => Req(d)' # r
        => \A i \in DOMAIN timeline'[r], s \in MoneyStages :
             timeline'[r][i].name # AwaitingStep[s]
    <3>1. (\A d \in Calls : pc'[d] = "settling" => Req(d)' # r)
            => \A d \in Calls : pc[d] = "settling" => Req(d) # r
      BY <1>1, <1>5 DEF Undisturbed, Req
    <3>2. filer[r].pc = "done"
      BY <1>1, <1>2 DEF DeciderFits
    <3> QED BY <1>2, <1>4, <1>5, <3>1, <3>2 DEF StageShows
  <2>3. Req(c)' = r
    BY <1>5 DEF Req
  <2> QED BY <1>4, <2>1, <2>2, <2>3 DEF StageShows
<1>8. DecisionShows(c)'
  BY <1>4, <1>5, WorkingPlaces DEF DecisionShows, Req
<1>9. Req(c)' = r
  BY <1>5 DEF Req
<1> QED BY <1>6, <1>7, <1>8, <1>9

(* Where a decision leaves its request next. *)
LEMMA NextShown ==
    ASSUME TypeInv, NEW c \in Calls, DeciderFits(c), pc[c] \in {"auditing", "opening", "settling"}
    PROVE  /\ ManagerApproves(c) => view[c].next \in MoneyStages
           /\ ~ManagerApproves(c) => view[c].next \notin PendingStatuses
<1>1. pc[c] \in Told /\ pc[c] \notin {"completing", "routing"}
  BY ToldPlaces
<1> QED BY <1>1, DecidedStatuses DEF DeciderFits, LeadsOn

LEMMA ShownAudits ==
    ASSUME ShownParts, NEW c \in Calls, Audits(c)
    PROVE  /\ \A r \in Requests : StageShows(r)'
           /\ \A d \in Calls : DecisionShows(d)'
<1>1. /\ pc[c] = "auditing" /\ pc[c] \in InFlight /\ pc[c] \in Working /\ pc[c] \in Closed
      /\ pc'[c] \in {"opening", "settling"} /\ pc'[c] \in Working
      /\ Undisturbed(c) /\ UNCHANGED <<filer, row, timeline, view>> /\ job'[c] = job[c]
  BY Groups, WorkingPlaces DEF Audits, OnJob, Closed
<1>2. TypeInv /\ DeciderFits(c) /\ DecisionShows(c)
  BY DEF ShownParts
<1>3. /\ \A x \in Requests \ {Req(c)} : StageShows(x)'
      /\ \A d \in Calls \ {c} : DecisionShows(d)'
  BY <1>1, ShownElsewhere
<1>4. ASSUME NEW r \in Requests PROVE StageShows(r)'
  BY <1>1, <1>4, StageShowsStays DEF ShownParts, Req
<1>5. DecisionShows(c)'
  <2>1. OpenNames(timeline[Req(c)]) = {} /\ Req(c)' = Req(c)
    BY <1>1, <1>2 DEF DecisionShows, Req
  <2>2. pc'[c] = "settling" => Awaited(view[c].next) = {}
    BY <1>1, <1>2, NextShown DEF Audits, Awaited
  <2> QED BY <1>1, <2>1, <2>2 DEF DecisionShows
<1> QED BY <1>3, <1>4, <1>5

LEMMA ShownOpensNext ==
    ASSUME ShownParts, NEW c \in Calls, OpensNext(c)
    PROVE  /\ \A r \in Requests : StageShows(r)'
           /\ \A d \in Calls : DecisionShows(d)'
<1> DEFINE r == Req(c)
           name == AwaitingStep[view[c].next]
<1>1. /\ pc[c] = "opening" /\ pc[c] \in InFlight /\ pc[c] \in Closed /\ pc[c] \in Deciding
      /\ pc'[c] = "settling" /\ pc'[c] \notin Closed /\ pc'[c] \in Working
      /\ Undisturbed(c) /\ UNCHANGED <<filer, row, view>> /\ job'[c] = job[c]
      /\ \A x \in Requests \ {r} : timeline'[x] = timeline[x]
      /\ timeline'[r] = Append(timeline[r], StepRow(name, TRUE))
      /\ ManagerApproves(c) /\ view[c].next \in MoneyStages
  BY Groups, WorkingPlaces DEF OpensNext, OnJob, Closed
<1>2. /\ TypeInv /\ CallFits(c) /\ DeciderFits(c) /\ DecisionShows(c)
      /\ r \in Requests /\ timeline[r] \in Seq(Step) /\ StageShows(r)
  <2>1. r \in Requests
    BY <1>1, DecidingTypes DEF ShownParts
  <2> QED BY <2>1 DEF ShownParts
<1>3. /\ filer[r].pc = "done" /\ row[r].status = "PENDING_MANAGER_APPROVAL"
      /\ OpenNames(timeline[r]) = {} /\ NamedOnce(timeline[r])
  BY <1>1, <1>2 DEF DeciderFits, CallFits, ManagerApproves, DecisionShows, StageShows
<1>4. Lacks(timeline[r], name)
  <2>1. ASSUME NEW d \in Calls, pc[d] = "settling" PROVE Req(d) # r
    <3>1. pc[d] \in InFlight
      BY <2>1, Groups
    <3> QED BY <1>1, <2>1, <3>1, DecidesAlone DEF ShownParts
  <2> QED BY <1>1, <1>2, <1>3, <2>1 DEF StageShows, Lacks
<1>5. name \in StageNames /\ name \in Steps /\ Awaited(view[c].next) = {name}
  BY <1>1, FilingNames DEF MoneyStages, PendingStatuses, Awaited
<1>6. /\ OpenNames(timeline'[r]) = {name}
      /\ NamedOnce(timeline'[r])
  <2> HIDE DEF name
  <2>1. /\ OpenNames(Append(timeline[r], StepRow(name, TRUE))) = OpenNames(timeline[r]) \cup {name}
        /\ NamedOnce(Append(timeline[r], StepRow(name, TRUE)))
    BY <1>2, <1>3, <1>4, <1>5, AppendOpen
  <2> QED BY <1>1, <1>3, <2>1
<1>7. /\ \A x \in Requests \ {r} : StageShows(x)'
      /\ \A d \in Calls \ {c} : DecisionShows(d)'
  BY <1>1, ShownElsewhere
<1>8. Req(c)' = r
  BY <1>1 DEF Req
<1>9. StageShows(Req(c))'
  BY <1>1, <1>6, <1>8 DEF StageShows, Closing
<1>10. DecisionShows(c)'
  BY <1>1, <1>5, <1>6, <1>8 DEF DecisionShows
<1> QED BY <1>7, <1>8, <1>9, <1>10

LEMMA ShownSettles ==
    ASSUME ShownParts, NEW c \in Calls, Settles(c)
    PROVE  /\ \A r \in Requests : StageShows(r)'
           /\ \A d \in Calls : DecisionShows(d)'
<1> DEFINE r == Req(c)
<1>1. /\ pc[c] = "settling" /\ pc[c] \in InFlight /\ pc[c] \in Deciding
      /\ pc'[c] = "committing" /\ pc'[c] \notin Working
      /\ Undisturbed(c) /\ UNCHANGED <<filer, timeline, view>> /\ job'[c] = job[c]
  BY Groups, WorkingPlaces DEF Settles, OnJob
<1>2. /\ TypeInv /\ CallFits(c) /\ DeciderFits(c) /\ DecisionShows(c)
      /\ r \in Requests /\ StageShows(r)
  <2>1. r \in Requests
    BY <1>1, DecidingTypes DEF ShownParts
  <2> QED BY <2>1 DEF ShownParts
<1>3. /\ row'[r].status = view[c].next
      /\ \A x \in Requests \ {r} : row'[x].status = row[x].status
  BY <1>2, GotStatus DEF Settles, GetsStatus
<1>4. /\ \A x \in Requests \ {r} : StageShows(x)'
      /\ \A d \in Calls \ {c} : DecisionShows(d)'
  BY <1>1, <1>3, ShownElsewhere
<1>5. StageShows(Req(c))'
  <2>1. OpenNames(timeline[r]) = Awaited(view[c].next) /\ filer[r].pc = "done"
    BY <1>1, <1>2 DEF DecisionShows, DeciderFits
  <2>2. view[c].next # "PENDING_MANAGER_APPROVAL"
    BY <1>1, <1>2, NextShown DEF MoneyStages, PendingStatuses
  <2>3. Req(c)' = r /\ NamedOnce(timeline[r])
    BY <1>1, <1>2, <2>1 DEF Req, StageShows
  <2> QED BY <1>1, <1>3, <2>1, <2>2, <2>3 DEF StageShows
<1>6. DecisionShows(c)'
  BY <1>1, WorkingPlaces DEF DecisionShows, Closed
<1>7. Req(c)' = r
  BY <1>1 DEF Req
<1> QED BY <1>4, <1>5, <1>6, <1>7

(* A payment adds a closed step of its own. *)
LEMMA ShownTraces ==
    ASSUME ShownParts, NEW c \in Calls, Traces(c), pc[c] = "tracing"
    PROVE  /\ \A r \in Requests : StageShows(r)'
           /\ \A d \in Calls : DecisionShows(d)'
<1> DEFINE r == Req(c)
           name == "Payment Sent"
<1>1. /\ pc[c] \notin Working /\ pc'[c] = "auditingProof" /\ pc'[c] \notin Working
      /\ Undisturbed(c) /\ UNCHANGED <<filer, row>>
      /\ \A x \in Requests \ {r} : timeline'[x] = timeline[x]
      /\ timeline'[r] = Append(timeline[r], StepRow(name, FALSE))
  BY WorkingPlaces DEF Traces, OnJob
<1>2. r \in Requests /\ timeline[r] \in Seq(Step) /\ StageShows(r)
  <2>1. r \in Requests
    BY ProvingTypes DEF ShownParts, Proving
  <2> QED BY <2>1 DEF ShownParts
<1>3. name \in Steps \ StageNames
  BY FilingNames
<1>4. /\ OpenNames(timeline'[r]) = OpenNames(timeline[r])
      /\ NamedOnce(timeline[r]) => NamedOnce(timeline'[r])
      /\ Adds(timeline[r], timeline'[r], name)
  <2> HIDE DEF name
  <2>1. name \in Steps /\ name \notin StageNames
    BY <1>3
  <2>2. /\ OpenNames(Append(timeline[r], StepRow(name, FALSE))) = OpenNames(timeline[r])
        /\ Adds(timeline[r], Append(timeline[r], StepRow(name, FALSE)), name)
        /\ NamedOnce(timeline[r]) => NamedOnce(Append(timeline[r], StepRow(name, FALSE)))
    BY <1>2, <2>1, AppendClosed
  <2> QED BY <1>1, <2>2
<1>5. ASSUME NEW x \in Requests PROVE StageShows(x)'
  <2>1. CASE x # r
    BY <1>1, <2>1, StageShowsStays DEF ShownParts
  <2>2. CASE x = r
    <3>2. Closing(x)' = Closing(x)
      BY <1>1 DEF Closing, Working, Undisturbed, Req
    <3>3. (\A d \in Calls : pc'[d] = "settling" => Req(d)' # x)
            => \A d \in Calls : pc[d] = "settling" => Req(d) # x
      BY <1>1 DEF Undisturbed, Req
    <3>4. \A s \in MoneyStages : AwaitingStep[s] # name
      BY <1>3, FilingNames DEF MoneyStages, PendingStatuses
    <3> QED BY <1>1, <1>2, <1>4, <2>2, <3>2, <3>3, <3>4 DEF StageShows, Adds
  <2> QED BY <2>1, <2>2
<1>6. ASSUME NEW d \in Calls PROVE DecisionShows(d)'
  <2>1. CASE d # c
    <3>1. pc[d] \in Working => Req(d) \in Requests
      BY DeciderRequest, WorkingPlaces DEF ShownParts
    <3> QED BY <1>1, <1>4, <2>1, <3>1, DecisionShowsStays DEF ShownParts, Undisturbed
  <2>2. CASE d = c
    BY <1>1, <2>2 DEF DecisionShows, Working
  <2> QED BY <2>1, <2>2
<1> QED BY <1>5, <1>6

LEMMA ShownPaysOut ==
    ASSUME ShownParts, NEW c \in Calls, PaysOut(c)
    PROVE  /\ \A r \in Requests : StageShows(r)'
           /\ \A d \in Calls : DecisionShows(d)'
<1> DEFINE r == Req(c)
<1>1. /\ pc[c] = "settlingProof" /\ pc[c] \notin Working /\ pc'[c] \notin Working
      /\ Undisturbed(c) /\ UNCHANGED <<filer, timeline>>
  BY WorkingPlaces DEF PaysOut, OnJob, Proving
<1>2. TypeInv /\ CallFits(c) /\ r \in Requests /\ StageShows(r)
  <2>1. r \in Requests
    BY <1>1, ProvingTypes DEF ShownParts, Proving
  <2> QED BY <2>1 DEF ShownParts
<1>3. /\ row[r].status \in Granted /\ row'[r].status = "COMPLETED"
      /\ \A x \in Requests \ {r} : row'[x].status = row[x].status
  BY <1>1, <1>2, GotStatus DEF PaysOut, GetsStatus, CallFits, Paying
<1>4. Awaited(row[r].status) = Awaited("COMPLETED") /\ "COMPLETED" # "PENDING_MANAGER_APPROVAL"
  BY <1>3, CallPlaces DEF Awaited, Granted
<1>5. ASSUME NEW x \in Requests PROVE StageShows(x)'
  <2>1. CASE x # r
    BY <1>1, <1>3, <2>1, StageShowsStays DEF ShownParts
  <2>2. CASE x = r
    <3>1. Closing(x)' = Closing(x)
      BY <1>1 DEF Closing, Working, Undisturbed, Req
    <3> QED BY <1>1, <1>2, <1>3, <1>4, <2>2, <3>1 DEF StageShows
  <2> QED BY <2>1, <2>2
<1>6. ASSUME NEW d \in Calls PROVE DecisionShows(d)'
  <2>1. CASE d # c
    BY <1>1, <2>1, DecisionShowsStays DEF ShownParts, Undisturbed
  <2>2. CASE d = c
    BY <1>1, <2>2 DEF DecisionShows, Working
  <2> QED BY <2>1, <2>2
<1> QED BY <1>5, <1>6

LEMMA ShownCallStep ==
    ASSUME ShownInv, SettleInv', DecisionInv', FaultKinds = {}, NothingUnderneath,
           NEW c \in Calls, CallStep(c)
    PROVE  ShownInv'
<1>1. ShownParts /\ TypeInv /\ TrailInv
  BY PartsOfShown DEF ShownParts
<1>2. Undisturbed(c) /\ UNCHANGED filer
  BY <1>1, CallShape
<1>3. ~Notes(c) /\ ~LosesLock(c)
  BY DEF ShownInv, SettleInv, CallFits, Notes, LosesLock, Noting
<1>4. /\ \A r \in Requests : StageShows(r)'
      /\ \A d \in Calls : DecisionShows(d)'
  <2>1. CASE Completes(c) \/ Audits(c) \/ OpensNext(c) \/ Settles(c) \/ PaysOut(c)
    BY <1>1, <2>1, ShownCompletes, ShownAudits, ShownOpensNext, ShownSettles, ShownPaysOut
  <2>2. CASE Traces(c) /\ pc[c] = "tracing"
    BY <1>1, <2>2, ShownTraces
  <2>3. CASE \/ Starts(c) \/ Quits(c) \/ Locks(c) \/ Prepares(c) \/ Records(c) \/ PassesOn(c)
             \/ Commits(c) \/ TellsOutcome(c) \/ TellsNews(c) \/ StartsUpload(c) \/ Attaches(c)
             \/ (Traces(c) /\ pc[c] # "tracing")
    <3>1. row' = row /\ timeline' = timeline
      BY <2>3 DEF Starts, Quits, Locks, Prepares, Records, PassesOn, Commits, TellsOutcome,
                  TellsNews, StartsUpload, Attaches, Traces, requestVars
    <3>2. PassesOn(c) \/ (pc[c] \notin Working /\ pc'[c] \notin Working)
      <4>1. CASE Starts(c) \/ Quits(c)
        BY <4>1, WorkingPlaces DEF Starts, Quits, NothingUnderneath
      <4>2. CASE ~(Starts(c) \/ Quits(c))
        BY <2>3, <4>2, WorkingPlaces DEF Locks, Prepares, Records, Commits, TellsOutcome,
           TellsNews, StartsUpload, Attaches, Traces
      <4> QED BY <4>1, <4>2
    <3> QED BY <1>1, <1>2, <3>1, <3>2, ShownQuiet
  <2> QED BY <1>3, <2>1, <2>2, <2>3 DEF CallStep
<1>5. \A r \in Requests : FilingShows(r)'
  BY <1>1, FilingShowsStays DEF ShownParts
<1> QED BY <1>4, <1>5 DEF ShownInv

(* A filing: nobody decides a request before it is done. *)
LEMMA NotYetDecided ==
    ASSUME ShownParts, NEW r \in Requests, filer[r].pc # "done", NEW d \in Calls, pc[d] \in Working
    PROVE  Req(d) # r
BY WorkingPlaces DEF ShownParts, DeciderFits

LEMMA FilingShowsStep ==
    ASSUME ShownParts, NEW r \in Requests, FilingStep(r), FaultKinds = {}
    PROVE  FilingShows(r)'
<1>1. FilingShows(r) /\ TypeInv /\ FilingFits(r) /\ timeline[r] \in Seq(Step)
  BY DEF ShownParts, TrailInv
<1>2. CASE Files(r)
  <2>1. filer[r].pc = "none"
    BY <1>1, <1>2 DEF Files, FilingFits
  <2>2. timeline[r] = <<>>
    BY <1>1, <2>1 DEF FilingShows
  <2>3. Append(<<>>, Checking) = <<Checking>>
    <3>1. Checking \in Step
      BY StepsOfFilings
    <3> QED BY <3>1
  <2>4. \/ filer'[r].pc = "checking" /\ timeline'[r] = <<Checking>>
        \/ filer'[r].pc = "ingesting" /\ timeline'[r] = <<>>
    BY <1>2, <2>2, <2>3 DEF Files
  <2> QED BY <2>4 DEF FilingShows
<1>3. CASE Ingests(r)
  <2>1. timeline'[r] = <<>> /\ filer'[r].pc \in {"ingesting", "checking"}
    BY <1>1, <1>3 DEF Ingests, FilingShows
  <2> QED BY <2>1 DEF FilingShows
<1>4. CASE Checks(r)
  <2>1. timeline[r] \in {<<>>, <<Checking>>}
    BY <1>1, <1>4 DEF Checks, FilingShows
  <2>2. timeline'[r] \in Routed
    BY <1>4, <2>1, CheckedRoutes DEF Checks
  <2> QED BY <1>4, <2>2 DEF FilingShows, Checks
<1>5. CASE OpensFirst(r)
  <2>1. timeline[r] \in Routed
    BY <1>1, <1>5 DEF OpensFirst, FilingShows
  <2> QED BY <1>5, <2>1 DEF OpensFirst, FilingShows
<1>6. CASE Routes(r)
  BY <1>6 DEF Routes, FilingShows
<1>7. ~Abandons(r)
  BY DEF Abandons
<1> QED BY <1>2, <1>3, <1>4, <1>5, <1>6, <1>7 DEF FilingStep

(* The first stage, as the pipeline opens it. *)
LEMMA FirstStage ==
    ASSUME NEW t \in Routed, NEW s \in DOMAIN AwaitingStep,
           NEW u, u = Append(t, StepRow(AwaitingStep[s], s # "NOTED"))
    PROVE  /\ NamedOnce(u) /\ OpenNames(u) = Awaited(s)
           /\ s = "PENDING_MANAGER_APPROVAL" =>
                \A i \in DOMAIN u, m \in MoneyStages : u[i].name # AwaitingStep[m]
<1> DEFINE name == AwaitingStep[s]
<1>1. /\ t \in Seq(Step) /\ OpenNames(t) = {} /\ NamedOnce(t)
      /\ \A i \in DOMAIN t : t[i].name \notin StageNames
  BY RoutedShows
<1>2. name \in Steps
  BY DEF Steps
<1>3. CASE s \in PendingStatuses
  <2>1. name \in StageNames /\ Awaited(s) = {name} /\ s # "NOTED"
    BY <1>3, FilingNames DEF Awaited, PendingStatuses
  <2>2. Lacks(t, name)
    BY <1>1, <2>1 DEF Lacks
  <2>3. u = Append(t, StepRow(name, TRUE))
    BY <2>1
  <2> HIDE DEF name
  <2>4. NamedOnce(u) /\ OpenNames(u) = OpenNames(t) \cup {name}
    BY <1>1, <1>2, <2>2, <2>3, AppendOpen
  <2>5. \A i \in DOMAIN u : u[i].name = name \/ \E j \in DOMAIN t : t[j].name = u[i].name
    <3>1. /\ DOMAIN Append(t, StepRow(name, TRUE)) = DOMAIN t \cup {Len(t) + 1}
          /\ \A i \in DOMAIN t : Append(t, StepRow(name, TRUE))[i] = t[i]
          /\ Append(t, StepRow(name, TRUE))[Len(t) + 1] = StepRow(name, TRUE)
      BY <1>1, <1>2, AppendEntry
    <3>2. StepRow(name, TRUE).name = name
      BY DEF StepRow
    <3> QED BY <2>3, <3>1, <3>2
  <2>6. s = "PENDING_MANAGER_APPROVAL" =>
          \A m \in MoneyStages : AwaitingStep[m] # name /\ AwaitingStep[m] \in StageNames
    BY FilingNames DEF name, MoneyStages, PendingStatuses
  <2> QED BY <1>1, <2>1, <2>4, <2>5, <2>6
<1>4. CASE s \notin PendingStatuses
  <2>1. name \notin StageNames /\ Awaited(s) = {} /\ s = "NOTED"
    BY <1>4, FilingNames DEF Awaited
  <2>2. u = Append(t, StepRow(name, FALSE))
    BY <2>1
  <2> HIDE DEF name
  <2>3. NamedOnce(u) /\ OpenNames(u) = OpenNames(t)
    BY <1>1, <1>2, <2>1, <2>2, AppendClosed
  <2> QED BY <1>1, <2>1, <2>3
<1> QED BY <1>3, <1>4

LEMMA ShownFilingStep ==
    ASSUME ShownInv, SettleInv', DecisionInv', FaultKinds = {}, NEW r \in Requests, FilingStep(r)
    PROVE  ShownInv'
<1>1. ShownParts
  BY PartsOfShown
<1>2. OnFiling(r) /\ UNCHANGED <<pc, job, view>>
  BY DEF FilingStep, Files, Ingests, Checks, OpensFirst, Routes, Abandons, OnFiling
<1>3. filer[r].pc # "done"
  <2>1. FilingFits(r)
    BY <1>1 DEF ShownParts, TrailInv
  <2> QED BY <2>1 DEF FilingFits, FilingStep, Files, Ingests, Checks, OpensFirst, Routes, Abandons
<1>4. ASSUME NEW d \in Calls PROVE DecisionShows(d)'
  <2>1. pc[d] \in Working => Req(d) \in Requests \ {r}
    BY <1>1, <1>3, NotYetDecided, DeciderRequest, WorkingPlaces DEF ShownParts
  <2>2. pc[d] \in Working => timeline'[Req(d)] = timeline[Req(d)]
    BY <1>2, <2>1 DEF OnFiling
  <2>3. DecisionShows(d)
    BY <1>1 DEF ShownParts
  <2> QED BY <1>2, <2>2, <2>3, DecisionShowsStays
<1>5. ASSUME NEW x \in Requests, x # r PROVE FilingShows(x)' /\ StageShows(x)'
  <2>1. /\ filer'[x] = filer[x] /\ timeline'[x] = timeline[x] /\ row'[x] = row[x]
        /\ FilingShows(x) /\ StageShows(x)
    BY <1>1, <1>2, <1>5 DEF OnFiling, ShownParts
  <2>2. Closing(x)' = Closing(x) /\ \A d \in Calls : Req(d)' = Req(d)
    BY <1>2 DEF Closing, Req
  <2>3. FilingShows(x)'
    BY <2>1 DEF FilingShows
  <2>4. StageShows(x)'
    BY <1>2, <2>1, <2>2 DEF StageShows
  <2> QED BY <2>3, <2>4
<1>6. FilingShows(r)'
  BY <1>1, FilingShowsStep
<1>7. StageShows(r)'
  <2>1. CASE Routes(r)
    <3>1. /\ filer[r].next \in DOMAIN AwaitingStep /\ row'[r].status = filer[r].next
          /\ timeline'[r] = timeline[r]
      <4>1. row[r] \in Row
        BY <1>1 DEF ShownParts, TypeInv, TypeOK
      <4> QED BY <2>1, <4>1 DEF Routes, Row
    <3>2. PICK t \in Routed :
            timeline[r] = Append(t, StepRow(AwaitingStep[filer[r].next], filer[r].next # "NOTED"))
      BY <1>1, <2>1 DEF Routes, ShownParts, FilingShows
    <3>3. /\ NamedOnce(timeline[r]) /\ OpenNames(timeline[r]) = Awaited(filer[r].next)
          /\ filer[r].next = "PENDING_MANAGER_APPROVAL" =>
               \A i \in DOMAIN timeline[r], m \in MoneyStages :
                   timeline[r][i].name # AwaitingStep[m]
      BY <3>1, <3>2, FirstStage
    <3> QED BY <3>1, <3>3 DEF StageShows
  <2>2. CASE ~Routes(r)
    <3>1. filer'[r].pc # "done"
      BY <2>2 DEF FilingStep, Files, Ingests, Checks, OpensFirst, Abandons
    <3> QED BY <3>1 DEF StageShows
  <2> QED BY <2>1, <2>2
<1> QED BY <1>4, <1>5, <1>6, <1>7 DEF ShownInv

LEMMA ShownAdminStep ==
    ASSUME ShownInv, SettleInv', DecisionInv', Administers
    PROVE  ShownInv'
<1>1. UNCHANGED <<pc, job, view, filer, timeline>>
  BY DEF Administers, callVars
<1>2. \A c \in Calls : Req(c)' = Req(c)
  BY <1>1 DEF Req
<1>3. ASSUME NEW r \in Requests PROVE FilingShows(r)' /\ StageShows(r)'
  <2>1. FilingShows(r) /\ StageShows(r) /\ row'[r].status = row[r].status
    BY DEF ShownInv, Administers
  <2>2. Closing(r)' = Closing(r)
    BY <1>1, <1>2 DEF Closing
  <2> QED BY <1>1, <1>2, <2>1, <2>2 DEF FilingShows, StageShows
<1>4. ASSUME NEW c \in Calls PROVE DecisionShows(c)'
  BY <1>1, <1>2 DEF ShownInv, DecisionShows
<1> QED BY <1>3, <1>4 DEF ShownInv

LEMMA ShownStep ==
    ASSUME FaultKinds = {}, NothingUnderneath
    PROVE  ShownInv /\ [Next]_vars => ShownInv'
<1> SUFFICES ASSUME ShownInv, [Next]_vars PROVE ShownInv'
  OBVIOUS
<1>1. SettleInv /\ DecisionInv /\ TrailInv /\ TypeInv /\ \A r \in Requests : FilingFits(r)
  BY DEF ShownInv, SettleInv, TrailInv
<1>2. SettleInv' /\ DecisionInv'
  BY <1>1, SettleStep, DecisionStep
<1>3. ASSUME NEW c \in Calls, CallStep(c) PROVE ShownInv'
  BY <1>2, <1>3, ShownCallStep
<1>4. ASSUME NEW r \in Requests, FilingStep(r) PROVE ShownInv'
  BY <1>2, <1>4, ShownFilingStep
<1>5. CASE Administers
  BY <1>2, <1>5, ShownAdminStep
<1> QED BY <1>1, <1>3, <1>4, <1>5, StepKinds

LEMMA ShownHolds ==
    ASSUME FaultKinds = {}, NothingUnderneath
    PROVE  Spec => []ShownInv
<1>1. Init => ShownInv
  <2> SUFFICES ASSUME Init PROVE ShownInv
    OBVIOUS
  <2>1. SettleInv /\ DecisionInv
    BY SettleInit, DecisionInit
  <2>2. \A r \in Requests : filer[r].pc = "none" /\ timeline[r] = <<>>
    BY DEF Init
  <2>3. \A c \in Calls : pc[c] = "idle"
    BY DEF Init
  <2> QED BY <2>1, <2>2, <2>3 DEF ShownInv, FilingShows, StageShows, DecisionShows, Closed
<1> QED BY <1>1, ShownStep, PTL DEF Spec

(* Whenever no call works on a request, the one step its timeline shows in  *)
(* progress is the one its status waits for, and none once it waits for     *)
(* nobody: every stage opens its step before the status names it, and every *)
(* decision closes it before the status moves on (1512-1556).               *)
THEOREM TimelineProved ==
    ASSUME FaultKinds = {}, NothingUnderneath
    PROVE  Spec => []TimelineShowsTheStage
<1>1. ASSUME ShownInv PROVE TimelineShowsTheStage
  <2> SUFFICES ASSUME NEW r \in Requests, filer[r].pc = "done", ~BusyOn(r)
               PROVE  OpenNames(timeline[r]) = Awaited(row[r].status)
    BY DEF TimelineShowsTheStage, OpenNames, Awaited
  <2>1. Closing(r) = {}
    BY DEF BusyOn, Closing, Closed, Active, Deciding
  <2> QED BY <1>1, <2>1 DEF ShownInv, StageShows
<1>2. ShownInv => TimelineShowsTheStage
  BY <1>1
<1> QED BY <1>2, ShownHolds, PTL

-----------------------------------------------------------------------------
(* Decisions are atomic: what ApprovalFlow sees of a state, and of a step. *)

Place == [r \in Requests |-> Placed(row[r].status)]

Entry(a) == [case |-> a.req, stage |-> a.stage, decision |-> a.decision]

Taken == {a \in approvals : pc[a.call] \notin Unsettled}

Log == {Entry(a) : a \in Taken}

LEMMA UnsettledPlaces ==
    /\ Unsettled = Recorded \cup {"recording"}
    /\ Unsettled \subseteq InFlight /\ {"settling", "completing"} \subseteq Recorded
    /\ "committing" \notin Unsettled
BY DEF Unsettled, Recorded, InFlight, Deciding

(* Where a request is, in the flow. *)
LEMMA PlacedAt ==
    /\ Placed("UNFILED") = "new" /\ Placed("PENDING_POLICY_CHECK") = "filed"
    /\ Placed("NOTED") = "noted" /\ Placed("REJECTED") = "rejected"
    /\ \A s \in PendingStatuses : Placed(s) = s
    /\ \A s \in {"APPROVED", "PENDING_PAYMENT", "COMPLETED"} : Placed(s) = "approved"
BY DEF Placed, PendingStatuses

LEMMA PlaceKept ==
    ASSUME \A r \in Requests : Placed(row'[r].status) = Placed(row[r].status)
    PROVE  Place' = Place
BY DEF Place

(* A decision enters the log when its call writes the status. *)
LEMMA TakenKept ==
    ASSUME TypeInv, OneApprovalPerCall, FaultKinds = {},
           NEW c \in Calls, CallStep(c), ~Settles(c)
    PROVE  Taken' = Taken
<1>1. ASSUME NEW a \in approvals
      PROVE  pc'[a.call] \in Unsettled <=> pc[a.call] \in Unsettled
  <2>1. a.call \in Calls
    BY DEF TypeInv, TypeOK, Approval
  <2>2. CASE a.call # c
    BY <2>1, <2>2, CallShape DEF Undisturbed
  <2>3. CASE a.call = c
    <3>1. pc[c] \notin InFlight \ Recorded /\ pc[c] # "waiting"
      BY <2>3 DEF OneApprovalPerCall
    <3>2. pc[c] \in Recorded => pc'[c] \in Recorded
      BY DecidingPath
    <3>3. pc'[c] \in InFlight => pc[c] \in InFlight
      BY <3>1, DecidingPath DEF Locks
    <3> QED BY <2>3, <3>1, <3>2, <3>3, UnsettledPlaces
  <2> QED BY <2>2, <2>3
<1>2. CASE ~Records(c)
  <2>1. approvals' = approvals
    BY <1>2, SameApprovals
  <2> QED BY <1>1, <2>1 DEF Taken
<1>3. CASE Records(c)
  <2>1. approvals' = approvals \cup {ApprovalOf(c)} /\ pc'[c] \in Unsettled
    BY <1>3, UnsettledPlaces DEF Records
  <2>2. ApprovalOf(c).call = c
    BY DEF ApprovalOf
  <2> QED BY <1>1, <2>1, <2>2 DEF Taken
<1> QED BY <1>2, <1>3

LEMMA LogKept ==
    ASSUME Taken' = Taken PROVE Log' = Log
BY DEF Log, Entry

LEMMA LogOfSettling ==
    ASSUME TypeInv, OneApprovalPerCall, OneApprovalPerStage,
           NEW c \in Calls, DeciderFits(c), Settles(c)
    PROVE  /\ Log' = Log \cup {[case |-> Req(c), stage |-> view[c].stage,
                                decision |-> job[c].asked]}
           /\ \A e \in Log : e.case # Req(c) \/ e.stage # view[c].stage
<1>1. pc[c] = "settling" /\ pc'[c] = "committing" /\ approvals' = approvals
      /\ \A d \in Calls \ {c} : pc'[d] = pc[d]
  BY CallShape DEF Settles, OnJob, Undisturbed
<1>2. PICK a \in approvals : a.call = c
  BY <1>1 DEF DeciderFits, RecordedBy, Told, Recorded, InFlight, Deciding
<1>3. a.req = Req(c) /\ a.stage = view[c].stage /\ a.decision = job[c].asked
  BY <1>1, <1>2, OwnApproval, UnsettledPlaces
<1>4. \A b \in approvals : b.call = c => b = a
  BY <1>2 DEF OneApprovalPerCall
<1>5. \A b \in approvals : b.call \in Calls
  BY DEF TypeInv, TypeOK, Approval
<1>6. Taken' = Taken \cup {a} /\ a \notin Taken
  BY <1>1, <1>2, <1>4, <1>5, UnsettledPlaces DEF Taken
<1>7. Log' = Log \cup {Entry(a)}
  BY <1>6 DEF Log, Entry
<1>8. ASSUME NEW e \in Log PROVE e.case # Req(c) \/ e.stage # view[c].stage
  <2>1. PICK b \in Taken : e = Entry(b)
    BY DEF Log
  <2>2. e.case = b.req /\ e.stage = b.stage /\ b \in approvals
    BY <2>1 DEF Entry, Taken
  <2>3. b.req # a.req \/ b.stage # a.stage
    BY <1>6, <2>2, <2>1 DEF OneApprovalPerStage
  <2> QED BY <1>3, <2>2, <2>3
<1> QED BY <1>3, <1>7, <1>8 DEF Entry

(* The decision that is written. *)
LEMMA FlowDecides ==
    ASSUME SettleInv, DecisionInv, NEW c \in Calls, Settles(c)
    PROVE  \E k \in Requests : Flow!PassOn(k) \/ Flow!Approve(k) \/ Flow!Reject(k)
<1> DEFINE k == Req(c)
           s == view[c].stage
           e == [case |-> Req(c), stage |-> view[c].stage, decision |-> job[c].asked]
<1>1. /\ TypeInv /\ OneApprovalPerCall /\ OneApprovalPerStage
      /\ DeciderFits(c) /\ CallFits(c)
  BY DEF SettleInv, TrailInv, DecisionInv
<1>2. /\ k \in Requests /\ s \in PendingStatuses /\ job[c].asked \in Decisions
      /\ row[k].status = s
  <2>1. pc[c] = "settling" /\ pc[c] \in Deciding /\ pc[c] \in InFlight
    BY Groups DEF Settles
  <2> QED BY <1>1, <2>1, DecidingTypes DEF CallFits
<1>3. /\ Log' = Log \cup {e}
      /\ \A x \in Log : x.case # k \/ x.stage # s
  BY <1>1, LogOfSettling
<1>4. Place \in [Requests -> {Placed(row[r].status) : r \in Requests}] /\ Place[k] = s
  BY <1>2, PlacedAt DEF Place
<1>5. Place' = [Place EXCEPT ![k] = Placed(view[c].next)]
  <2>1. row'[k].status = view[c].next
    BY <1>1, <1>2, GotStatus DEF Settles, GetsStatus
  <2>2. \A r \in Requests \ {k} : row'[r] = row[r]
    BY DEF Settles, GetsStatus
  <2> QED BY <1>2, <2>1, <2>2 DEF Place
<1> HIDE DEF k, s, e
<1>6. CASE ManagerApproves(c)
  <2>1. view[c].next \in MoneyStages /\ view[c].next \in PendingStatuses
    BY <1>1, <1>6, NextShown DEF Settles, MoneyStages, PendingStatuses
  <2>2. s = "PENDING_MANAGER_APPROVAL" /\ e = [case |-> k, stage |-> s, decision |-> "APPROVED"]
    BY <1>6 DEF ManagerApproves, Approving, k, s, e
  <2>3. Placed(view[c].next) = view[c].next
    BY <2>1, PlacedAt
  <2>4. PICK p \in MoneyStages : p = view[c].next
    BY <2>1
  <2>5. Flow!Decide(k, "APPROVED", p)
    BY <1>2, <1>3, <1>4, <1>5, <2>2, <2>3, <2>4
       DEF Flow!Decide, Place, Log, Entry, Taken
  <2>6. Flow!PassOn(k)
    BY <1>4, <2>2, <2>5 DEF Flow!PassOn, Place
  <2> QED BY <1>2, <2>6
<1>7. CASE ~ManagerApproves(c)
  <2>1. view[c].next = DecidedStatus(s, job[c].asked, view[c].amount, view[c].verified)
    BY <1>1, <1>7 DEF DeciderFits, LeadsOn, Settles, Told, Recorded, InFlight, Deciding, s
  <2>2. CASE job[c].asked = "REJECTED"
    <3>1. Placed(view[c].next) = "rejected"
      BY <2>1, <2>2, PlacedAt DEF DecidedStatus
    <3>2. e = [case |-> k, stage |-> s, decision |-> "REJECTED"]
      BY <2>2 DEF k, s, e
    <3> QED BY <1>2, <1>3, <1>4, <1>5, <3>1, <3>2
            DEF Flow!Reject, Flow!Decide, Place, Log, Entry, Taken
  <2>3. CASE job[c].asked = "APPROVED"
    <3>1. Placed(view[c].next) = "approved"
      BY <2>1, <2>3, PlacedAt DEF DecidedStatus
    <3>2. e = [case |-> k, stage |-> s, decision |-> "APPROVED"]
      BY <2>3 DEF k, s, e
    <3>3. s # "PENDING_MANAGER_APPROVAL"
      BY <1>7, <2>3 DEF ManagerApproves, Approving, s
    <3> QED BY <1>2, <1>3, <1>4, <1>5, <3>1, <3>2, <3>3
            DEF Flow!Approve, Flow!Decide, Place, Log, Entry, Taken
  <2> QED BY <1>2, <2>2, <2>3 DEF Decisions
<1> QED BY <1>6, <1>7

(* Every other step of a call is none of the flow. *)
LEMMA FlowRests ==
    ASSUME SettleInv, DecisionInv, FaultKinds = {},
           NEW c \in Calls, CallStep(c), ~Settles(c)
    PROVE  Place' = Place /\ Log' = Log
<1>1. TypeInv /\ OneApprovalPerCall /\ CallFits(c) /\ DeciderFits(c)
  BY DEF SettleInv, TrailInv, DecisionInv
<1>2. Log' = Log
  BY <1>1, TakenKept, LogKept
<1>3. ~Notes(c)
  BY <1>1 DEF CallFits, Notes, Noting
<1>4. CASE PaysOut(c)
  <2>1. pc[c] = "settlingProof" /\ GetsStatus(Req(c), "COMPLETED") /\ Req(c) \in Requests
    BY <1>1, <1>4, SettlingRequest DEF PaysOut
  <2>2. row[Req(c)].status \in Granted
    BY <1>1, <2>1 DEF CallFits, Paying
  <2>3. /\ row'[Req(c)].status = "COMPLETED"
        /\ \A r \in Requests \ {Req(c)} : row'[r] = row[r]
    BY <1>1, <2>1, GotStatus DEF GetsStatus
  <2>4. \A r \in Requests : Placed(row'[r].status) = Placed(row[r].status)
    BY <2>2, <2>3, PlacedAt DEF Granted
  <2> QED BY <1>2, <2>4, PlaceKept
<1>5. CASE ~PaysOut(c)
  <2>1. row' = row
    BY <1>1, <1>3, <1>5, CallShape
  <2> QED BY <1>2, <2>1, PlaceKept
<1> QED BY <1>4, <1>5

LEMMA FlowFiles ==
    ASSUME SettleInv, NEW r \in Requests, FilingStep(r)
    PROVE  /\ Log' = Log
           /\ Place' = Place \/ Flow!Submit(r) \/ Flow!Route(r)
<1>1. /\ UNCHANGED <<approvals, pc>> /\ \A x \in Requests \ {r} : row'[x] = row[x]
      /\ TypeInv /\ FilingFits(r) /\ row[r] \in Row
  BY DEF FilingStep, Files, Ingests, Checks, OpensFirst, Routes, Abandons, OnFiling,
         SettleInv, TrailInv, TypeInv, TypeOK
<1>2. Log' = Log
  BY <1>1 DEF Log, Entry, Taken
<1>3. /\ Place[r] = Placed(row[r].status) /\ DOMAIN Place = Requests
      /\ Place' = [Place EXCEPT ![r] = Placed(row'[r].status)]
  BY <1>1 DEF Place
<1>4. CASE Files(r)
  <2>1. Place[r] = "new" /\ Place' = [Place EXCEPT ![r] = "filed"]
    BY <1>3, <1>4, PlacedAt DEF Files
  <2> QED BY <1>2, <2>1 DEF Flow!Submit, Place, Log, Entry, Taken
<1>5. CASE Routes(r)
  <2>1. row[r].status = "PENDING_POLICY_CHECK" /\ filer[r].next \in DOMAIN AwaitingStep
        /\ row'[r].status = filer[r].next
    BY <1>1, <1>5 DEF Routes, FilingFits, Row
  <2>2. Place[r] = "filed"
    BY <1>3, <2>1, PlacedAt
  <2>3. Placed(row'[r].status) \in PendingStatuses \cup {"noted"}
    <3>1. CASE filer[r].next \in PendingStatuses
      BY <2>1, <3>1, PlacedAt
    <3>2. CASE filer[r].next \notin PendingStatuses
      <4>1. filer[r].next = "NOTED"
        BY <2>1, <3>2, FilingNames
      <4> QED BY <2>1, <4>1, PlacedAt
    <3> QED BY <3>1, <3>2
  <2> QED BY <1>2, <1>3, <2>2, <2>3 DEF Flow!Route, Place, Log, Entry, Taken
<1>6. CASE ~Files(r) /\ ~Routes(r)
  <2>1. row' = row
    BY <1>6 DEF FilingStep, Ingests, Checks, OpensFirst, Abandons, requestVars
  <2> QED BY <2>1, <1>2, PlaceKept
<1> QED BY <1>2, <1>4, <1>5, <1>6

LEMMA FlowStep ==
    ASSUME FaultKinds = {}
    PROVE  SettleInv /\ DecisionInv /\ [Next]_vars => [Flow!FlowNext]_(Flow!flowVars)
<1> SUFFICES ASSUME SettleInv, DecisionInv, [Next]_vars
             PROVE  Flow!FlowNext \/ (Place' = Place /\ Log' = Log)
  BY DEF Flow!flowVars, Place, Log, Entry, Taken
<1>1. TypeInv /\ \A r \in Requests : FilingFits(r)
  BY DEF SettleInv, TrailInv
<1>2. ASSUME NEW c \in Calls, CallStep(c)
      PROVE  Flow!FlowNext \/ (Place' = Place /\ Log' = Log)
  BY <1>2, FlowRests, FlowDecides DEF Flow!FlowNext
<1>3. ASSUME NEW r \in Requests, FilingStep(r)
      PROVE  Flow!FlowNext \/ (Place' = Place /\ Log' = Log)
  BY <1>3, FlowFiles DEF Flow!FlowNext
<1>4. CASE Administers
  <2>1. UNCHANGED <<approvals, pc>> /\ \A r \in Requests : row'[r].status = row[r].status
    BY <1>4 DEF Administers, callVars
  <2>2. Log' = Log
    BY <2>1 DEF Log, Entry, Taken
  <2> QED BY <2>1, <2>2, PlaceKept
<1> QED BY <1>1, <1>2, <1>3, <1>4, StepKinds

LEMMA FlowStarts == Init => Flow!FlowInit
<1> SUFFICES ASSUME Init PROVE Flow!FlowInit
  OBVIOUS
<1>1. \A r \in Requests : row[r].status = "UNFILED"
  BY DEF Init, NoRow
<1>2. approvals = {}
  BY DEF Init
<1> QED BY <1>1, <1>2, PlacedAt DEF Flow!FlowInit

(* Deciding a request takes half a dozen writes of calls that overlap, and  *)
(* yet it is one event: every behaviour is one of ApprovalFlow, in which a  *)
(* request that waits at a stage is decided there once and moves with that  *)
(* decision (638-727, 837-970).                                             *)
THEOREM DecisionsAtomicProved ==
    ASSUME FaultKinds = {}, NothingUnderneath
    PROVE  Spec => DecisionsAreAtomic
<1>1. ShownInv => SettleInv /\ DecisionInv
  BY DEF ShownInv
<1>2. Spec => [][Flow!FlowNext]_(Flow!flowVars)
  BY <1>1, ShownHolds, FlowStep, PTL DEF Spec
<1>3. Spec => Flow!FlowInit
  BY FlowStarts DEF Spec
<1> QED BY <1>2, <1>3 DEF DecisionsAreAtomic, Flow!FlowSpec

(* A working call and the shared rows agree, step by step: it owns what it  *)
(* decides, it acts on amounts that are still true, what it has recorded,   *)
(* closed and opened is there, final decisions are alone, and approved      *)
(* money is counted (638-727, 837-970).                                     *)
THEOREM DecidedProved ==
    ASSUME FaultKinds = {}, NothingUnderneath
    PROVE  Spec => []DecidedInv
BY ToldHolds, PaidHolds, ShownHolds, PTL DEF DecidedInv

-----------------------------------------------------------------------------
(* Administration.  Only a rename empties one pool and fills another.      *)

LEMMA MovedByRename ==
    ASSUME TypeInv, [Next]_vars, NEW s \in Scopes, NEW t \in Scopes, MovedTo(s, t)
    PROVE  RenameBudget(s, t)
<1>1. /\ budget \in [Scopes -> Nat \cup {NoBudget}]
      /\ budget[s] # NoBudget /\ budget[t] = NoBudget
      /\ budget'[s] = NoBudget /\ budget'[t] # NoBudget
  BY DEF MovedTo, TypeInv, TypeOK, DirectoryTypeOK
<1>2. budget' # budget
  BY <1>1
<1>3. \/ \E x, y \in Scopes : RenameBudget(x, y)
      \/ \E x \in Scopes, a \in Allocations : UpsertBudget(x, a)
      \/ \E x \in Scopes : RemoveBudget(x)
  <2>1. budget' = budget \/ Administer \/ \E x, y \in Scopes : RenameBudget(x, y)
    BY DEF Next, File, FilerStep, Ingest, CheckPolicy, OpenFirstStage, SettleFiling, FailFiling,
           StartDecide, LockAndRead, DecideStep, Authorise, ReadBudget, QueryTransactions,
           QueryReservations, CompareHeadroom, RecordApproval, CompleteStage, RouteToFinance,
           AuditDecision, OpenNextStage, SettleDecision, Commit, NotifyDecision,
           StartProof, ProofStep, ReadForProof, AttachFile, TracePayment, AuditPayment,
           SettlePayment, NotifyPayment, StartNote, NoteStep, ReadForNote, WriteNote, NotifyNote,
           Fail, TimeOut, RemoveRole, DeleteRole, AllServed, vars, directoryVars
  <2>2. Administer => \/ budget' = budget
                      \/ \E x \in Scopes, a \in Allocations : UpsertBudget(x, a)
                      \/ \E x \in Scopes : RemoveBudget(x)
    BY DEF Administer, SetDepartment, CreateRole, SetUserRoles, GrantDelegation, RevokeDelegation
  <2> QED BY <1>2, <2>1, <2>2
<1>4. ASSUME NEW x \in Scopes, NEW a \in Allocations, UpsertBudget(x, a) PROVE FALSE
  <2>1. a # NoBudget
    BY DelegationsType, NoBudgetIsNoAmount
  <2> QED BY <1>1, <1>4, <2>1 DEF UpsertBudget
<1>5. ASSUME NEW x \in Scopes, RemoveBudget(x) PROVE FALSE
  BY <1>1, <1>5 DEF RemoveBudget
<1>6. ASSUME NEW x \in Scopes, NEW y \in Scopes, RenameBudget(x, y) PROVE x = s /\ y = t
  <2>1. /\ budget[x] # NoBudget /\ budget[y] = NoBudget
        /\ budget' = [budget EXCEPT ![y] = budget[x], ![x] = NoBudget]
    BY <1>6 DEF RenameBudget, RenameScope
  <2> QED BY <1>1, <2>1
<1> QED BY <1>3, <1>4, <1>5, <1>6

(* The scope a request counts against is renamed with the pool. *)
LEMMA ScopeRenamed ==
    ASSUME TypeInv, NEW s \in Scopes \ {All}, NEW t \in Scopes, RenameBudget(s, t),
           NEW r \in Requests
    PROVE  /\ InScope(r, s) => InScope(r, t)'
           /\ row'[r].status = row[r].status /\ row'[r].stated = row[r].stated
<1>1. row[r] \in Row /\ deptOf \in [Users -> Scopes \cup {NoScope}]
  BY DEF TypeInv, TypeOK, DirectoryTypeOK
<1>2. row'[r] = [row[r] EXCEPT !.budget = Renamed(row[r].budget, s, t)]
  BY DEF RenameBudget, RowRenamed
<1>3. \A u \in Users : deptOf'[u] = Renamed(deptOf[u], s, t)
  BY DEF RenameBudget, RenameScope
<1>4. /\ row'[r].budget = Renamed(row[r].budget, s, t)
      /\ row'[r].status = row[r].status /\ row'[r].stated = row[r].stated
      /\ row'[r].requester = row[r].requester /\ row[r].requester \in Users
  BY <1>1, <1>2 DEF Row
<1>5. s # NoScope /\ t # NoScope
  BY ScopesHaveAll
<1>6. ASSUME InScope(r, s) PROVE InScope(r, t)'
  <2>1. BudgetScope(row[r], deptOf) = s
    BY <1>6 DEF InScope
  <2>2. BudgetScope(row'[r], deptOf') = t
    BY <1>3, <1>4, <1>5, <2>1 DEF BudgetScope, Renamed
  <2> QED BY <2>2 DEF InScope
<1> QED BY <1>4, <1>6

KeepsDepartments ==
    \A s, t \in Scopes :
        s # All /\ MovedTo(s, t) =>
            /\ TransactionsOf(s) \subseteq TransactionsOf(t)'
            /\ ReservationsOf(s) \subseteq ReservationsOf(t)'

LEMMA RenameKeeps == TypeInv /\ [Next]_vars => [KeepsDepartments]_vars
<1> SUFFICES ASSUME TypeInv, [Next]_vars, NEW s \in Scopes \ {All}, NEW t \in Scopes, MovedTo(s, t)
             PROVE  /\ TransactionsOf(s) \subseteq TransactionsOf(t)'
                    /\ ReservationsOf(s) \subseteq ReservationsOf(t)'
  BY DEF KeepsDepartments
<1>1. RenameBudget(s, t)
  BY MovedByRename
<1>2. attached' = attached
  BY <1>1 DEF RenameBudget
<1>3. ASSUME NEW r \in Requests
      PROVE  /\ InScope(r, s) => InScope(r, t)'
             /\ row'[r].status = row[r].status /\ row'[r].stated = row[r].stated
  BY <1>1, ScopeRenamed
<1>4. ASSUME NEW r \in Requests
      PROVE  /\ IsTransaction(row[r], attached[r]) => IsTransaction(row'[r], attached'[r])
             /\ IsReservation(row[r], attached[r]) => IsReservation(row'[r], attached'[r])
  BY <1>2, <1>3 DEF IsTransaction, IsReservation
<1> QED BY <1>3, <1>4 DEF TransactionsOf, ReservationsOf

(* Renaming a pool strands nothing that counts against it, whatever is      *)
(* decided, paid or filed meanwhile (budgets.service.ts:87-93).             *)
THEOREM RenameProved == Spec => RenameKeepsDepartments
BY LocalsFit, RenameKeeps, PTL DEF Spec, RenameKeepsDepartments, KeepsDepartments

-----------------------------------------------------------------------------
(* Sums.  The library sums a function over a finite set by a recursive      *)
(* definition; what that yields is found by looking at a smallest set for   *)
(* which it would not.                                                      *)

(* Among finite subsets of S that are bad, one has no bad subset.          *)
LEMMA SmallestSubset ==
    ASSUME NEW S, IsFiniteSet(S), NEW B \in SUBSET (SUBSET S), B # {}
    PROVE  \E T \in B : \A U \in B : U \subseteq T => U = T
<1>1. B \subseteq FiniteSubsetsOf(S)
  BY FS_Subset DEF FiniteSubsetsOf
<1>2. IsWellFoundedOn(StrictSubsetOrdering(S), FiniteSubsetsOf(S))
  BY FS_StrictSubsetOrderingWellFounded
<1>3. PICK T \in B : \A U \in B : <<U, T>> \notin StrictSubsetOrdering(S)
  BY <1>1, <1>2, WFMin
<1>4. ASSUME NEW U \in B, U \subseteq T, U # T PROVE FALSE
  BY <1>3, <1>4 DEF StrictSubsetOrdering
<1> QED BY <1>4

LEMMA LeastNumber ==
    ASSUME NEW B \in SUBSET Nat, NEW m \in B
    PROVE  \E n \in B : \A k \in B : n <= k
<1> DEFINE S == 1..m
           BB == {1..k : k \in {x \in B : x <= m}}
<1>1. IsFiniteSet(S) /\ BB \in SUBSET (SUBSET S) /\ 1..m \in BB
  <2>1. m \in Nat /\ 1 \in Int /\ m \in Int
    OBVIOUS
  <2>2. IsFiniteSet(1..m)
    BY <2>1, FS_Interval
  <2>3. \A x \in B : x <= m => 1..x \in SUBSET (1..m)
    BY <2>1
  <2> QED BY <2>1, <2>2, <2>3
<1>2. PICK T \in BB : \A U \in BB : U \subseteq T => U = T
  <2> HIDE DEF S, BB
  <2> QED BY <1>1, SmallestSubset
<1>3. PICK n \in B : n <= m /\ T = 1..n
  OBVIOUS
<1>4. ASSUME NEW k \in B, ~(n <= k) PROVE FALSE
  <2>1. k \in Nat /\ n \in Nat /\ k < n /\ k <= m
    BY <1>3, <1>4
  <2>2. 1..k \in BB /\ 1..k \subseteq T
    BY <1>3, <2>1
  <2>3. n \in T /\ n \notin 1..k
    BY <1>3, <2>1
  <2> QED BY <1>2, <2>2, <2>3
<1> QED BY <1>4

Chosen(s) == CHOOSE x \in s : TRUE

(* One step of the recursion that sums f over the sets of D.               *)
SumEq(f, D, g) ==
    g = [s \in D |-> IF s = {} THEN 0 ELSE f[Chosen(s)] + g[s \ {Chosen(s)}]]

LEMMA ChosenIn == \A s : s # {} => Chosen(s) \in s
BY DEF Chosen

LEMMA SumIs ==
    ASSUME NEW f, NEW S
    PROVE  SumFunctionOnSet(f, S) = (CHOOSE g : SumEq(f, SUBSET S, g))[S]
BY DEF SumFunctionOnSet, FoldFunctionOnSet, MapThenFoldSet, SumEq, Chosen

LEMMA SumExists ==
    ASSUME NEW f, NEW S, IsFiniteSet(S)
    PROVE  \E g : SumEq(f, SUBSET S, g)
<1> DEFINE D(n) == {s \in SUBSET S : Cardinality(s) <= n}
           B == {n \in Nat : ~ \E g : SumEq(f, D(n), g)}
<1>0. \A s \in SUBSET S : IsFiniteSet(s) /\ Cardinality(s) \in Nat
  BY FS_Subset, FS_CardinalityType
<1>1. B = {}
  <2> SUFFICES ASSUME B # {} PROVE FALSE
    OBVIOUS
  <2>1. PICK n \in B : \A k \in B : n <= k
    <3> HIDE DEF B
    <3>1. B \subseteq Nat
      BY DEF B
    <3> QED BY <3>1, LeastNumber
  <2>2. CASE n = 0
    <3>1. D(0) = {{}}
      BY <1>0, FS_EmptySet
    <3>2. SumEq(f, D(0), [s \in D(0) |-> 0])
      BY <3>1 DEF SumEq
    <3> QED BY <2>1, <2>2, <3>2
  <2>3. CASE n # 0
    <3>1. n - 1 \in Nat /\ n - 1 \notin B
      <4>1. n \in Nat
        OBVIOUS
      <4> HIDE DEF B
      <4> QED BY <2>1, <2>3, <4>1
    <3>2. PICK g : SumEq(f, D(n - 1), g)
      BY <3>1
    <3> DEFINE h == [s \in D(n) |-> IF s = {} THEN 0
                                    ELSE f[Chosen(s)] + g[s \ {Chosen(s)}]]
    <3>3. ASSUME NEW s \in D(n), s # {}
          PROVE  s \ {Chosen(s)} \in D(n) \cap D(n - 1)
      <4>1. IsFiniteSet(s) /\ Chosen(s) \in s /\ Cardinality(s) \in Nat
        BY <1>0, <3>3, ChosenIn
      <4>2. Cardinality(s \ {Chosen(s)}) = Cardinality(s) - 1
        BY <4>1, FS_RemoveElement
      <4> QED BY <2>1, <3>1, <4>1, <4>2
    <3>4. ASSUME NEW s \in D(n - 1) PROVE s \in D(n) /\ h[s] = g[s]
      <4>1. s \in D(n)
        BY <1>0, <2>1
      <4>2. g[s] = IF s = {} THEN 0 ELSE f[Chosen(s)] + g[s \ {Chosen(s)}]
        BY <3>2 DEF SumEq
      <4> QED BY <4>1, <4>2
    <3>5. \A s \in D(n) : s # {} => h[s \ {Chosen(s)}] = g[s \ {Chosen(s)}]
      BY <3>3, <3>4
    <3>6. SumEq(f, D(n), h)
      <4>1. \A s \in D(n) :
              (IF s = {} THEN 0 ELSE f[Chosen(s)] + g[s \ {Chosen(s)}]) =
              (IF s = {} THEN 0 ELSE f[Chosen(s)] + h[s \ {Chosen(s)}])
        <5> HIDE DEF h, D
        <5> QED BY <3>5
      <4> QED BY <4>1 DEF SumEq
    <3> QED BY <2>1, <3>6
  <2> QED BY <2>2, <2>3
<1>2. Cardinality(S) \in Nat /\ D(Cardinality(S)) = SUBSET S
  BY FS_Subset, FS_CardinalityType
<1> HIDE DEF D
<1>3. \E g : SumEq(f, D(Cardinality(S)), g)
  BY <1>1, <1>2
<1> QED BY <1>2, <1>3

(* The functions that sum over the subsets of two sets agree on both.      *)
LEMMA SumUnique ==
    ASSUME NEW f, NEW S, IsFiniteSet(S), NEW T \in SUBSET S,
           NEW g, SumEq(f, SUBSET S, g), NEW h, SumEq(f, SUBSET T, h)
    PROVE  h[T] = g[T]
<1> DEFINE B == {U \in SUBSET T : h[U] # g[U]}
<1>1. IsFiniteSet(T)
  BY FS_Subset
<1>2. B = {}
  <2> SUFFICES ASSUME B # {} PROVE FALSE
    OBVIOUS
  <2>1. PICK U \in B : \A V \in B : V \subseteq U => V = U
    <3>1. B \in SUBSET (SUBSET T)
      OBVIOUS
    <3> HIDE DEF B
    <3> QED BY <1>1, <3>1, SmallestSubset
  <2>2. U \in SUBSET T /\ U \in SUBSET S
    OBVIOUS
  <2>3. /\ h[U] = IF U = {} THEN 0 ELSE f[Chosen(U)] + h[U \ {Chosen(U)}]
        /\ g[U] = IF U = {} THEN 0 ELSE f[Chosen(U)] + g[U \ {Chosen(U)}]
    BY <2>2 DEF SumEq
  <2>4. U # {} => U \ {Chosen(U)} \notin B /\ U \ {Chosen(U)} \in SUBSET T
    BY <2>1, <2>2, ChosenIn
  <2> QED BY <2>3, <2>4
<1> QED BY <1>2

LEMMA SumStep ==
    ASSUME NEW f, NEW S, IsFiniteSet(S)
    PROVE  SumFunctionOnSet(f, S) =
             IF S = {} THEN 0
             ELSE f[Chosen(S)] + SumFunctionOnSet(f, S \ {Chosen(S)})
<1> DEFINE g == CHOOSE g : SumEq(f, SUBSET S, g)
           T == S \ {Chosen(S)}
           h == CHOOSE h : SumEq(f, SUBSET T, h)
<1>1. IsFiniteSet(T) /\ T \in SUBSET S
  BY FS_Subset
<1>2. SumEq(f, SUBSET S, g) /\ SumEq(f, SUBSET T, h)
  BY <1>1, SumExists
<1>3. SumFunctionOnSet(f, S) = g[S] /\ SumFunctionOnSet(f, T) = h[T]
  BY SumIs
<1> HIDE DEF g, h
<1>4. h[T] = g[T]
  BY <1>1, <1>2, SumUnique
<1>5. g[S] = IF S = {} THEN 0 ELSE f[Chosen(S)] + g[T]
  BY <1>2 DEF SumEq
<1> QED BY <1>3, <1>4, <1>5

LEMMA SumType ==
    ASSUME NEW f, NEW S, IsFiniteSet(S), \A x \in S : f[x] \in Nat
    PROVE  SumFunctionOnSet(f, S) \in Nat
<1> DEFINE B == {T \in SUBSET S : SumFunctionOnSet(f, T) \notin Nat}
<1> SUFFICES ASSUME B # {} PROVE FALSE
  OBVIOUS
<1>1. PICK T \in B : \A U \in B : U \subseteq T => U = T
  <2>1. B \in SUBSET (SUBSET S)
    OBVIOUS
  <2> HIDE DEF B
  <2> QED BY <2>1, SmallestSubset
<1>2. IsFiniteSet(T)
  BY FS_Subset
<1>3. T # {} => Chosen(T) \in T /\ T \ {Chosen(T)} \in SUBSET S /\ T \ {Chosen(T)} \notin B
  BY <1>1, ChosenIn
<1>4. T # {} => f[Chosen(T)] \in Nat /\ SumFunctionOnSet(f, T \ {Chosen(T)}) \in Nat
  BY <1>3
<1>5. SumFunctionOnSet(f, T) \notin Nat
  OBVIOUS
<1> QED BY <1>2, <1>4, <1>5, SumStep

(* Any member may be taken out first.                                      *)
LEMMA SumWithout ==
    ASSUME NEW f, NEW S, IsFiniteSet(S), \A x \in S : f[x] \in Nat, NEW y \in S
    PROVE  SumFunctionOnSet(f, S) = f[y] + SumFunctionOnSet(f, S \ {y})
<1> DEFINE Sum(T) == SumFunctionOnSet(f, T)
           B == {T \in SUBSET S : \E z \in T : Sum(T) # f[z] + Sum(T \ {z})}
<1> SUFFICES ASSUME B # {} PROVE FALSE
  OBVIOUS
<1>1. PICK T \in B : \A U \in B : U \subseteq T => U = T
  <2>1. B \in SUBSET (SUBSET S)
    OBVIOUS
  <2> HIDE DEF B
  <2> QED BY <2>1, SmallestSubset
<1>2. PICK z \in T : Sum(T) # f[z] + Sum(T \ {z})
  OBVIOUS
<1> DEFINE x == Chosen(T)
           R == (T \ {x}) \ {z}
<1>3. x \in T /\ T \in SUBSET S /\ T # {}
  BY <1>1, <1>2, ChosenIn
<1>4. \A U \in SUBSET S : IsFiniteSet(U)
  BY FS_Subset
<1>5. Sum(T) = f[x] + Sum(T \ {x})
  BY <1>3, <1>4, SumStep
<1>6. x # z
  BY <1>2, <1>5
<1>7. T \ {x} \notin B /\ T \ {z} \notin B /\ T \ {x} \in SUBSET S /\ T \ {z} \in SUBSET S
  BY <1>1, <1>2, <1>3
<1>8. Sum(T \ {x}) = f[z] + Sum(R) /\ Sum(T \ {z}) = f[x] + Sum(R)
  <2>1. z \in T \ {x} /\ x \in T \ {z} /\ (T \ {z}) \ {x} = R
    BY <1>2, <1>3, <1>6
  <2> QED BY <1>7, <2>1
<1>9. Sum(R) \in Nat /\ f[x] \in Nat /\ f[z] \in Nat
  BY <1>2, <1>3, <1>4, SumType
<1> HIDE DEF Sum, x, R
<1> QED BY <1>2, <1>5, <1>8, <1>9

(* Only the values on S count.                                             *)
LEMMA SumSame ==
    ASSUME NEW f, NEW g, NEW S, IsFiniteSet(S), \A x \in S : f[x] = g[x]
    PROVE  SumFunctionOnSet(f, S) = SumFunctionOnSet(g, S)
<1> DEFINE B == {T \in SUBSET S : SumFunctionOnSet(f, T) # SumFunctionOnSet(g, T)}
<1> SUFFICES ASSUME B # {} PROVE FALSE
  OBVIOUS
<1>1. PICK T \in B : \A U \in B : U \subseteq T => U = T
  <2>1. B \in SUBSET (SUBSET S)
    OBVIOUS
  <2> HIDE DEF B
  <2> QED BY <2>1, SmallestSubset
<1>2. IsFiniteSet(T)
  BY FS_Subset
<1>3. T # {} => Chosen(T) \in T /\ T \ {Chosen(T)} \in SUBSET S /\ T \ {Chosen(T)} \notin B
  BY <1>1, ChosenIn
<1> QED BY <1>2, <1>3, SumStep

-----------------------------------------------------------------------------
(* What a request counts for in the pool of scope s, spent or reserved, and *)
(* what the other requests count for.                                       *)
Counts(r, s) ==
    IF ScopeOf(r) # s THEN 0
    ELSE IF IsTransaction(row[r], attached[r]) THEN TransactionAmount(row[r], attached[r])
    ELSE IF IsReservation(row[r], attached[r]) THEN row[r].stated
    ELSE 0

Rest(r, s) == SpentBy(TransactionsOf(s) \ {r}) + HeldBy(ReservationsOf(s) \ {r})

LEMMA AmountTypes ==
    ASSUME TypeInv, IsFiniteSet(Requests)
    PROVE  /\ \A R \in SUBSET Requests : SpentBy(R) \in Nat /\ HeldBy(R) \in Nat
           /\ \A s : Committed(s) \in Nat
           /\ \A s : \A r \in Requests : Rest(r, s) \in Nat /\ Counts(r, s) \in Nat
           /\ \A r \in Requests : ScopeOf(r) \in Scopes
<1> DEFINE f == [r \in Requests |-> TransactionAmount(row[r], attached[r])]
           g == [r \in Requests |-> row[r].stated]
<1>1. \A r \in Requests : /\ row[r] \in Row /\ row[r].stated \in Nat
                          /\ attached[r].total \in Nat /\ f[r] \in Nat /\ g[r] \in Nat
  BY DEF TypeInv, TypeOK, Row, Attached, TransactionAmount
<1>2. ASSUME NEW R \in SUBSET Requests PROVE SpentBy(R) \in Nat /\ HeldBy(R) \in Nat
  <2>1. IsFiniteSet(R)
    BY FS_Subset
  <2>2. \A x \in R : f[x] \in Nat /\ g[x] \in Nat
    BY <1>1
  <2>3. SpentBy(R) = SumFunctionOnSet(f, R) /\ HeldBy(R) = SumFunctionOnSet(g, R)
    BY DEF SpentBy, HeldBy
  <2> HIDE DEF f, g
  <2> QED BY <2>1, <2>2, <2>3, SumType
<1>3. ASSUME NEW s PROVE Committed(s) \in Nat
  <2>1. TransactionsOf(s) \in SUBSET Requests /\ ReservationsOf(s) \in SUBSET Requests
    BY DEF TransactionsOf, ReservationsOf
  <2> QED BY <1>2, <2>1 DEF Committed
<1>4. ASSUME NEW s, NEW r \in Requests PROVE Rest(r, s) \in Nat /\ Counts(r, s) \in Nat
  <2>1. /\ TransactionsOf(s) \ {r} \in SUBSET Requests
        /\ ReservationsOf(s) \ {r} \in SUBSET Requests
    BY DEF TransactionsOf, ReservationsOf
  <2>2. Rest(r, s) \in Nat
    BY <1>2, <2>1 DEF Rest
  <2>3. Counts(r, s) \in Nat
    BY <1>1 DEF Counts
  <2> QED BY <2>2, <2>3
<1>5. \A r \in Requests : ScopeOf(r) \in Scopes
  <2>1. deptOf \in [Users -> Scopes \cup {NoScope}]
    BY DEF TypeInv, TypeOK, DirectoryTypeOK
  <2> QED BY <1>1, <2>1, ScopesHaveAll DEF ScopeOf, BudgetScope, Row
<1> QED BY <1>2, <1>3, <1>4, <1>5

(* A pool bears what one request counts for and what the others do.         *)
LEMMA OneOfThem ==
    ASSUME TypeInv, IsFiniteSet(Requests), NEW s, NEW r \in Requests
    PROVE  Committed(s) = Counts(r, s) + Rest(r, s)
<1> DEFINE f == [x \in Requests |-> TransactionAmount(row[x], attached[x])]
           g == [x \in Requests |-> row[x].stated]
           T == TransactionsOf(s)
           H == ReservationsOf(s)
<1>1. \A x \in Requests : /\ row[x].stated \in Nat /\ attached[x].total \in Nat
                          /\ f[x] \in Nat /\ g[x] \in Nat
  BY DEF TypeInv, TypeOK, Row, Attached, TransactionAmount
<1>2. /\ IsFiniteSet(T) /\ IsFiniteSet(H)
      /\ \A x \in T : f[x] \in Nat
      /\ \A x \in H : g[x] \in Nat
  <2>1. T \in SUBSET Requests /\ H \in SUBSET Requests
    BY DEF TransactionsOf, ReservationsOf
  <2> QED BY <1>1, <2>1, FS_Subset
<1>3. \A R : SpentBy(R) = SumFunctionOnSet(f, R) /\ HeldBy(R) = SumFunctionOnSet(g, R)
  BY DEF SpentBy, HeldBy
<1>4. /\ f[r] = TransactionAmount(row[r], attached[r]) /\ g[r] = row[r].stated
      /\ f[r] \in Nat /\ g[r] \in Nat
  BY <1>1
<1>5. /\ r \in T <=> IsTransaction(row[r], attached[r]) /\ ScopeOf(r) = s
      /\ r \in H <=> IsReservation(row[r], attached[r]) /\ ScopeOf(r) = s
      /\ ~(r \in T /\ r \in H)
  BY DEF TransactionsOf, ReservationsOf, InScope, ScopeOf, IsTransaction, IsReservation,
         TransactionStatuses
<1>6. /\ SpentBy(T \ {r}) \in Nat /\ HeldBy(H \ {r}) \in Nat
  <2>1. T \ {r} \in SUBSET Requests /\ H \ {r} \in SUBSET Requests
    BY DEF TransactionsOf, ReservationsOf
  <2> HIDE DEF T, H
  <2> QED BY <2>1, AmountTypes
<1>7. Committed(s) = SpentBy(T) + HeldBy(H) /\ Rest(r, s) = SpentBy(T \ {r}) + HeldBy(H \ {r})
  BY DEF Committed, Rest
<1> HIDE DEF f, g, T, H
<1>8. SpentBy(T) = (IF r \in T THEN f[r] ELSE 0) + SpentBy(T \ {r})
  <2>1. CASE r \in T
    BY <1>2, <1>3, <2>1, SumWithout
  <2>2. CASE r \notin T
    <3>1. T \ {r} = T
      BY <2>2
    <3> QED BY <1>6, <2>2, <3>1
  <2> QED BY <2>1, <2>2
<1>9. HeldBy(H) = (IF r \in H THEN g[r] ELSE 0) + HeldBy(H \ {r})
  <2>1. CASE r \in H
    BY <1>2, <1>3, <2>1, SumWithout
  <2>2. CASE r \notin H
    <3>1. H \ {r} = H
      BY <2>2
    <3> QED BY <1>6, <2>2, <3>1
  <2> QED BY <2>1, <2>2
<1>10. Counts(r, s) = (IF r \in T THEN f[r] ELSE 0) + (IF r \in H THEN g[r] ELSE 0)
  BY <1>4, <1>5 DEF Counts
<1> QED BY <1>4, <1>6, <1>7, <1>8, <1>9, <1>10

LEMMA RestKept ==
    ASSUME IsFiniteSet(Requests), NEW s, NEW r \in Requests,
           deptOf' = deptOf,
           \A x \in Requests \ {r} : row'[x] = row[x] /\ attached'[x] = attached[x]
    PROVE  Rest(r, s)' = Rest(r, s)
<1> DEFINE f == [x \in Requests |-> TransactionAmount(row[x], attached[x])]
           g == [x \in Requests |-> row[x].stated]
           T == TransactionsOf(s) \ {r}
           H == ReservationsOf(s) \ {r}
           ff == [x \in Requests |-> TransactionAmount(row'[x], attached'[x])]
           gg == [x \in Requests |-> row'[x].stated]
<1>1. T' = T /\ H' = H
  BY DEF TransactionsOf, ReservationsOf, InScope
<1>2. IsFiniteSet(T) /\ IsFiniteSet(H)
  <2>1. T \in SUBSET Requests /\ H \in SUBSET Requests
    BY DEF TransactionsOf, ReservationsOf
  <2> QED BY <2>1, FS_Subset
<1>3. (\A x \in T : ff[x] = f[x]) /\ (\A x \in H : gg[x] = g[x])
  BY DEF TransactionsOf, ReservationsOf
<1>4. Rest(r, s) = SumFunctionOnSet(f, T) + SumFunctionOnSet(g, H)
  BY DEF Rest, SpentBy, HeldBy
<1>5. Rest(r, s)' = SumFunctionOnSet(ff, T') + SumFunctionOnSet(gg, H')
  BY DEF Rest, SpentBy, HeldBy
<1> HIDE DEF f, g, ff, gg, T, H
<1>6. SumFunctionOnSet(ff, T) = SumFunctionOnSet(f, T)
  BY <1>2, <1>3, SumSame
<1>7. SumFunctionOnSet(gg, H) = SumFunctionOnSet(g, H)
  BY <1>2, <1>3, SumSame
<1> QED BY <1>1, <1>4, <1>5, <1>6, <1>7

(* The same of the next state *)
Sums ==
    /\ \A s : Committed(s) \in Nat
    /\ \A s : \A r \in Requests :
         /\ Rest(r, s) \in Nat /\ Counts(r, s) \in Nat
         /\ Committed(s) = Counts(r, s) + Rest(r, s)

LEMMA OneAndTheRest ==
    ASSUME IsFiniteSet(Requests)
    PROVE  (TypeInv => Sums) /\ (TypeInv => Sums)'
<1>1. TypeInv => Sums
  BY AmountTypes, OneOfThem DEF Sums
<1> QED BY <1>1, PTL

(* When one request moves, a pool moves by what that request counts for.    *)
LEMMA OneMoves ==
    ASSUME TypeInv, TypeInv', IsFiniteSet(Requests), NEW s, NEW r \in Requests,
           deptOf' = deptOf,
           \A x \in Requests \ {r} : row'[x] = row[x] /\ attached'[x] = attached[x]
    PROVE  /\ Committed(s) \in Nat /\ Committed(s)' \in Nat
           /\ Counts(r, s) \in Nat /\ Counts(r, s)' \in Nat
           /\ Committed(s)' + Counts(r, s) = Committed(s) + Counts(r, s)'
<1>1. Rest(r, s)' = Rest(r, s)
  BY RestKept
<1>2. Sums /\ Sums'
  BY OneAndTheRest
<1>3. /\ Committed(s) \in Nat /\ Rest(r, s) \in Nat /\ Counts(r, s) \in Nat
      /\ Committed(s) = Counts(r, s) + Rest(r, s)
  BY <1>2 DEF Sums
<1>4. /\ Committed(s)' \in Nat /\ Rest(r, s)' \in Nat /\ Counts(r, s)' \in Nat
      /\ Committed(s)' = Counts(r, s)' + Rest(r, s)'
  BY <1>2 DEF Sums
<1> QED BY <1>1, <1>3, <1>4

(* A step that changes no row and no directory changes no pool. *)
LEMMA SameMoney ==
    ASSUME row' = row, attached' = attached, UNCHANGED directoryVars
    PROVE  /\ \A s : /\ Committed(s)' = Committed(s)
                     /\ TransactionsOf(s)' = TransactionsOf(s)
                     /\ ReservationsOf(s)' = ReservationsOf(s)
           /\ \A r : ScopeOf(r)' = ScopeOf(r)
           /\ \A s, a : Room(s, a) => Room(s, a)'
           /\ NoOverdraw => NoOverdraw'
<1>1. deptOf' = deptOf /\ budget' = budget
  BY DEF directoryVars
<1>2. \A s : /\ TransactionsOf(s)' = TransactionsOf(s)
             /\ ReservationsOf(s)' = ReservationsOf(s)
  BY <1>1 DEF TransactionsOf, ReservationsOf, InScope
<1>3. ASSUME NEW s PROVE Committed(s)' = Committed(s)
  BY <1>1 DEF Committed, SpentBy, HeldBy, TransactionsOf, ReservationsOf, InScope
<1>4. \A r : ScopeOf(r)' = ScopeOf(r)
  BY <1>1 DEF ScopeOf
<1>5. \A s, a : Room(s, a) => Room(s, a)'
  BY <1>1, <1>3 DEF Room
<1>6. NoOverdraw => NoOverdraw'
  BY <1>1, <1>3 DEF NoOverdraw
<1> QED BY <1>2, <1>3, <1>4, <1>5, <1>6

(* The requests a call leaves alone, and the one it moves. *)
Moves(c) == Settles(c) \/ PaysOut(c) \/ Attaches(c)

LEMMA MovesOne ==
    ASSUME TypeInv, TypeInv', NothingUnderneath, NEW c \in Calls, CallStep(c), CallFits(c)
    PROVE  \/ row' = row /\ attached' = attached /\ ~Moves(c)
           \/ /\ Moves(c) /\ Req(c) \in Requests
              /\ \A x \in Requests \ {Req(c)} : row'[x] = row[x] /\ attached'[x] = attached[x]
<1>1. CASE Moves(c)
  <2>1. Req(c) \in Requests
    BY <1>1, SettlingRequest DEF Moves
  <2>2. ASSUME NEW x \in Requests \ {Req(c)}
        PROVE  row'[x] = row[x] /\ attached'[x] = attached[x]
    BY <2>2, Changes
  <2> QED BY <1>1, <2>1, <2>2
<1>2. CASE ~Moves(c)
  <2>1. \A x \in Requests : row'[x] = row[x] /\ attached'[x] = attached[x]
    BY <1>2, Changes DEF Moves
  <2>2. row' = row /\ attached' = attached
    BY <2>1 DEF TypeInv, TypeOK
  <2> QED BY <1>2, <2>2
<1> QED BY <1>1, <1>2

(* What a decision adds to a pool is an amount room was found for. *)
LEMMA SettledCounts ==
    ASSUME SettleInv, TypeInv', NothingUnderneath, deptOf' = deptOf,
           NEW c \in Calls, Settles(c), NEW r \in Requests, r = Req(c), NEW s
    PROVE  /\ Counts(r, s) = 0
           /\ \/ Counts(r, s)' = 0
              \/ NeedsHeadroom(c) /\ s = ScopeOf(r) /\ Counts(r, s)' = view[c].amount
<1> DEFINE v == view[c]
<1>1. TypeInv /\ CallFits(c) /\ DeciderFits(c) /\ CallStep(c)
  BY DEF SettleInv, TrailInv, CallStep
<1>2. pc[c] = "settling" /\ GetsStatus(r, v.next) /\ attached' = attached
  BY DEF Settles
<1>3. /\ RequestFits(r) /\ row[r] \in Row /\ row[r].stated \in Nat
      /\ attached[r].count \in Nat /\ attached[r].total \in Nat
  BY <1>1, <1>2 DEF SettleInv, TypeInv, TypeOK, Row, Attached
<1>4. /\ v.stage \in PendingStatuses /\ v.stage = row[r].status
      /\ v.amount = EffectiveAmount(row[r], attached[r])
      /\ v.verified = HasVerifiedAttachment(attached[r])
  BY <1>1, <1>2, Groups, DecidingTypes DEF CallFits
<1>5. job[c].asked \in Decisions /\ LeadsOn(c)
  BY <1>1, <1>2, Groups, DecidingTypes DEF DeciderFits, Told
<1>6. Counts(r, s) = 0
  BY <1>4 DEF Counts, IsTransaction, IsReservation, TransactionStatuses, PendingStatuses
<1>7. /\ row'[r].status = v.next /\ row'[r].stated = row[r].stated
      /\ ScopeOf(r)' = ScopeOf(r)
  BY <1>2, <1>3 DEF GetsStatus, Row, ScopeOf, BudgetScope
<1>8. CASE v.next \notin {"APPROVED", "PENDING_PAYMENT"}
  <2>1. v.next # "COMPLETED"
    BY <1>2, <1>5 DEF LeadsOn, DecidedStatus, MoneyStages
  <2>2. Counts(r, s)' = 0
    BY <1>7, <1>8, <2>1 DEF Counts, IsTransaction, IsReservation, TransactionStatuses
  <2> QED BY <1>6, <2>2
<1>9. CASE v.next \in {"APPROVED", "PENDING_PAYMENT"}
  <2>1. /\ Approving(c) /\ v.stage # "PENDING_MANAGER_APPROVAL"
        /\ v.next = DecidedStatus(v.stage, job[c].asked, v.amount, v.verified)
    BY <1>2, <1>5, <1>9 DEF LeadsOn, ManagerApproves, Approving, DecidedStatus, MoneyStages, Decisions
  <2>2. /\ attached[r].count = 0 => attached[r].total = 0
        /\ attached[r].count > 0 => row[r].stated = 0
        /\ RoutedBy(r, v.stage)
    BY <1>3, <1>4, CallPlaces DEF RequestFits
  <2>3. CASE v.next = "PENDING_PAYMENT"
    <3>1. /\ v.stage \in {"PENDING_FINANCE_APPROVAL", "ESCALATED"} /\ ~v.verified
          /\ v.stage = "ESCALATED" => v.amount > 0
      BY <1>5, <2>1, <2>3 DEF DecidedStatus, Approving
    <3>2. attached[r].count = 0 /\ attached[r].total = 0 /\ v.amount = row[r].stated
      <4>1. ~(attached[r].count > 0)
        BY <1>4, <3>1, Zenon DEF HasVerifiedAttachment
      <4> QED BY <1>3, <1>4, <2>2, <4>1 DEF EffectiveAmount
    <3>3. NeedsHeadroom(c)
      BY <1>3, <2>1, <2>2, <3>1, <3>2 DEF NeedsHeadroom, RoutedBy
    <3>4. s = ScopeOf(r) => Counts(r, s)' = v.amount
      BY <1>2, <1>3, <1>7, <2>3, <3>2, <3>3
         DEF Counts, IsTransaction, IsReservation, TransactionStatuses, NeedsHeadroom
    <3>5. s # ScopeOf(r) => Counts(r, s)' = 0
      BY <1>7 DEF Counts
    <3> QED BY <1>6, <3>3, <3>4, <3>5
  <2>4. CASE v.next = "APPROVED"
    <3>1. CASE attached[r].total > 0
      <4>1. attached[r].count > 0 /\ row[r].stated = 0 /\ v.amount = attached[r].total
        BY <1>3, <1>4, <2>2, <3>1 DEF EffectiveAmount
      <4>2. NeedsHeadroom(c)
        BY <1>4, <2>1, <2>2, <3>1, <4>1 DEF NeedsHeadroom, RoutedBy, PendingStatuses
      <4>3. s = ScopeOf(r) => Counts(r, s)' = v.amount
        BY <1>2, <1>7, <2>4, <3>1, <4>1
           DEF Counts, IsTransaction, TransactionAmount, TransactionStatuses
      <4>4. s # ScopeOf(r) => Counts(r, s)' = 0
        BY <1>7 DEF Counts
      <4> QED BY <1>6, <4>2, <4>3, <4>4
    <3>2. CASE ~(attached[r].total > 0)
      <4>1. Counts(r, s)' = 0
        BY <1>2, <1>3, <1>7, <2>2, <2>4, <3>2
           DEF Counts, IsTransaction, IsReservation
      <4> QED BY <1>6, <4>1
    <3> QED BY <3>1, <3>2
  <2> QED BY <1>9, <2>3, <2>4
<1> QED BY <1>8, <1>9

(* Proof of payment turns what was reserved into what was spent. *)
LEMMA PaidCounts ==
    ASSUME SettleInv, TypeInv', deptOf' = deptOf, NEW c \in Calls, PaysOut(c) \/ Attaches(c),
           NEW r \in Requests, r = Req(c), row[r].status = "PENDING_PAYMENT", NEW s
    PROVE  /\ Counts(r, s) = IF s = ScopeOf(r) /\ attached[r].count = 0
                             THEN row[r].stated ELSE 0
           /\ ScopeOf(r)' = ScopeOf(r)
           /\ Attaches(c) => Counts(r, s)' = 0
           /\ PaysOut(c) => Counts(r, s)' = IF s = ScopeOf(r) /\ attached[r].count > 0
                                            THEN row[r].stated ELSE 0
<1>1. TypeInv
  BY DEF SettleInv, TrailInv
<1>2. /\ row[r] \in Row /\ row[r].stated \in Nat /\ row[r].stated > 0
      /\ attached[r].count \in Nat /\ attached[r].total \in Nat
      /\ attached[r].count = 0 => attached[r].total = 0
  BY <1>1 DEF SettleInv, RequestFits, Granted, TypeInv, TypeOK, Row, Attached
<1>3. Counts(r, s) = IF s = ScopeOf(r) /\ attached[r].count = 0 THEN row[r].stated ELSE 0
  BY <1>2 DEF Counts, IsTransaction, IsReservation, TransactionStatuses
<1>4. CASE Attaches(c)
  <2>1. row' = row /\ attached'[r].count = attached[r].count + 1
    BY <1>4 DEF Attaches, Gets
  <2>2. Counts(r, s)' = 0
    BY <1>2, <2>1 DEF Counts, IsTransaction, IsReservation, TransactionStatuses
  <2>3. ScopeOf(r)' = ScopeOf(r) /\ ~PaysOut(c)
    BY <1>4, <2>1 DEF ScopeOf, Attaches, PaysOut
  <2> QED BY <1>3, <1>4, <2>2, <2>3
<1>5. CASE PaysOut(c)
  <2>1. /\ row'[r].status = "COMPLETED" /\ row'[r].stated = row[r].stated
        /\ ScopeOf(r)' = ScopeOf(r) /\ attached' = attached
    BY <1>2, <1>5 DEF PaysOut, GetsStatus, Row, ScopeOf, BudgetScope
  <2>2. Counts(r, s)' = IF s = ScopeOf(r) /\ attached[r].count > 0 THEN row[r].stated ELSE 0
    BY <1>2, <2>1 DEF Counts, IsTransaction, IsReservation, TransactionAmount, TransactionStatuses
  <2>3. ~Attaches(c)
    BY <1>5 DEF Attaches, PaysOut
  <2> QED BY <1>3, <1>5, <2>1, <2>2, <2>3
<1> QED BY <1>4, <1>5

(* No step of a call overdraws a pool. *)
LEMMA CallStaysInBudget ==
    ASSUME SettleInv, TypeInv', NothingUnderneath, IsFiniteSet(Requests),
           NEW c \in Calls, CallStep(c), HeadroomFits(c), NoOverdraw, UNCHANGED directoryVars
    PROVE  NoOverdraw'
<1>1. TypeInv /\ CallFits(c)
  BY DEF SettleInv, TrailInv
<1>2. deptOf' = deptOf /\ budget' = budget
  BY DEF directoryVars
<1>3. CASE row' = row /\ attached' = attached
  BY <1>3, SameMoney
<1>4. CASE /\ Moves(c) /\ Req(c) \in Requests
           /\ \A x \in Requests \ {Req(c)} : row'[x] = row[x] /\ attached'[x] = attached[x]
  <2> SUFFICES ASSUME NEW s \in Scopes, budget[s] # NoBudget
               PROVE  Committed(s)' <= budget[s]
    BY <1>2 DEF NoOverdraw
  <2> PICK r \in Requests : r = Req(c)
    BY <1>4
  <2>1. budget[s] \in Nat /\ Committed(s) <= budget[s]
    BY <1>1 DEF NoOverdraw, TypeInv, TypeOK, DirectoryTypeOK
  <2>2. /\ Committed(s) \in Nat /\ Committed(s)' \in Nat
        /\ Counts(r, s) \in Nat /\ Counts(r, s)' \in Nat
        /\ Committed(s)' + Counts(r, s) = Committed(s) + Counts(r, s)'
    BY <1>1, <1>2, <1>4, OneMoves
  <2>3. Counts(r, s)' # 0 => Committed(s) + Counts(r, s)' <= budget[s]
    <3>1. CASE Settles(c)
      <4>1. Counts(r, s)' # 0 =>
              NeedsHeadroom(c) /\ s = ScopeOf(r) /\ Counts(r, s)' = view[c].amount
        BY <1>2, <3>1, SettledCounts
      <4>2. /\ pc[c] \in Recorded /\ pc[c] \in InFlight
        BY <3>1, Groups DEF Settles
      <4>3. NeedsHeadroom(c) => Room(ScopeOf(r), view[c].amount)
        BY <4>2 DEF HeadroomFits
      <4> QED BY <4>1, <4>3 DEF Room
    <3>2. CASE PaysOut(c) \/ Attaches(c)
      <4>1. pc[c] \in Paying
        BY <3>2 DEF PaysOut, Attaches, Paying
      <4>2. /\ row[r].status = "PENDING_PAYMENT"
            /\ attached[r].count > 0 => Room(ScopeOf(r), row[r].stated)
        BY <4>1 DEF HeadroomFits
      <4>3. Counts(r, s)' # 0 =>
              s = ScopeOf(r) /\ attached[r].count > 0 /\ Counts(r, s)' = row[r].stated
        BY <1>2, <3>2, <4>2, PaidCounts
      <4> QED BY <4>2, <4>3 DEF Room
    <3> QED BY <1>4, <3>1, <3>2 DEF Moves
  <2> QED BY <2>1, <2>2, <2>3
<1> QED BY <1>1, <1>3, <1>4, MovesOne

(* A call that decides nothing and pays nothing knows of no pool. *)
LEMMA Unaware ==
    ASSUME NEW d \in Calls, pc'[d] \notin InFlight \cup Paying
    PROVE  HeadroomFits(d)'
BY Groups DEF HeadroomFits

LEMMA HeadroomOthers ==
    ASSUME SettleInv, TypeInv', NothingUnderneath, Alone, UNCHANGED directoryVars,
           NEW c \in Calls, CallStep(c), NEW d \in Calls \ {c}, HeadroomFits(d)
    PROVE  HeadroomFits(d)'
<1>1. TypeInv /\ CallFits(c)
  BY DEF SettleInv, TrailInv
<1>2. pc'[d] = pc[d] /\ view'[d] = view[d] /\ job'[d] = job[d]
  BY <1>1, CallShape DEF Undisturbed
<1>3. CASE row' = row /\ attached' = attached
  <2> PICK r : r = Req(d)
    OBVIOUS
  <2>1. Req(d)' = r
    BY <1>2 DEF Req
  <2>2. NeedsHeadroom(d)' = NeedsHeadroom(d)
    BY <1>2 DEF NeedsHeadroom, Approving
  <2>3. budget' = budget
    BY DEF directoryVars
  <2>4. /\ \A s : /\ TransactionsOf(s)' = TransactionsOf(s)
                  /\ ReservationsOf(s)' = ReservationsOf(s)
        /\ \A x : ScopeOf(x)' = ScopeOf(x)
        /\ \A s, a : Room(s, a) => Room(s, a)'
    BY <1>3, SameMoney
  <2> QED BY <1>2, <1>3, <2>1, <2>2, <2>3, <2>4 DEF HeadroomFits
<1>4. CASE Moves(c)
  <2>1. pc[c] \in Active
    BY <1>4 DEF Moves, Settles, PaysOut, Attaches, Active, Deciding, Proving
  <2>2. pc'[d] \notin InFlight \cup Paying
    BY <1>2, <2>1, Groups, CallPlaces DEF Alone, Active
  <2> QED BY <2>2, Unaware
<1> QED BY <1>1, <1>3, <1>4, MovesOne

LEMMA HeadroomMover ==
    ASSUME SettleInv, TypeInv', NothingUnderneath, IsFiniteSet(Requests), UNCHANGED directoryVars,
           NEW c \in Calls, CallStep(c), HeadroomFits(c), NoOverdraw
    PROVE  HeadroomFits(c)'
<1>1. TypeInv /\ CallFits(c)
  BY DEF SettleInv, TrailInv
<1>2. ~Notes(c) /\ ~LosesLock(c)
  BY <1>1 DEF NothingUnderneath, CallFits, Notes, LosesLock, Noting
<1>3. budget' = budget /\ deptOf' = deptOf
  BY DEF directoryVars
<1>4. CASE \/ Starts(c) \/ Quits(c) \/ TellsOutcome(c) \/ TellsNews(c) \/ Commits(c)
           \/ Settles(c) \/ PaysOut(c)
  <2>1. pc'[c] \in Over \cup {"waiting", "readingProof", "notifying", "committing",
                             "notifyingProof"}
    <3>1. CASE Starts(c)
      BY <3>1 DEF Starts, NothingUnderneath
    <3>2. CASE ~Starts(c)
      BY <1>4, <3>2, Places DEF Quits, TellsOutcome, TellsNews, Commits, Settles, PaysOut
    <3> QED BY <3>1, <3>2
  <2>2. pc'[c] \notin InFlight \cup Paying
    BY <2>1, CallPlaces, Groups DEF Proving
  <2> QED BY <2>2, Unaware
<1>5. ASSUME OnJob(c), row' = row, attached' = attached
      PROVE  /\ Req(c)' = Req(c) /\ job'[c] = job[c]
             /\ \A s : /\ TransactionsOf(s)' = TransactionsOf(s)
                       /\ ReservationsOf(s)' = ReservationsOf(s)
             /\ \A x : ScopeOf(x)' = ScopeOf(x)
             /\ \A s, a : Room(s, a) => Room(s, a)'
  <2>1. Req(c)' = Req(c) /\ job'[c] = job[c]
    BY <1>5 DEF OnJob, Req
  <2> QED BY <1>5, <2>1, SameMoney
<1> PICK r : r = Req(c)
  OBVIOUS
<1>6. CASE Locks(c)
  <2>1. /\ pc'[c] = "authorising" /\ OnJob(c) /\ row' = row /\ attached' = attached
        /\ view'[c].scope = ScopeOf(r)
    BY <1>6 DEF Locks, requestVars
  <2>2. Req(c)' = r /\ ScopeOf(r)' = ScopeOf(r)
    BY <1>5, <2>1
  <2>3. pc'[c] \notin Recorded \cup Paying \cup {"recording", "budgeting", "querying"}
    BY <2>1, CallPlaces, Groups
  <2> QED BY <2>1, <2>2, <2>3 DEF HeadroomFits
<1>7. CASE Prepares(c)
  <2>1. /\ OnJob(c) /\ SameLocals(c) /\ Looks(c) /\ row' = row /\ attached' = attached
        /\ pc[c] \in {"authorising", "budgeting", "querying"}
        /\ pc'[c] \in {"budgeting", "querying", "recording"}
    BY <1>7 DEF Prepares, requestVars
  <2>2. pc[c] \in InFlight /\ pc'[c] \notin Recorded \cup Paying
    BY <2>1, CallPlaces, Groups
  <2>3. /\ Req(c)' = r /\ ScopeOf(r)' = ScopeOf(r)
        /\ \A s : /\ TransactionsOf(s)' = TransactionsOf(s)
                  /\ ReservationsOf(s)' = ReservationsOf(s)
        /\ \A s, a : Room(s, a) => Room(s, a)'
    BY <1>5, <2>1
  <2>4. NeedsHeadroom(c)' = NeedsHeadroom(c) /\ view'[c].scope = view[c].scope
        /\ view'[c].amount = view[c].amount
    BY <2>1 DEF NeedsHeadroom, Approving, OnJob, SameLocals
  <2>5. view[c].scope = ScopeOf(r)
    BY <2>2 DEF HeadroomFits
  <2>6. pc'[c] \in {"budgeting", "querying"} => NeedsHeadroom(c)
    BY <2>1 DEF Looks, HeadroomFits
  <2>7. pc'[c] = "querying" =>
          /\ view'[c].alloc = budget[view[c].scope]
          /\ "transactions" \notin view'[c].queries =>
               view'[c].spent = TransactionsOf(view[c].scope)
          /\ "reservations" \notin view'[c].queries =>
               view'[c].held = ReservationsOf(view[c].scope)
    BY <2>1 DEF Looks, HeadroomFits
  <2>8. ASSUME pc'[c] = "recording", NeedsHeadroom(c)
        PROVE  Room(view[c].scope, view[c].amount)
    <3>1. CASE pc[c] = "authorising"
      BY <2>1, <2>8, <3>1 DEF Looks
    <3>2. CASE pc[c] = "budgeting"
      BY <2>1, <2>8, <3>2 DEF Looks, Room
    <3>3. CASE pc[c] = "querying"
      <4> DEFINE s == view[c].scope
      <4>1. view[c].queries = {} /\ ~Overdraws(c)
        BY <2>1, <2>8, <3>3 DEF Looks
      <4>2. /\ view[c].alloc = budget[s]
            /\ view[c].spent = TransactionsOf(s) /\ view[c].held = ReservationsOf(s)
        BY <3>3, <4>1 DEF HeadroomFits
      <4>3. ~(view[c].amount + SpentBy(TransactionsOf(s)) + HeldBy(ReservationsOf(s)) > budget[s])
        BY <4>1, <4>2 DEF Overdraws
      <4>4. /\ SpentBy(TransactionsOf(s)) \in Nat /\ HeldBy(ReservationsOf(s)) \in Nat
        <5>1. TransactionsOf(s) \in SUBSET Requests /\ ReservationsOf(s) \in SUBSET Requests
          BY DEF TransactionsOf, ReservationsOf
        <5> QED BY <1>1, <5>1, AmountTypes
      <4>5. view[c].amount \in Nat /\ (budget[s] # NoBudget => budget[s] \in Nat)
        BY <1>1 DEF TypeInv, TypeOK, DirectoryTypeOK, View
      <4> HIDE DEF s
      <4>6. Room(s, view[c].amount)
        BY <4>3, <4>4, <4>5 DEF Room, Committed
      <4> QED BY <4>6 DEF s
    <3> QED BY <2>1, <3>1, <3>2, <3>3
  <2> QED BY <1>3, <2>1, <2>2, <2>3, <2>4, <2>5, <2>6, <2>7, <2>8 DEF HeadroomFits
<1>8. CASE Records(c) \/ Completes(c) \/ PassesOn(c) \/ Audits(c) \/ OpensNext(c)
  <2>1. /\ OnJob(c) /\ SameLocals(c) /\ row' = row /\ attached' = attached
        /\ pc[c] \in Recorded \cup {"recording"} /\ pc'[c] \in Recorded
    BY <1>8, Groups DEF Records, Completes, PassesOn, Audits, OpensNext, SameLocals, requestVars
  <2>2. pc[c] \in InFlight /\ pc'[c] \notin Paying \cup {"budgeting", "querying"}
    BY <2>1, CallPlaces, Groups
  <2>3. Req(c)' = r /\ ScopeOf(r)' = ScopeOf(r) /\ (\A s, a : Room(s, a) => Room(s, a)')
    BY <1>5, <2>1
  <2>4. NeedsHeadroom(c)' = NeedsHeadroom(c) /\ view'[c].scope = view[c].scope
        /\ view'[c].amount = view[c].amount
    BY <2>1 DEF NeedsHeadroom, Approving, OnJob, SameLocals
  <2> QED BY <2>1, <2>2, <2>3, <2>4 DEF HeadroomFits
<1>9. CASE StartsUpload(c) \/ Traces(c)
  <2>1. /\ OnJob(c) /\ row' = row /\ attached' = attached /\ pc'[c] \in Paying
        /\ pc[c] \in Paying \/ (row[r].status = "PENDING_PAYMENT" /\ attached[r].count = 0)
    BY <1>9 DEF StartsUpload, Traces, Paying, requestVars
  <2>2. pc'[c] \notin InFlight
    BY <2>1, CallPlaces
  <2>3. /\ row[r].status = "PENDING_PAYMENT"
        /\ attached[r].count > 0 => Room(ScopeOf(r), row[r].stated)
    BY <2>1 DEF HeadroomFits
  <2>4. Req(c)' = r /\ ScopeOf(r)' = ScopeOf(r) /\ (\A s, a : Room(s, a) => Room(s, a)')
    BY <1>5, <2>1
  <2> QED BY <2>1, <2>2, <2>3, <2>4, Groups DEF HeadroomFits
<1>10. CASE Attaches(c)
  <2>1. /\ OnJob(c) /\ row' = row /\ pc[c] \in Paying /\ pc'[c] \in Paying
    BY <1>10 DEF Attaches, Paying
  <2>2. pc'[c] \notin InFlight
    BY <2>1, CallPlaces
  <2>3. /\ row[r].status = "PENDING_PAYMENT"
        /\ attached[r].count > 0 => Room(ScopeOf(r), row[r].stated)
    BY <2>1 DEF HeadroomFits
  <2>4. Req(c)' = r
    BY <2>1 DEF OnJob, Req
  <2>5. r \in Requests /\ \A x \in Requests \ {r} : row'[x] = row[x] /\ attached'[x] = attached[x]
    BY <1>1, <1>10, MovesOne DEF Moves
  <2> DEFINE s == ScopeOf(r)
  <2>6. s' = s
    BY <1>3, <2>1 DEF ScopeOf
  <2>7. Room(s, row[r].stated)'
    <3> PICK t : t = ScopeOf(r)
      OBVIOUS
    <3>1. /\ Counts(r, t) = IF attached[r].count = 0 THEN row[r].stated ELSE 0
          /\ Counts(r, t)' = 0
      BY <1>3, <1>10, <2>3, <2>5, PaidCounts
    <3>2. /\ Committed(t) \in Nat /\ Committed(t)' \in Nat
          /\ Counts(r, t) \in Nat /\ Counts(r, t)' \in Nat
          /\ Committed(t)' + Counts(r, t) = Committed(t) + Counts(r, t)'
      BY <1>1, <1>3, <2>5, OneMoves
    <3>3. /\ t \in Scopes /\ attached[r].count \in Nat /\ row[r].stated \in Nat
          /\ budget[t] # NoBudget => budget[t] \in Nat
      BY <1>1, <2>5, AmountTypes DEF TypeInv, TypeOK, DirectoryTypeOK, Attached, Row
    <3>4. budget[t] # NoBudget => Committed(t) <= budget[t]
      BY <3>3 DEF NoOverdraw
    <3>5. budget[t] # NoBudget => Committed(t)' + row[r].stated <= budget[t]
      <4>1. CASE attached[r].count = 0
        BY <3>1, <3>2, <3>3, <3>4, <4>1
      <4>2. CASE attached[r].count > 0
        BY <2>3, <3>1, <3>2, <3>3, <4>2 DEF Room
      <4> QED BY <3>3, <4>1, <4>2
    <3> QED BY <1>3, <2>1, <2>6, <3>5 DEF Room
  <2> QED BY <2>1, <2>2, <2>3, <2>4, <2>6, <2>7, Groups DEF HeadroomFits
<1> QED BY <1>2, <1>4, <1>6, <1>7, <1>8, <1>9, <1>10 DEF CallStep

(* A filing moves no money, and nobody's pool. *)
LEMMA FilingMoney ==
    ASSUME SettleInv, TypeInv', IsFiniteSet(Requests), UNCHANGED directoryVars,
           NEW r \in Requests, FilingStep(r)
    PROVE  \A s : /\ Committed(s)' = Committed(s)
                  /\ TransactionsOf(s)' = TransactionsOf(s)
                  /\ ReservationsOf(s)' = ReservationsOf(s)
<1>1. TypeInv /\ FilingFits(r)
  BY DEF SettleInv, TrailInv
<1>2. deptOf' = deptOf
  BY DEF directoryVars
<1>3. OnFiling(r) /\ filer[r].pc # "done"
  BY <1>1 DEF FilingStep, Files, Ingests, Checks, OpensFirst, Routes, Abandons, FilingFits
<1>4. /\ row[r].status \notin {"APPROVED", "COMPLETED", "PENDING_PAYMENT"}
      /\ row'[r].status \notin {"APPROVED", "COMPLETED", "PENDING_PAYMENT"}
  <2>1. row[r].status \in {"UNFILED", "PENDING_POLICY_CHECK"} /\ row[r] \in Row
    BY <1>1, <1>3 DEF FilingFits, TypeInv, TypeOK
  <2>2. CASE Routes(r)
    <3>1. row'[r].status \in DOMAIN AwaitingStep
      BY <2>1, <2>2 DEF Routes, Row
    <3> QED BY <2>1, <3>1 DEF AwaitingStep
  <2>3. CASE ~Routes(r)
    <3>1. row'[r] = row[r] \/ row'[r].status = "PENDING_POLICY_CHECK"
      BY <2>3 DEF FilingStep, Files, Ingests, Checks, OpensFirst, Abandons, requestVars
    <3> QED BY <2>1, <3>1
  <2> QED BY <2>2, <2>3
<1>5. \A x \in Requests \ {r} : row'[x] = row[x] /\ attached'[x] = attached[x]
  BY <1>3 DEF OnFiling
<1>6. ASSUME NEW s
      PROVE  /\ Committed(s)' = Committed(s)
             /\ TransactionsOf(s)' = TransactionsOf(s)
             /\ ReservationsOf(s)' = ReservationsOf(s)
  <2>1. Counts(r, s) = 0 /\ Counts(r, s)' = 0
    BY <1>4 DEF Counts, IsTransaction, IsReservation, TransactionStatuses
  <2>2. /\ Committed(s) \in Nat /\ Committed(s)' \in Nat
        /\ Counts(r, s) \in Nat /\ Counts(r, s)' \in Nat
        /\ Committed(s)' + Counts(r, s) = Committed(s) + Counts(r, s)'
    BY <1>1, <1>2, <1>5, OneMoves
  <2>3. /\ r \notin TransactionsOf(s) /\ r \notin ReservationsOf(s)
        /\ r \notin TransactionsOf(s)' /\ r \notin ReservationsOf(s)'
    BY <1>4 DEF TransactionsOf, ReservationsOf, IsTransaction, IsReservation, TransactionStatuses
  <2>4. \A x \in Requests \ {r} :
          /\ x \in TransactionsOf(s)' <=> x \in TransactionsOf(s)
          /\ x \in ReservationsOf(s)' <=> x \in ReservationsOf(s)
    BY <1>2, <1>5 DEF TransactionsOf, ReservationsOf, InScope
  <2>5. /\ TransactionsOf(s) \subseteq Requests /\ TransactionsOf(s)' \subseteq Requests
        /\ ReservationsOf(s) \subseteq Requests /\ ReservationsOf(s)' \subseteq Requests
    BY DEF TransactionsOf, ReservationsOf
  <2> QED BY <2>1, <2>2, <2>3, <2>4, <2>5
<1> QED BY <1>6

LEMMA HeadroomFiling ==
    ASSUME SettleInv, TypeInv', IsFiniteSet(Requests), UNCHANGED directoryVars,
           NEW r \in Requests, FilingStep(r), NoOverdraw, NEW d \in Calls, HeadroomFits(d)
    PROVE  NoOverdraw' /\ HeadroomFits(d)'
<1>1. TypeInv /\ DeciderFits(d) /\ FilingFits(r)
  BY DEF SettleInv, TrailInv
<1>2. budget' = budget /\ deptOf' = deptOf
  BY DEF directoryVars
<1>3. OnFiling(r) /\ filer[r].pc # "done"
  BY <1>1 DEF FilingStep, Files, Ingests, Checks, OpensFirst, Routes, Abandons, FilingFits
<1>4. \A s : /\ Committed(s)' = Committed(s)
             /\ TransactionsOf(s)' = TransactionsOf(s)
             /\ ReservationsOf(s)' = ReservationsOf(s)
  BY FilingMoney
<1>5. NoOverdraw'
  BY <1>2, <1>4 DEF NoOverdraw
<1>6. UNCHANGED <<job, pc, view>>
  BY <1>3 DEF OnFiling
<1> PICK x : x = Req(d)
  OBVIOUS
<1>7. Req(d)' = x /\ NeedsHeadroom(d)' = NeedsHeadroom(d)
  BY <1>6 DEF Req, NeedsHeadroom, Approving
<1>8. pc[d] \in InFlight \cup Paying =>
        row'[x] = row[x] /\ attached'[x] = attached[x] /\ ScopeOf(x)' = ScopeOf(x)
  <2>1. pc[d] \in InFlight \cup Paying => x \in Requests /\ x # r
    BY <1>1, <1>3, DeciderRequest, CallPlaces DEF DeciderFits
  <2> QED BY <1>2, <1>3, <2>1 DEF OnFiling, ScopeOf
<1>9. \A s, a : Room(s, a) => Room(s, a)'
  BY <1>2, <1>4 DEF Room
<1>10. HeadroomFits(d)'
  BY <1>2, <1>4, <1>6, <1>7, <1>8, <1>9, Groups DEF HeadroomFits
<1> QED BY <1>5, <1>10

(* The calls at work *)
LEMMA AloneStep ==
    ASSUME TypeInv, Alone, MaxInFlight = 1, NEW c \in Calls, CallStep(c)
    PROVE  Alone'
<1> DEFINE A == {d \in Calls : pc[d] \in Active}
<1>1. \A d \in Calls \ {c} : pc'[d] = pc[d]
  BY CallShape DEF Undisturbed
<1>2. CASE pc'[c] \in Active => pc[c] \in Active
  BY <1>1, <1>2 DEF Alone
<1>3. CASE Starts(c)
  <2>1. Cardinality(A) < 1
    BY <1>3 DEF Starts
  <2>2. A = {}
    <3> SUFFICES ASSUME NEW d \in A PROVE FALSE
      OBVIOUS
    <3>1. A = {d}
      BY DEF Alone
    <3>2. Cardinality({d}) = 1
      BY FS_Singleton
    <3> QED BY <2>1, <3>1, <3>2
  <2> QED BY <1>1, <2>2 DEF Alone
<1>4. CASE ~Starts(c)
  <2>1. CASE Quits(c) \/ TellsOutcome(c) \/ TellsNews(c)
    <3>1. pc'[c] \in Over
      BY <2>1, Places DEF Quits, TellsOutcome, TellsNews
    <3> QED BY <1>2, <3>1, Groups DEF Active
  <2>2. CASE LosesLock(c)
    BY <1>2, <2>2 DEF LosesLock
  <2>3. CASE ~(Quits(c) \/ TellsOutcome(c) \/ TellsNews(c) \/ LosesLock(c))
    <3>1. pc[c] \in Active
      BY <1>4, <2>3, Groups
         DEF CallStep, Locks, Prepares, Records, Completes, PassesOn, Audits, OpensNext, Settles,
             Commits, StartsUpload, Attaches, Traces, PaysOut, Notes, Active, Proving, Noting
    <3> QED BY <1>2, <3>1
  <2> QED BY <2>1, <2>2, <2>3
<1> QED BY <1>3, <1>4

LEMMA HeadroomInit ==
    ASSUME IsFiniteSet(Requests), MaxInFlight = 1
    PROVE  Init => HeadroomInv
<1> SUFFICES ASSUME Init PROVE HeadroomInv
  OBVIOUS
<1>1. SettleInv /\ TypeInv
  BY SettleInit DEF SettleInv, TrailInv
<1>2. \A c \in Calls : pc[c] = "idle"
  BY DEF Init
<1>3. Alone
  BY <1>2 DEF Alone, Active, Deciding, Proving, Noting
<1>4. adminOps = MaxAdminOps /\ adminOps <= MaxAdminOps
  BY MaxAdminOpsType DEF Init, DirectoryInit
<1>5. NoOverdraw
  <2> SUFFICES ASSUME NEW s \in Scopes, budget[s] # NoBudget
               PROVE  Committed(s) <= budget[s]
    BY DEF NoOverdraw
  <2>1. TransactionsOf(s) = {} /\ ReservationsOf(s) = {}
    BY DEF Init, NoRow, TransactionsOf, ReservationsOf, IsTransaction, IsReservation,
           TransactionStatuses
  <2>2. SpentBy({}) = 0 /\ HeldBy({}) = 0
    BY FS_EmptySet, SumStep DEF SpentBy, HeldBy
  <2>3. budget[s] \in Nat
    BY <1>1 DEF TypeInv, TypeOK, DirectoryTypeOK
  <2> QED BY <2>1, <2>2, <2>3 DEF Committed
<1>6. \A c \in Calls : HeadroomFits(c)
  <2>1. \A c \in Calls : pc[c] \notin InFlight \cup Paying
    BY <1>2, Groups, CallPlaces
  <2> QED BY <2>1, Groups DEF HeadroomFits
<1> QED BY <1>1, <1>3, <1>4, <1>5, <1>6 DEF HeadroomInv

LEMMA HeadroomStep ==
    ASSUME NothingUnderneath, MaxInFlight = 1, IsFiniteSet(Requests)
    PROVE  HeadroomInv /\ [Next]_vars => HeadroomInv'
<1> SUFFICES ASSUME HeadroomInv, [Next]_vars PROVE HeadroomInv'
  OBVIOUS
<1>1. /\ SettleInv /\ Alone /\ adminOps <= MaxAdminOps
      /\ TypeInv /\ \A r \in Requests : FilingFits(r)
      /\ adminOps \in Nat /\ MaxAdminOps \in Nat
  BY MaxAdminOpsType DEF HeadroomInv, SettleInv, TrailInv, TypeInv, TypeOK, DirectoryTypeOK
<1>2. SettleInv' /\ TypeInv'
  <2>1. SettleInv'
    BY <1>1, SettleStep
  <2> QED BY <2>1 DEF SettleInv, TrailInv
<1>3. CASE Administers /\ ~UNCHANGED vars
  <2>1. adminOps' = adminOps - 1 /\ adminOps > 0 /\ pc' = pc
    BY <1>3 DEF Administers, callVars
  <2>2. adminOps' <= MaxAdminOps /\ adminOps' # MaxAdminOps
    BY <1>1, <2>1
  <2>3. Alone'
    BY <1>1, <2>1 DEF Alone
  <2> QED BY <1>2, <2>2, <2>3 DEF HeadroomInv, Untouched
<1>4. CASE UNCHANGED vars
  <2>1. /\ UNCHANGED <<pc, view, job, row, attached, budget, deptOf, adminOps>>
        /\ UNCHANGED directoryVars
    BY <1>4 DEF vars, requestVars, callVars, directoryVars
  <2>2. Alone' /\ (Untouched' => Untouched)
    <3>1. pc' = pc /\ adminOps' = adminOps
      BY <2>1
    <3> QED BY <1>1, <3>1 DEF Alone, Untouched
  <2>3. /\ NoOverdraw => NoOverdraw'
        /\ \A s : /\ TransactionsOf(s)' = TransactionsOf(s)
                  /\ ReservationsOf(s)' = ReservationsOf(s)
        /\ \A x : ScopeOf(x)' = ScopeOf(x)
        /\ \A s, a : Room(s, a) => Room(s, a)'
    BY <2>1, SameMoney
  <2>4. ASSUME NEW d \in Calls, HeadroomFits(d) PROVE HeadroomFits(d)'
    <3> PICK x : x = Req(d)
      OBVIOUS
    <3>1. Req(d)' = x /\ NeedsHeadroom(d)' = NeedsHeadroom(d)
      BY <2>1 DEF Req, NeedsHeadroom, Approving
    <3> QED BY <2>1, <2>3, <2>4, <3>1 DEF HeadroomFits
  <2> QED BY <1>1, <1>2, <2>1, <2>2, <2>3, <2>4 DEF HeadroomInv
<1>5. ASSUME NEW r \in Requests, FilingStep(r), UNCHANGED directoryVars
      PROVE  HeadroomInv'
  <2>1. OnFiling(r)
    BY <1>5 DEF FilingStep, Files, Ingests, Checks, OpensFirst, Routes, Abandons
  <2>2. Alone' /\ adminOps' = adminOps /\ (Untouched' => Untouched)
    BY <1>1, <1>5, <2>1 DEF Alone, OnFiling, directoryVars, Untouched
  <2>3. ASSUME Untouched PROVE NoOverdraw' /\ \A d \in Calls : HeadroomFits(d)'
    <3>1. NoOverdraw /\ \A d \in Calls : HeadroomFits(d)
      BY <2>3 DEF HeadroomInv
    <3>2. \A s : Committed(s)' = Committed(s)
      BY <1>1, <1>2, <1>5, FilingMoney
    <3>3. NoOverdraw'
      BY <1>5, <3>1, <3>2 DEF NoOverdraw, directoryVars
    <3>4. \A d \in Calls : HeadroomFits(d)'
      BY <1>1, <1>2, <1>5, <3>1, HeadroomFiling
    <3> QED BY <3>3, <3>4
  <2> QED BY <1>1, <1>2, <2>2, <2>3 DEF HeadroomInv
<1>6. ASSUME NEW c \in Calls, CallStep(c), UNCHANGED directoryVars
      PROVE  HeadroomInv'
  <2>1. Alone'
    BY <1>1, <1>6, AloneStep
  <2>2. adminOps' = adminOps /\ (Untouched' => Untouched)
    BY <1>6 DEF directoryVars, Untouched
  <2>3. ASSUME Untouched PROVE NoOverdraw' /\ \A d \in Calls : HeadroomFits(d)'
    <3>1. NoOverdraw /\ \A d \in Calls : HeadroomFits(d)
      BY <2>3 DEF HeadroomInv
    <3>2. NoOverdraw'
      BY <1>1, <1>2, <1>6, <3>1, CallStaysInBudget
    <3>3. HeadroomFits(c)'
      BY <1>1, <1>2, <1>6, <3>1, HeadroomMover
    <3>4. \A d \in Calls \ {c} : HeadroomFits(d)'
      BY <1>1, <1>2, <1>6, <3>1, HeadroomOthers
    <3> QED BY <3>2, <3>3, <3>4
  <2> QED BY <1>1, <1>2, <2>1, <2>2, <2>3 DEF HeadroomInv
<1> QED BY <1>1, <1>3, <1>4, <1>5, <1>6, StepKinds

(* As long as no administrator has changed anything, what is spent and      *)
(* reserved of a pool never exceeds it when calls are served one at a time, *)
(* failures half-way included: the check before a decision (929-932) covers *)
(* what the decision adds, and proof of payment (1102-1174) moves no more   *)
(* than was reserved.  Nothing is said of later on, because an allocation   *)
(* may be cut below what is spent already.                                  *)
THEOREM UntouchedBudgetsProved ==
    ASSUME NothingUnderneath, MaxInFlight = 1, IsFiniteSet(Requests)
    PROVE  Spec => [](Untouched => NoOverdraw)
<1>1. HeadroomInv => (Untouched => NoOverdraw)
  BY DEF HeadroomInv
<1> QED BY <1>1, HeadroomInit, HeadroomStep, PTL DEF Spec

(* In particular no pool is ever overdrawn in a tenant whose pools,         *)
(* departments and roles stand, for all requests, amounts, scopes and calls *)
(* (1450-1473); that calls are served one at a time is needed, since the    *)
(* lock taken before the check is on the request, not the pool (646-648).   *)
THEOREM NoOverdrawProved ==
    ASSUME NothingUnderneath, MaxInFlight = 1, MaxAdminOps = 0, IsFiniteSet(Requests)
    PROVE  Spec => []NoOverdraw
<1>1. HeadroomInv => NoOverdraw
  <2>1. HeadroomInv => adminOps = MaxAdminOps
    BY DEF HeadroomInv, SettleInv, TrailInv, TypeInv, TypeOK, DirectoryTypeOK
  <2> QED BY <2>1 DEF HeadroomInv, Untouched
<1> QED BY <1>1, HeadroomInit, HeadroomStep, PTL DEF Spec

=============================================================================
