---------------------------- MODULE DecisionProofs ----------------------------
(***************************************************************************)
(* One approval per stage, for every tenant and any number of calls, as    *)
(* long as no call fails or times out between two of its writes.           *)
(***************************************************************************)
EXTENDS RequestsProofs

-----------------------------------------------------------------------------
(* Facts the steps share *)

(* The names of the places, as the invariant groups them. *)
LEMMA Groups ==
    /\ Recorded = {"completing", "routing", "auditing", "opening", "settling"}
    /\ InFlight = {"authorising", "budgeting", "querying", "recording"} \cup Recorded
    /\ Deciding = InFlight \cup {"committing"}
    /\ Deciding \cap (Proving \cup Noting \cup Over \cup {"idle", "waiting", "notifying"}) = {}
    /\ (Proving \cup Noting) \cap (Over \cup {"idle", "waiting", "notifying"}) = {}
    /\ Over \cap {"idle", "waiting", "notifying"} = {}
BY DEF InFlight, Recorded, Deciding, Proving, Noting, Over

LEMMA ApprovalTypes ==
    ASSUME TypeInv, NEW a \in approvals
    PROVE  a.call \in Calls /\ a.req \in Requests
BY DEF TypeInv, TypeOK, Approval

LEMMA InFlightTypes ==
    ASSUME TypeInv, NEW c \in Calls, pc[c] \in Deciding \cup Proving \cup Noting
    PROVE  Req(c) \in Requests
BY JobTypes DEF Deciders

LEMMA Moved ==
    ASSUME TypeInv, NEW c \in Calls, NEW p, Goto(c, p)
    PROVE  pc'[c] = p /\ \A d \in Calls \ {c} : pc'[d] = pc[d]
BY DEF Goto, TypeInv, TypeOK

(* Releasing the lock of one call takes none from another. *)
LEMMA ReleasedOthers ==
    ASSUME NEW c, NEW d, NEW r \in Requests, d # c, lock[r] = d
    PROVE  Released(c)[r] = d
BY DEF Released

(* What the calls but c see. *)
Undisturbed(c) ==
    \A d \in Calls \ {c} :
        /\ pc'[d] = pc[d] /\ job'[d] = job[d] /\ view'[d] = view[d]
        /\ \A r \in Requests : lock[r] = d => lock'[r] = d

(* A request keeps its status, or gets one at which nothing is decided. *)
KeptOrClosed(r) ==
    \/ row'[r].status = row[r].status
    \/ /\ filer[r].pc = "done"
       /\ row'[r].status \notin PendingStatuses \cup {"UNFILED"}

(* Call c takes no step that matters to the invariant: it keeps its place   *)
(* before or after the Approval it writes, or leaves the decision.          *)
Quiet(c) ==
    /\ pc[c] = "idle" \/ job'[c] = job[c]
    /\ pc'[c] \in Recorded <=> pc[c] \in Recorded
    /\ pc'[c] \in InFlight => pc[c] \in InFlight /\ view'[c].stage = view[c].stage
    /\ pc'[c] \in Deciding => pc[c] \in Deciding /\ lock' = lock
    /\ pc'[c] \in (Proving \ {"readingProof"}) \cup Noting => filer[job'[c].req].pc = "done"
    /\ pc'[c] \in {"idle", "waiting"} => pc[c] \in {"idle", "waiting"}
    /\ pc'[c] \in Recorded =>
         \/ view'[c].next = view[c].next
         \/ /\ view[c].stage = "PENDING_MANAGER_APPROVAL"
            /\ view'[c].next \in MoneyStages

LEMMA QuietStep ==
    ASSUME DecisionInv, TypeInv', NEW c \in Calls, Undisturbed(c), Quiet(c),
           UNCHANGED <<approvals, filer>>,
           \A r \in Requests : KeptOrClosed(r)
    PROVE  DecisionInv'
<1>1. TypeInv /\ FiledFirst /\ LockHeld /\ OneApprovalPerCall /\ Onwards
      /\ EarlierDecisions /\ OpenDecisions /\ OneApprovalPerStage
  BY DEF DecisionInv
<1>2. ASSUME NEW d \in Calls, d # c
      PROVE  pc'[d] = pc[d] /\ job'[d] = job[d] /\ view'[d] = view[d] /\ Req(d)' = Req(d)
  BY <1>2 DEF Undisturbed, Req
<1>3. ASSUME pc[c] # "idle" PROVE Req(c)' = Req(c)
  BY <1>3 DEF Quiet, Req
<1>4. ASSUME NEW a \in approvals PROVE a.call \in Calls /\ a.req \in Requests
  BY <1>1, <1>4, ApprovalTypes
<1>5. FiledFirst'
  <2>1. ASSUME NEW r \in Requests
        PROVE  /\ row'[r].status = "UNFILED" => filer'[r].pc = "none"
               /\ filer'[r].pc # "done" =>
                    row'[r].status \in {"UNFILED", "PENDING_POLICY_CHECK"}
    BY <1>1, <2>1 DEF FiledFirst, KeptOrClosed
  <2>2. ASSUME NEW d \in Calls,
               pc'[d] \in InFlight \cup (Proving \ {"readingProof"}) \cup Noting
        PROVE  filer'[job'[d].req].pc = "done"
    <3>1. CASE d # c
      BY <1>1, <1>2, <2>2, <3>1 DEF FiledFirst, Req
    <3>2. CASE d = c /\ pc'[c] \in InFlight
      <4>1. pc[c] \in InFlight /\ pc[c] # "idle"
        BY <3>2, Groups DEF Quiet
      <4> QED BY <1>1, <1>3, <3>2, <4>1 DEF FiledFirst, Req
    <3>3. CASE d = c /\ pc'[c] \notin InFlight
      BY <2>2, <3>3 DEF Quiet
    <3> QED BY <3>1, <3>2, <3>3
  <2>3. \A a \in approvals' : filer'[a.req].pc = "done"
    BY <1>1 DEF FiledFirst
  <2> QED BY <2>1, <2>2, <2>3 DEF FiledFirst, Req
<1>6. LockHeld'
  <2> SUFFICES ASSUME NEW d \in Calls, pc'[d] \in Deciding
               PROVE  lock'[job'[d].req] = d
    BY DEF LockHeld, Req
  <2>1. CASE d # c
    <3>1. Req(d) \in Requests /\ lock[Req(d)] = d
      BY <1>1, <1>2, <2>1, InFlightTypes DEF LockHeld
    <3> QED BY <1>2, <2>1, <3>1 DEF Undisturbed, Req
  <2>2. CASE d = c
    <3>1. pc[c] \in Deciding /\ lock' = lock /\ pc[c] # "idle"
      BY <2>2, Groups DEF Quiet
    <3> QED BY <1>1, <1>3, <2>2, <3>1 DEF LockHeld, Req
  <2> QED BY <2>1, <2>2
<1>7. OneApprovalPerCall'
  <2> SUFFICES ASSUME NEW a \in approvals
               PROVE  /\ pc'[a.call] \notin InFlight \ Recorded
                      /\ pc'[a.call] \notin {"idle", "waiting"}
                      /\ a.req = job'[a.call].req
                      /\ pc'[a.call] \in Recorded => a.stage = view'[a.call].stage
                      /\ \A b \in approvals : a.call = b.call => a = b
    BY DEF OneApprovalPerCall, Req
  <2>1. CASE a.call # c
    BY <1>1, <1>2, <1>4, <2>1 DEF OneApprovalPerCall, Req
  <2>2. CASE a.call = c
    <3>1. pc[c] \notin InFlight \ Recorded /\ pc[c] \notin {"idle", "waiting"}
      BY <1>1, <2>2 DEF OneApprovalPerCall
    <3>2. pc'[c] \notin InFlight \ Recorded /\ pc'[c] \notin {"idle", "waiting"}
      BY <3>1 DEF Quiet
    <3>3. a.req = job'[c].req
      BY <1>1, <1>3, <2>2, <3>1 DEF OneApprovalPerCall, Req
    <3>4. pc'[c] \in Recorded => a.stage = view'[c].stage
      BY <1>1, <2>2, Groups DEF OneApprovalPerCall, Quiet
    <3> QED BY <1>1, <2>2, <3>2, <3>3, <3>4 DEF OneApprovalPerCall
  <2> QED BY <2>1, <2>2
<1>8. Onwards'
  <2> SUFFICES ASSUME NEW d \in Calls, pc'[d] \in Recorded
               PROVE  /\ view'[d].next # "UNFILED"
                      /\ view'[d].next \in PendingStatuses =>
                           /\ view'[d].stage = "PENDING_MANAGER_APPROVAL"
                           /\ view'[d].next \in MoneyStages
    BY DEF Onwards
  <2>1. CASE d # c
    BY <1>1, <1>2, <2>1 DEF Onwards
  <2>2. CASE d = c
    BY <1>1, <2>2, Groups DEF Onwards, Quiet, MoneyStages
  <2> QED BY <2>1, <2>2
<1>9. EarlierDecisions'
  <2> SUFFICES ASSUME NEW d \in Calls, NEW a \in approvals,
                      pc'[d] \in InFlight, a.req = job'[d].req, a.call # d
               PROVE  PassedOn(a, view'[d].stage)
    BY DEF EarlierDecisions, Req, PassedOn
  <2>1. CASE d # c
    BY <1>1, <1>2, <2>1 DEF EarlierDecisions, Req
  <2>2. CASE d = c
    <3>1. pc[c] \in InFlight /\ view'[c].stage = view[c].stage /\ pc[c] # "idle"
      BY <2>2, Groups DEF Quiet
    <3> QED BY <1>1, <1>3, <2>2, <3>1 DEF EarlierDecisions, Req
  <2> QED BY <2>1, <2>2
<1>10. OpenDecisions'
  <2> SUFFICES ASSUME NEW a \in approvals,
                      row'[a.req].status \in PendingStatuses, pc'[a.call] \notin Recorded
               PROVE  PassedOn(a, row'[a.req].status)
    BY DEF OpenDecisions, PassedOn
  <2>1. row'[a.req].status = row[a.req].status
    BY <1>4 DEF KeptOrClosed
  <2>2. pc[a.call] \notin Recorded
    BY <1>2, <1>4 DEF Quiet
  <2> QED BY <1>1, <2>1, <2>2 DEF OpenDecisions
<1>11. OneApprovalPerStage'
  BY <1>1 DEF OneApprovalPerStage
<1> QED BY <1>5, <1>6, <1>7, <1>8, <1>9, <1>10, <1>11 DEF DecisionInv

-----------------------------------------------------------------------------
(* Steps of one call that write neither an Approval nor a status *)

LEMMA RowKeepsStatus ==
    ASSUME UNCHANGED row
    PROVE  \A r \in Requests : KeptOrClosed(r)
BY DEF KeptOrClosed

(* A call that goes on with its job and its locals. *)
LEMMA GoesOn ==
    ASSUME TypeInv, NEW c \in Calls, NEW p, Goto(c, p), UNCHANGED <<job, view, lock>>
    PROVE  Undisturbed(c) /\ pc'[c] = p /\ job'[c] = job[c] /\ view'[c] = view[c]
BY Moved DEF Undisturbed

(* A call that goes on with other locals. *)
LEMMA Reads ==
    ASSUME TypeInv, NEW c \in Calls, NEW p, Goto(c, p), UNCHANGED <<job, lock>>,
           NEW v, view' = [view EXCEPT ![c] = v]
    PROVE  Undisturbed(c) /\ pc'[c] = p /\ job'[c] = job[c] /\ view'[c] = v
BY Moved DEF Undisturbed, TypeInv, TypeOK

(* A call that ends before it records, or after it settled. *)
LEMMA Ends ==
    ASSUME TypeInv, NEW c \in Calls, NEW p \in Over, Finish(c, p), UNCHANGED job,
           pc[c] \notin Recorded
    PROVE  Undisturbed(c) /\ Quiet(c)
<1>1. pc'[c] = p /\ \A d \in Calls \ {c} : pc'[d] = pc[d]
  BY Moved DEF Finish
<1>2. \A d \in Calls \ {c} : view'[d] = view[d]
  BY DEF Finish, TypeInv, TypeOK
<1>3. ASSUME NEW d \in Calls \ {c}, NEW r \in Requests, lock[r] = d
      PROVE  lock'[r] = d
  BY <1>3, ReleasedOthers DEF Finish
<1>4. Undisturbed(c)
  BY <1>1, <1>2, <1>3 DEF Undisturbed
<1>5. pc'[c] \notin Deciding \cup Proving \cup Noting \cup {"idle", "waiting"}
  BY <1>1, Groups DEF Over
<1>6. Quiet(c)
  BY <1>5, Groups DEF Quiet
<1> QED BY <1>4, <1>6

(* A call that stays on its side of the Approval it writes, within its      *)
(* decision.                                                                *)
LEMMA DecidesOn ==
    ASSUME TypeInv, NEW c \in Calls, NEW p, NEW q, pc[c] = p, pc'[c] = q,
           job'[c] = job[c], lock' = lock, view'[c].stage = view[c].stage,
           \/ {p, q} \subseteq InFlight \ Recorded
           \/ {p, q} \subseteq Recorded /\ view'[c].next = view[c].next
    PROVE  Quiet(c)
<1>1. q \notin Proving \cup Noting \cup {"idle", "waiting"}
  BY Groups
<1>2. p \in InFlight /\ p \in Deciding
  BY Groups
<1> QED BY <1>1, <1>2 DEF Quiet

(* A call that decides nothing. *)
LEMMA WorksOn ==
    ASSUME TypeInv, FiledFirst, NEW c \in Calls, NEW p, NEW q, pc[c] = p, pc'[c] = q,
           job'[c] = job[c],
           p \in (Proving \ {"readingProof"}) \cup Noting,
           q \in Proving \cup Noting \cup Over
    PROVE  Quiet(c)
<1>1. p \notin Deciding /\ q \notin Deciding \cup {"idle", "waiting"}
  BY Groups
<1>2. filer[job[c].req].pc = "done"
  BY DEF FiledFirst, Req
<1> QED BY <1>1, <1>2, Groups DEF Quiet

-----------------------------------------------------------------------------
(* The quiet steps of decide *)

LEMMA StartDecideKeeps ==
    ASSUME DecisionInv, TypeInv', NEW c \in Calls, StartDecide(c)
    PROVE  DecisionInv'
<1>1. TypeInv /\ pc[c] = "idle"
  BY DEF DecisionInv, StartDecide, Begin
<1>2. pc'[c] = "waiting" /\ \A d \in Calls \ {c} : pc'[d] = pc[d]
  BY <1>1, Moved DEF StartDecide
<1>3. \A d \in Calls \ {c} : job'[d] = job[d]
  BY <1>1 DEF StartDecide, TypeInv, TypeOK
<1>4. Undisturbed(c)
  BY <1>2, <1>3 DEF Undisturbed, StartDecide
<1>5. Quiet(c)
  BY <1>1, <1>2, Groups DEF Quiet
<1> QED BY <1>4, <1>5, RowKeepsStatus, QuietStep DEF StartDecide, requestVars

(* The calls that are refused the lock's row, or a decision. *)
LEMMA RefusalKeeps ==
    ASSUME DecisionInv, TypeInv', NEW c \in Calls, Finish(c, "refused"),
           pc[c] \in {"waiting", "authorising", "querying", "readingProof", "readingNote"},
           UNCHANGED <<requestVars, filer, job>>
    PROVE  DecisionInv'
<1>1. TypeInv /\ pc[c] \notin Recorded
  BY Groups DEF DecisionInv
<1>2. Undisturbed(c) /\ Quiet(c)
  BY <1>1, Places, Ends
<1> QED BY <1>2, RowKeepsStatus, QuietStep DEF requestVars

LEMMA AuthoriseKeeps ==
    ASSUME DecisionInv, TypeInv', NEW c \in Calls, Authorise(c)
    PROVE  DecisionInv'
<1>1. TypeInv /\ pc[c] = "authorising" /\ UNCHANGED <<requestVars, filer, job>>
  BY DEF DecisionInv, Authorise
<1>2. CASE Finish(c, "refused")
  BY <1>1, <1>2, RefusalKeeps
<1>3. CASE ~Finish(c, "refused")
  <2> DEFINE m == view[c].stage = "PENDING_FINANCE_APPROVAL" /\ Matched(Actor(c), view[c])
             v == [view[c] EXCEPT !.matched = m]
             q == IF NeedsHeadroom(c) THEN "budgeting" ELSE "recording"
  <2>1. Goto(c, q) /\ UNCHANGED lock /\ view' = [view EXCEPT ![c] = v]
    BY <1>3 DEF Authorise
  <2>2. v.stage = view[c].stage
    BY <1>1, SameStage DEF TypeInv, TypeOK
  <2> HIDE DEF v
  <2>3. Undisturbed(c) /\ pc'[c] = q /\ view'[c].stage = view[c].stage
    BY <1>1, <2>1, <2>2, Reads
  <2>4. {"authorising", q} \subseteq InFlight \ Recorded
    BY Groups
  <2>5. Quiet(c)
    BY <1>1, <2>1, <2>3, <2>4, DecidesOn
  <2> QED BY <1>1, <2>3, <2>5, RowKeepsStatus, QuietStep DEF requestVars
<1> QED BY <1>2, <1>3

LEMMA ReadBudgetKeeps ==
    ASSUME DecisionInv, TypeInv', NEW c \in Calls, ReadBudget(c)
    PROVE  DecisionInv'
<1>1. TypeInv /\ pc[c] = "budgeting" /\ UNCHANGED <<requestVars, lock, filer, job>>
  BY DEF DecisionInv, ReadBudget
<1>2. PICK q \in {"recording", "querying"} :
        Goto(c, q) /\ Undisturbed(c) /\ view'[c].stage = view[c].stage
  <2>1. CASE Goto(c, "recording") /\ UNCHANGED view
    BY <1>1, <2>1, GoesOn
  <2>2. CASE ~(Goto(c, "recording") /\ UNCHANGED view)
    <3> DEFINE w == [view[c] EXCEPT !.alloc = budget[view[c].scope]]
               v == [w EXCEPT !.queries = {"transactions", "reservations"}]
    <3>1. Goto(c, "querying") /\ view' = [view EXCEPT ![c] = v]
      BY <2>2 DEF ReadBudget
    <3>2. v.stage = view[c].stage
      BY <1>1 DEF TypeInv, TypeOK, View
    <3> HIDE DEF v
    <3> QED BY <1>1, <3>1, <3>2, Reads
  <2> QED BY <2>1, <2>2
<1>3. pc'[c] = q /\ {"budgeting", q} \subseteq InFlight \ Recorded
  BY <1>1, <1>2, Moved, Groups
<1>4. Quiet(c)
  BY <1>1, <1>2, <1>3, DecidesOn
<1> QED BY <1>1, <1>2, <1>4, RowKeepsStatus, QuietStep DEF requestVars

(* The two queries of getRemainingForDepartment *)
LEMMA QueryKeeps ==
    ASSUME DecisionInv, TypeInv', NEW c \in Calls,
           QueryTransactions(c) \/ QueryReservations(c)
    PROVE  DecisionInv'
<1>1. TypeInv /\ pc[c] = "querying"
      /\ UNCHANGED <<requestVars, lock, filer, job, pc>>
  BY DEF DecisionInv, QueryTransactions, QueryReservations
<1>2. \A d \in Calls \ {c} : view'[d] = view[d]
  BY <1>1 DEF QueryTransactions, QueryReservations, TypeInv, TypeOK
<1>3. view'[c].stage = view[c].stage
  BY <1>1 DEF QueryTransactions, QueryReservations, TypeInv, TypeOK, View
<1>4. Undisturbed(c)
  BY <1>1, <1>2 DEF Undisturbed
<1>5. pc'[c] = "querying" /\ {"querying"} \subseteq InFlight \ Recorded
  BY <1>1, Groups
<1>6. Quiet(c)
  BY <1>1, <1>3, <1>5, DecidesOn
<1> QED BY <1>1, <1>4, <1>6, RowKeepsStatus, QuietStep DEF requestVars

LEMMA CompareHeadroomKeeps ==
    ASSUME DecisionInv, TypeInv', NEW c \in Calls, CompareHeadroom(c)
    PROVE  DecisionInv'
<1>1. TypeInv /\ pc[c] = "querying" /\ UNCHANGED <<requestVars, filer, job>>
  BY DEF DecisionInv, CompareHeadroom
<1>2. CASE Finish(c, "refused")
  BY <1>1, <1>2, RefusalKeeps
<1>3. CASE ~Finish(c, "refused")
  <2>1. Goto(c, "recording") /\ UNCHANGED <<lock, view>>
    BY <1>3 DEF CompareHeadroom
  <2>2. Undisturbed(c) /\ pc'[c] = "recording"
    BY <1>1, <2>1, GoesOn
  <2>3. {"querying", "recording"} \subseteq InFlight \ Recorded
    BY Groups
  <2>4. Quiet(c)
    BY <1>1, <2>1, <2>2, <2>3, DecidesOn
  <2> QED BY <1>1, <2>2, <2>4, RowKeepsStatus, QuietStep DEF requestVars
<1> QED BY <1>2, <1>3

(* The writes after the Approval that are not the status: the timeline and  *)
(* the audit log.                                                           *)
LEMMA WriteKeeps ==
    ASSUME DecisionInv, TypeInv', NEW c \in Calls,
           CompleteStage(c) \/ AuditDecision(c) \/ OpenNextStage(c)
    PROVE  DecisionInv'
<1>1. TypeInv /\ pc[c] \in {"completing", "auditing", "opening"}
      /\ UNCHANGED <<row, approvals, lock, filer, job, view>>
  BY DEF DecisionInv, CompleteStage, AuditDecision, OpenNextStage
<1>2. PICK q \in {"routing", "auditing", "opening", "settling"} : Goto(c, q)
  BY DEF CompleteStage, AuditDecision, OpenNextStage
<1>3. Undisturbed(c) /\ pc'[c] = q
  BY <1>1, <1>2, GoesOn
<1>4. {pc[c], q} \subseteq Recorded
  BY <1>1, Groups
<1>5. Quiet(c)
  BY <1>1, <1>3, <1>4, DecidesOn
<1> QED BY <1>1, <1>3, <1>5, RowKeepsStatus, QuietStep

LEMMA RouteToFinanceKeeps ==
    ASSUME DecisionInv, TypeInv', NEW c \in Calls, RouteToFinance(c)
    PROVE  DecisionInv'
<1>1. TypeInv /\ pc[c] = "routing" /\ UNCHANGED <<requestVars, lock, filer, job>>
  BY DEF DecisionInv, RouteToFinance
<1> DEFINE n == IF Covering(view[c].department, view[c].amount) # {}
                THEN "PENDING_FINANCE_APPROVAL" ELSE "ESCALATED"
           v == [view[c] EXCEPT !.next = n]
<1>2. v.stage = view[c].stage /\ v.next \in MoneyStages
  BY <1>1, SameStage DEF TypeInv, TypeOK, MoneyStages
<1>3. Goto(c, "auditing") /\ view' = [view EXCEPT ![c] = v]
  BY DEF RouteToFinance
<1> HIDE DEF v
<1>4. Undisturbed(c) /\ pc'[c] = "auditing" /\ view'[c] = v
  BY <1>1, <1>3, Reads
<1>5. view[c].stage = "PENDING_MANAGER_APPROVAL"
  BY <1>1 DEF TypeInv, Locals, Fits
<1>6. Quiet(c)
  BY <1>1, <1>2, <1>4, <1>5, Groups DEF Quiet
<1> QED BY <1>1, <1>4, <1>6, RowKeepsStatus, QuietStep DEF requestVars

LEMMA CommitKeeps ==
    ASSUME DecisionInv, TypeInv', NEW c \in Calls, Commit(c)
    PROVE  DecisionInv'
<1>1. TypeInv /\ pc[c] = "committing" /\ UNCHANGED <<requestVars, filer, job>>
  BY DEF DecisionInv, Commit
<1>2. CASE Finish(c, "failed")
  <2>1. Undisturbed(c) /\ Quiet(c)
    BY <1>1, <1>2, Places, Groups, Ends
  <2> QED BY <1>1, <2>1, RowKeepsStatus, QuietStep DEF requestVars
<1>3. CASE ~Finish(c, "failed")
  <2>1. lock' = Released(c) /\ Goto(c, "notifying") /\ UNCHANGED view
    BY <1>3 DEF Commit
  <2>2. pc'[c] = "notifying" /\ \A d \in Calls \ {c} : pc'[d] = pc[d]
    BY <1>1, <2>1, Moved
  <2>3. Undisturbed(c)
    BY <1>1, <2>1, <2>2, ReleasedOthers DEF Undisturbed
  <2>4. Quiet(c)
    BY <1>1, <2>2, Groups DEF Quiet
  <2> QED BY <1>1, <2>3, <2>4, RowKeepsStatus, QuietStep DEF requestVars
<1> QED BY <1>2, <1>3

(* Telling the requester, after a decision, a payment or a note *)
LEMMA NotifyKeeps ==
    ASSUME DecisionInv, TypeInv', NEW c \in Calls,
           NotifyDecision(c) \/ NotifyPayment(c) \/ NotifyNote(c)
    PROVE  DecisionInv'
<1>1. TypeInv /\ pc[c] \in {"notifying", "notifyingProof", "notifyingNote"}
      /\ UNCHANGED <<row, approvals, filer, job>> /\ Finish(c, "done")
  BY DEF DecisionInv, NotifyDecision, NotifyPayment, NotifyNote
<1>2. Undisturbed(c) /\ Quiet(c)
  BY <1>1, Places, Groups, Ends
<1> QED BY <1>1, <1>2, RowKeepsStatus, QuietStep

-----------------------------------------------------------------------------
(* attachProof and progress notes decide nothing, and find requests that    *)
(* have been filed.                                                         *)

LEMMA FiledFor ==
    ASSUME FiledFirst, NEW r \in Requests,
           row[r].status \notin {"UNFILED", "PENDING_POLICY_CHECK"}
    PROVE  filer[r].pc = "done"
BY DEF FiledFirst

LEMMA StartProofKeeps ==
    ASSUME DecisionInv, TypeInv', NEW c \in Calls, StartProof(c)
    PROVE  DecisionInv'
<1>1. TypeInv /\ pc[c] = "idle"
  BY DEF DecisionInv, StartProof, Begin
<1>2. pc'[c] = "readingProof" /\ \A d \in Calls \ {c} : pc'[d] = pc[d]
  BY <1>1, Moved DEF StartProof
<1>3. \A d \in Calls \ {c} : job'[d] = job[d] /\ view'[d] = view[d]
  BY <1>1 DEF StartProof, TypeInv, TypeOK
<1>4. Undisturbed(c)
  BY <1>2, <1>3 DEF Undisturbed, StartProof
<1>5. pc'[c] \notin Deciding \cup Noting \cup {"idle", "waiting"}
  BY <1>2 DEF Deciding, Noting
<1>6. Quiet(c)
  BY <1>1, <1>2, <1>5, Groups DEF Quiet
<1> QED BY <1>4, <1>6, RowKeepsStatus, QuietStep DEF StartProof, requestVars

LEMMA StartNoteKeeps ==
    ASSUME DecisionInv, TypeInv', NEW c \in Calls, StartNote(c)
    PROVE  DecisionInv'
<1>1. TypeInv /\ FiledFirst /\ pc[c] = "idle"
  BY DEF DecisionInv, StartNote, Begin
<1>2. PICK r \in Requests, u \in Users, x \in {"RESOLVED", "UPDATE"} :
        /\ row[r].status \in OpenRoutedStatuses
        /\ job' = [job EXCEPT ![c] = [op |-> "note", req |-> r, by |-> u, asked |-> x]]
  BY DEF StartNote
<1>3. pc'[c] = "readingNote" /\ \A d \in Calls \ {c} : pc'[d] = pc[d]
  BY <1>1, Moved DEF StartNote
<1>4. Undisturbed(c)
  BY <1>1, <1>2, <1>3 DEF Undisturbed, StartNote, TypeInv, TypeOK
<1>5. job'[c].req = r
  BY <1>1, <1>2 DEF TypeInv, TypeOK
<1>6. filer[r].pc = "done"
  BY <1>1, <1>2, FiledFor DEF OpenRoutedStatuses
<1>7. pc'[c] \notin Deciding \cup {"idle", "waiting"}
  BY <1>3, Groups DEF Noting
<1>8. Quiet(c)
  BY <1>1, <1>3, <1>5, <1>6, <1>7, Groups DEF Quiet
<1> QED BY <1>4, <1>8, RowKeepsStatus, QuietStep DEF StartNote, requestVars

LEMMA ReadForProofKeeps ==
    ASSUME DecisionInv, TypeInv', NEW c \in Calls, ReadForProof(c)
    PROVE  DecisionInv'
<1>1. TypeInv /\ FiledFirst /\ pc[c] = "readingProof"
      /\ UNCHANGED <<requestVars, filer, job>>
  BY DEF DecisionInv, ReadForProof
<1>2. CASE Finish(c, "refused")
  BY <1>1, <1>2, RefusalKeeps
<1>3. CASE ~Finish(c, "refused")
  <2>1. Payable(Req(c)) /\ Goto(c, "uploading") /\ UNCHANGED <<lock, view>>
    BY <1>3 DEF ReadForProof
  <2>2. Undisturbed(c) /\ pc'[c] = "uploading"
    BY <1>1, <2>1, GoesOn
  <2>3. filer[Req(c)].pc = "done"
    BY <1>1, <2>1, InFlightTypes, FiledFor DEF Payable, Proving
  <2>4. "uploading" \in Proving /\ "readingProof" \in Proving
    BY DEF Proving
  <2>5. {"uploading", "readingProof"} \cap (Deciding \cup {"idle", "waiting"}) = {}
    BY <2>4, Groups
  <2>6. Quiet(c)
    BY <1>1, <2>2, <2>3, <2>5, Groups DEF Quiet, Req
  <2> QED BY <1>1, <2>2, <2>6, RowKeepsStatus, QuietStep DEF requestVars
<1> QED BY <1>2, <1>3

LEMMA ReadForNoteKeeps ==
    ASSUME DecisionInv, TypeInv', NEW c \in Calls, ReadForNote(c)
    PROVE  DecisionInv'
<1>1. TypeInv /\ FiledFirst /\ pc[c] = "readingNote"
      /\ UNCHANGED <<requestVars, filer, job>>
  BY DEF DecisionInv, ReadForNote
<1>2. CASE Finish(c, "refused")
  BY <1>1, <1>2, RefusalKeeps
<1>3. CASE ~Finish(c, "refused")
  <2>1. Goto(c, "writingNote") /\ UNCHANGED <<lock, view>>
    BY <1>3 DEF ReadForNote
  <2>2. Undisturbed(c) /\ pc'[c] = "writingNote"
    BY <1>1, <2>1, GoesOn
  <2>3. {"readingNote", "writingNote"} \subseteq Noting
    BY DEF Noting
  <2>4. Quiet(c)
    BY <1>1, <2>2, <2>3, WorksOn
  <2> QED BY <1>1, <2>2, <2>4, RowKeepsStatus, QuietStep DEF requestVars
<1> QED BY <1>2, <1>3

(* The files, the step and the audit entry of a proof *)
LEMMA ProofWriteKeeps ==
    ASSUME DecisionInv, TypeInv', NEW c \in Calls,
           AttachFile(c) \/ TracePayment(c) \/ AuditPayment(c)
    PROVE  DecisionInv'
<1>1. TypeInv /\ FiledFirst /\ pc[c] \in {"uploading", "tracing", "auditingProof"}
      /\ UNCHANGED <<row, approvals, lock, filer, job>>
  BY DEF DecisionInv, AttachFile, TracePayment, AuditPayment
<1>2. PICK q \in {"uploading", "tracing", "auditingProof", "settlingProof"} : Goto(c, q)
  BY DEF AttachFile, TracePayment, AuditPayment
<1>3. \A d \in Calls \ {c} : view'[d] = view[d]
  BY <1>1 DEF AttachFile, TracePayment, AuditPayment, TypeInv, TypeOK
<1>4. pc'[c] = q /\ Undisturbed(c)
  BY <1>1, <1>2, <1>3, Moved DEF Undisturbed
<1>5. {pc[c], q} \subseteq Proving \ {"readingProof"}
  BY <1>1 DEF Proving
<1>6. Quiet(c)
  BY <1>1, <1>4, <1>5, WorksOn
<1> QED BY <1>1, <1>4, <1>6, RowKeepsStatus, QuietStep

(* A proof or a note that closes its request *)
LEMMA ClosingKeeps ==
    ASSUME DecisionInv, TypeInv', NEW c \in Calls,
           SettlePayment(c) \/ WriteNote(c)
    PROVE  DecisionInv'
<1>1. TypeInv /\ FiledFirst /\ pc[c] \in {"settlingProof", "writingNote"}
      /\ UNCHANGED <<approvals, lock, filer, job, view>>
  BY DEF DecisionInv, SettlePayment, WriteNote
<1>2. PICK q \in {"notifyingProof", "notifyingNote", "done"} : Goto(c, q)
  BY DEF SettlePayment, WriteNote
<1>3. pc'[c] = q /\ Undisturbed(c)
  BY <1>1, <1>2, GoesOn
<1>4. pc[c] \in (Proving \ {"readingProof"}) \cup Noting /\ q \in Proving \cup Noting \cup Over
  BY <1>1 DEF Proving, Noting, Over
<1>5. Quiet(c)
  BY <1>1, <1>3, <1>4, WorksOn
<1>6. filer[Req(c)].pc = "done"
  BY <1>1, <1>4 DEF FiledFirst
<1>7. ASSUME NEW r \in Requests PROVE KeptOrClosed(r)
  <2>1. CASE UNCHANGED row
    BY <2>1 DEF KeptOrClosed
  <2>2. CASE SetStatus(Req(c), "COMPLETED")
    <3>1. r # Req(c) => row'[r] = row[r]
      BY <1>1, <2>2 DEF SetStatus, TypeInv, TypeOK
    <3>2. r = Req(c) => row'[r].status = "COMPLETED"
      BY <1>1, <2>2 DEF SetStatus, TypeInv, TypeOK, Row
    <3> QED BY <1>6, <3>1, <3>2 DEF KeptOrClosed, PendingStatuses
  <2> QED BY <2>1, <2>2 DEF SettlePayment, WriteNote
<1> QED BY <1>1, <1>3, <1>5, <1>7, QuietStep

-----------------------------------------------------------------------------
(* Filing: nobody works on the request yet. *)

(* No call is touched. *)
LEMMA FilingKeeps ==
    ASSUME DecisionInv, TypeInv', NEW r \in Requests, filer[r].pc # "done",
           UNCHANGED <<approvals, lock, job, pc, view>>,
           \A x \in Requests \ {r} : row'[x] = row[x] /\ filer'[x] = filer[x],
           filer'[r].pc # "none" /\ row'[r].status # "UNFILED",
           filer'[r].pc # "done" => row'[r].status = "PENDING_POLICY_CHECK"
    PROVE  DecisionInv'
<1>1. TypeInv /\ FiledFirst /\ LockHeld /\ OneApprovalPerCall /\ Onwards
      /\ EarlierDecisions /\ OpenDecisions /\ OneApprovalPerStage
  BY DEF DecisionInv
<1>2. ASSUME NEW a \in approvals PROVE a.req # r /\ a.req \in Requests
  BY <1>1, <1>2, ApprovalTypes DEF FiledFirst
<1>3. FiledFirst'
  <2>1. ASSUME NEW x \in Requests
        PROVE  /\ row'[x].status = "UNFILED" => filer'[x].pc = "none"
               /\ filer'[x].pc # "done" =>
                    row'[x].status \in {"UNFILED", "PENDING_POLICY_CHECK"}
    BY <1>1, <2>1 DEF FiledFirst
  <2>2. ASSUME NEW c \in Calls,
               pc[c] \in InFlight \cup (Proving \ {"readingProof"}) \cup Noting
        PROVE  filer'[Req(c)].pc = "done"
    <3>1. filer[Req(c)].pc = "done" /\ Req(c) # r
      BY <1>1, <2>2 DEF FiledFirst
    <3>2. Req(c) \in Requests
      BY <1>1, <2>2, InFlightTypes, Groups
    <3> QED BY <3>1, <3>2
  <2>3. \A a \in approvals : filer'[a.req].pc = "done"
    BY <1>1, <1>2 DEF FiledFirst
  <2> QED BY <2>1, <2>2, <2>3 DEF FiledFirst, Req
<1>4. LockHeld' /\ OneApprovalPerCall' /\ Onwards' /\ EarlierDecisions' /\ OneApprovalPerStage'
  BY <1>1 DEF LockHeld, OneApprovalPerCall, Onwards, EarlierDecisions, PassedOn,
              OneApprovalPerStage, Req
<1>5. OpenDecisions'
  BY <1>1, <1>2 DEF OpenDecisions, PassedOn
<1> QED BY <1>3, <1>4, <1>5 DEF DecisionInv

LEMMA FileKeeps ==
    ASSUME DecisionInv, TypeInv', NEW r \in Requests, File(r)
    PROVE  DecisionInv'
<1>1. TypeInv /\ FiledFirst
  BY DEF DecisionInv
<1>2. filer[r].pc # "done"
  BY <1>1 DEF FiledFirst, File
<1>3. \A x \in Requests \ {r} : row'[x] = row[x] /\ filer'[x] = filer[x]
  BY <1>1 DEF File, TypeInv, TypeOK
<1>4. row'[r].status = "PENDING_POLICY_CHECK" /\ filer'[r].pc \in {"ingesting", "checking"}
  <2>1. PICK f \in Filings :
          LET live == IF f.routed # NoRole THEN catalog[f.routed] = "live" ELSE FALSE
          IN  /\ row' = [row EXCEPT ![r] =
                           [status        |-> "PENDING_POLICY_CHECK",
                            requester     |-> f.requester,
                            stated        |-> f.stated,
                            budget        |-> f.budget,
                            routed        |-> IF live THEN f.routed ELSE NoRole,
                            needsApproval |-> live /\ f.needsApproval]]
              /\ filer' = [filer EXCEPT ![r] =
                             [pc |-> IF f.files > 0 THEN "ingesting" ELSE "checking",
                              left |-> f.files, next |-> "UNFILED"]]
    BY DEF File
  <2>2. row'[r].status = "PENDING_POLICY_CHECK"
    BY <1>1, <2>1 DEF TypeInv, TypeOK
  <2>3. filer'[r].pc = IF f.files > 0 THEN "ingesting" ELSE "checking"
    BY <1>1, <2>1 DEF TypeInv, TypeOK
  <2> QED BY <2>2, <2>3
<1> QED BY <1>2, <1>3, <1>4, FilingKeeps DEF File

LEMMA FilerStepKeeps ==
    ASSUME DecisionInv, TypeInv', NEW r \in Requests,
           Ingest(r) \/ CheckPolicy(r) \/ OpenFirstStage(r)
    PROVE  DecisionInv'
<1>1. TypeInv /\ FiledFirst
  BY DEF DecisionInv
<1>2. filer[r].pc \in {"ingesting", "checking", "opening"}
      /\ UNCHANGED <<row, approvals, lock, job, pc, view>>
  BY DEF Ingest, CheckPolicy, OpenFirstStage
<1>3. \A x \in Requests \ {r} : filer'[x] = filer[x]
  BY <1>1 DEF Ingest, CheckPolicy, OpenFirstStage, TypeInv, TypeOK
<1>4. filer'[r].pc \in {"ingesting", "checking", "opening", "settling"}
  <2>1. filer[r] \in Filer /\ r \in DOMAIN filer
    BY <1>1 DEF TypeInv, TypeOK
  <2>2. CASE Ingest(r)
    <3>1. filer'[r] = [filer[r] EXCEPT !.left = filer[r].left - 1,
                         !.pc = IF filer[r].left = 1 THEN "checking" ELSE filer[r].pc]
      BY <2>1, <2>2 DEF Ingest
    <3> QED BY <1>2, <2>1, <3>1 DEF Filer
  <2>3. CASE CheckPolicy(r)
    BY <2>1, <2>3 DEF CheckPolicy, Filer
  <2>4. CASE OpenFirstStage(r)
    BY <2>1, <2>4 DEF OpenFirstStage, Filer
  <2> QED BY <2>2, <2>3, <2>4
<1>5. row[r].status = "PENDING_POLICY_CHECK"
  BY <1>1, <1>2 DEF FiledFirst
<1> QED BY <1>2, <1>3, <1>4, <1>5, FilingKeeps

LEMMA SettleFilingKeeps ==
    ASSUME DecisionInv, TypeInv', NEW r \in Requests, SettleFiling(r)
    PROVE  DecisionInv'
<1>1. TypeInv
  BY DEF DecisionInv
<1>2. filer[r].pc = "settling" /\ filer[r].next \in DOMAIN AwaitingStep
  BY <1>1 DEF SettleFiling, TypeInv, Locals, FilerFits
<1>3. \A x \in Requests \ {r} : row'[x] = row[x] /\ filer'[x] = filer[x]
  BY <1>1 DEF SettleFiling, SetStatus, TypeInv, TypeOK
<1>4. row'[r].status = filer[r].next /\ filer'[r].pc = "done"
  BY <1>1 DEF SettleFiling, SetStatus, TypeInv, TypeOK, Row, Filer
<1>5. row'[r].status # "UNFILED"
  BY <1>2, <1>4 DEF AwaitingStep
<1> QED BY <1>2, <1>3, <1>4, <1>5, FilingKeeps DEF SettleFiling

-----------------------------------------------------------------------------
(* Administration leaves statuses, calls and approvals alone. *)

LEMMA AdminKeeps ==
    ASSUME DecisionInv, TypeInv', UNCHANGED <<approvals, callVars>>,
           \A r \in Requests : row'[r].status = row[r].status
    PROVE  DecisionInv'
<1>1. TypeInv /\ FiledFirst /\ LockHeld /\ OneApprovalPerCall /\ Onwards
      /\ EarlierDecisions /\ OpenDecisions /\ OneApprovalPerStage
  BY DEF DecisionInv
<1>2. FiledFirst'
  BY <1>1 DEF FiledFirst, Req, callVars
<1>3. LockHeld' /\ OneApprovalPerCall' /\ Onwards' /\ EarlierDecisions' /\ OneApprovalPerStage'
  BY <1>1 DEF LockHeld, OneApprovalPerCall, Onwards, EarlierDecisions, PassedOn,
              OneApprovalPerStage, Req, callVars
<1>4. OpenDecisions'
  BY <1>1, ApprovalTypes DEF OpenDecisions, PassedOn, callVars
<1> QED BY <1>2, <1>3, <1>4 DEF DecisionInv

LEMMA DirectoryKeeps ==
    ASSUME DecisionInv, TypeInv',
           \/ \E s, t \in Scopes : RenameBudget(s, t)
           \/ \E e \in EmployeeRoles : RemoveRole(e)
           \/ Administer
    PROVE  DecisionInv'
<1>1. TypeInv
  BY DEF DecisionInv
<1>2. UNCHANGED <<approvals, callVars>>
  BY DEF RenameBudget, RemoveRole, Administer, requestVars
<1>3. ASSUME NEW r \in Requests PROVE row'[r].status = row[r].status
  <2>1. row[r] \in Row
    BY <1>1 DEF TypeInv, TypeOK
  <2>2. CASE \E s, t \in Scopes : RenameBudget(s, t)
    BY <2>1, <2>2 DEF RenameBudget, RowRenamed, Row
  <2>3. CASE \E e \in EmployeeRoles : RemoveRole(e)
    BY <2>1, <2>3 DEF RemoveRole, Row
  <2>4. CASE Administer
    BY <2>4 DEF Administer, requestVars
  <2> QED BY <2>2, <2>3, <2>4
<1> QED BY <1>2, <1>3, AdminKeeps

-----------------------------------------------------------------------------
(* The three steps that make a decision: the lock, the Approval, the status *)

(* No call is inside a decision on the request when the lock is granted, so *)
(* whatever was decided on it led to the status that is read.               *)
LEMMA LockAndReadKeeps ==
    ASSUME DecisionInv, TypeInv', NEW c \in Calls, LockAndRead(c)
    PROVE  DecisionInv'
<1>1. TypeInv /\ FiledFirst /\ LockHeld /\ OneApprovalPerCall /\ Onwards
      /\ EarlierDecisions /\ OpenDecisions /\ OneApprovalPerStage
  BY DEF DecisionInv
<1>2. pc[c] = "waiting" /\ lock[Req(c)] = NoCall /\ UNCHANGED <<requestVars, filer, job>>
  BY DEF LockAndRead, LockFree
<1>3. CASE Finish(c, "refused")
  BY <1>2, <1>3, RefusalKeeps
<1>4. CASE ~Finish(c, "refused")
  <2>1. /\ row[Req(c)].status \in PendingStatuses
        /\ lock' = [lock EXCEPT ![Req(c)] = c]
        /\ view' = [view EXCEPT ![c] = Snapshot(Req(c))]
        /\ Goto(c, "authorising")
    BY <1>4 DEF LockAndRead
  <2>2. Req(c) \in Requests
    BY <1>1, <1>2, JobTypes DEF Deciders
  <2>3. Snapshot(Req(c)).stage = row[Req(c)].status
    BY DEF Snapshot, EmptyView
  <2>4. pc'[c] = "authorising" /\ \A d \in Calls \ {c} : pc'[d] = pc[d]
    BY <1>1, <2>1, Moved
  <2>5. view'[c].stage = row[Req(c)].status /\ \A d \in Calls \ {c} : view'[d] = view[d]
    BY <1>1, <2>1, <2>3 DEF TypeInv, TypeOK
  <2>6. "authorising" \in InFlight \ Recorded
    BY Groups
  <2>7. UNCHANGED <<row, approvals, filer, job>> /\ \A d \in Calls : Req(d)' = Req(d)
    BY <1>2 DEF requestVars, Req
  <2>8. ASSUME NEW a \in approvals PROVE a.call \in Calls \ {c} /\ a.req \in Requests
    BY <1>1, <1>2, <2>8, ApprovalTypes DEF OneApprovalPerCall
  <2>9. FiledFirst'
    <3>1. filer[Req(c)].pc = "done"
      BY <1>1, <2>1, <2>2, FiledFor DEF PendingStatuses
    <3>2. ASSUME NEW d \in Calls,
                 pc'[d] \in InFlight \cup (Proving \ {"readingProof"}) \cup Noting
          PROVE  filer[Req(d)].pc = "done"
      BY <1>1, <2>4, <3>1, <3>2 DEF FiledFirst
    <3> QED BY <1>1, <2>7, <3>2 DEF FiledFirst
  <2>10. LockHeld'
    <3> SUFFICES ASSUME NEW d \in Calls, pc'[d] \in Deciding PROVE lock'[Req(d)] = d
      BY <2>7 DEF LockHeld
    <3>1. CASE d # c
      <4>1. Req(d) \in Requests /\ lock[Req(d)] = d
        BY <1>1, <2>4, <3>1, InFlightTypes DEF LockHeld
      <4>2. Req(d) # Req(c)
        BY <1>2, <4>1, CallsType
      <4> QED BY <1>1, <2>1, <2>2, <4>1, <4>2 DEF TypeInv, TypeOK
    <3>2. CASE d = c
      BY <1>1, <2>1, <2>2, <3>2 DEF TypeInv, TypeOK
    <3> QED BY <3>1, <3>2
  <2>11. OneApprovalPerCall'
    BY <1>1, <2>4, <2>5, <2>7, <2>8 DEF OneApprovalPerCall
  <2>12. Onwards'
    BY <1>1, <2>4, <2>5, <2>6 DEF Onwards
  <2>13. EarlierDecisions'
    <3> SUFFICES ASSUME NEW d \in Calls, NEW a \in approvals,
                        pc'[d] \in InFlight, a.req = Req(d), a.call # d
                 PROVE  PassedOn(a, view'[d].stage)
      BY <2>7 DEF EarlierDecisions, PassedOn
    <3>1. CASE d # c
      BY <1>1, <2>4, <2>5, <3>1 DEF EarlierDecisions
    <3>2. CASE d = c
      <4>1. pc[a.call] \notin Recorded
        <5> SUFFICES ASSUME pc[a.call] \in Recorded PROVE FALSE
          OBVIOUS
        <5>1. a.req = Req(a.call) /\ lock[Req(a.call)] = a.call
          BY <1>1, <2>8, Groups DEF OneApprovalPerCall, LockHeld
        <5> QED BY <1>2, <2>8, <3>2, <5>1, CallsType
      <4>2. PassedOn(a, row[Req(c)].status)
        BY <1>1, <2>1, <3>2, <4>1 DEF OpenDecisions
      <4> QED BY <2>5, <3>2, <4>2
    <3> QED BY <3>1, <3>2
  <2>14. OpenDecisions'
    BY <1>1, <2>4, <2>7, <2>8 DEF OpenDecisions, PassedOn
  <2>15. OneApprovalPerStage'
    BY <1>1, <2>7 DEF OneApprovalPerStage
  <2> QED BY <2>9, <2>10, <2>11, <2>12, <2>13, <2>14, <2>15 DEF DecisionInv
<1> QED BY <1>3, <1>4

(* The new Approval is the first of its stage: earlier ones of the request  *)
(* are the manager's, and this one is taken at a stage after the manager's. *)
LEMMA RecordApprovalKeeps ==
    ASSUME DecisionInv, TypeInv', NEW c \in Calls, RecordApproval(c)
    PROVE  DecisionInv'
<1>1. TypeInv /\ FiledFirst /\ LockHeld /\ OneApprovalPerCall /\ Onwards
      /\ EarlierDecisions /\ OpenDecisions /\ OneApprovalPerStage
  BY DEF DecisionInv
<1> DEFINE n == [call |-> c, req |-> Req(c), stage |-> view[c].stage, by |-> Actor(c),
                 decision |-> job[c].asked,
                 amount |-> IF view[c].stage = "PENDING_ROLE_APPROVAL" THEN 0
                            ELSE view[c].amount,
                 delegated |-> view[c].matched]
           s == DecidedStatus(view[c].stage, job[c].asked, view[c].amount, view[c].verified)
           v == [view[c] EXCEPT !.next = s]
<1>2. /\ pc[c] = "recording" /\ Goto(c, "completing")
      /\ approvals' = approvals \cup {n}
      /\ view' = [view EXCEPT ![c] = v]
      /\ UNCHANGED <<row, lock, filer, job>>
  BY DEF RecordApproval
<1>3. n.call = c /\ n.req = Req(c) /\ n.stage = view[c].stage
  OBVIOUS
<1>4. s \in Statuses \ PendingStatuses /\ s # "UNFILED"
  BY DecidedStatuses DEF DecidedStatus
<1>5. v.stage = view[c].stage /\ v.next = s
  BY <1>1, SameStage DEF TypeInv, TypeOK
<1> HIDE DEF n, s, v
<1>6. pc'[c] = "completing" /\ \A d \in Calls \ {c} : pc'[d] = pc[d]
  BY <1>1, <1>2, Moved
<1>7. /\ view'[c].stage = view[c].stage /\ view'[c].next = s
      /\ \A d \in Calls \ {c} : view'[d] = view[d]
  BY <1>1, <1>2, <1>5 DEF TypeInv, TypeOK
<1>8. \A d \in Calls : Req(d)' = Req(d)
  BY <1>2 DEF Req
<1>9. pc[c] \in InFlight \ Recorded /\ pc'[c] \in Recorded /\ pc'[c] \in InFlight
  BY <1>2, <1>6, Groups
<1>10. ASSUME NEW a \in approvals PROVE a.call \in Calls \ {c} /\ a.req \in Requests
  BY <1>1, <1>9, <1>10, ApprovalTypes DEF OneApprovalPerCall
<1>11. ASSUME NEW a \in approvals, a.req = Req(c) PROVE PassedOn(a, view[c].stage)
  BY <1>1, <1>9, <1>10, <1>11 DEF EarlierDecisions
<1>12. FiledFirst'
  <2>1. filer[Req(c)].pc = "done"
    BY <1>1, <1>9 DEF FiledFirst
  <2>2. ASSUME NEW d \in Calls,
               pc'[d] \in InFlight \cup (Proving \ {"readingProof"}) \cup Noting
        PROVE  filer[Req(d)].pc = "done"
    BY <1>1, <1>6, <2>1, <2>2 DEF FiledFirst
  <2>3. \A a \in approvals' : filer[a.req].pc = "done"
    BY <1>1, <1>2, <1>3, <2>1 DEF FiledFirst
  <2> QED BY <1>1, <1>2, <1>8, <2>2, <2>3 DEF FiledFirst
<1>13. LockHeld'
  <2>1. pc[c] \in Deciding
    BY <1>9, Groups
  <2> QED BY <1>1, <1>2, <1>6, <1>8, <2>1 DEF LockHeld
<1>14. OneApprovalPerCall'
  <2> SUFFICES ASSUME NEW a \in approvals'
               PROVE  /\ pc'[a.call] \notin InFlight \ Recorded
                      /\ pc'[a.call] \notin {"idle", "waiting"}
                      /\ a.req = Req(a.call)
                      /\ pc'[a.call] \in Recorded => a.stage = view'[a.call].stage
                      /\ \A b \in approvals' : a.call = b.call => a = b
    BY <1>2, <1>3, <1>8, <1>10 DEF OneApprovalPerCall
  <2>1. CASE a \in approvals
    BY <1>1, <1>2, <1>3, <1>6, <1>7, <1>10, <2>1 DEF OneApprovalPerCall
  <2>2. CASE a = n
    BY <1>2, <1>3, <1>6, <1>7, <1>9, <1>10, <2>2
  <2> QED BY <1>2, <2>1, <2>2
<1>15. Onwards'
  BY <1>1, <1>4, <1>6, <1>7 DEF Onwards
<1>16. EarlierDecisions'
  <2> SUFFICES ASSUME NEW d \in Calls, NEW a \in approvals',
                      pc'[d] \in InFlight, a.req = Req(d), a.call # d
               PROVE  PassedOn(a, view'[d].stage)
    BY <1>8 DEF EarlierDecisions, PassedOn
  <2>1. CASE d # c /\ a \in approvals
    BY <1>1, <1>6, <1>7, <2>1 DEF EarlierDecisions
  <2>2. CASE d # c /\ a = n
    <3>1. pc[d] \in Deciding /\ pc[c] \in Deciding
      BY <1>6, <1>9, <2>2, Groups
    <3>2. lock[Req(d)] = d /\ lock[Req(c)] = c
      BY <1>1, <3>1 DEF LockHeld
    <3> QED BY <1>3, <2>2, <3>2
  <2>3. CASE d = c
    <3>1. a \in approvals
      BY <1>2, <1>3, <2>3
    <3> QED BY <1>7, <1>11, <2>3, <3>1
  <2> QED BY <1>2, <2>1, <2>2, <2>3
<1>17. OpenDecisions'
  <2> SUFFICES ASSUME NEW a \in approvals',
                      row[a.req].status \in PendingStatuses, pc'[a.call] \notin Recorded
               PROVE  PassedOn(a, row[a.req].status)
    BY <1>2 DEF OpenDecisions, PassedOn
  <2>1. a \in approvals
    BY <1>2, <1>3, <1>9
  <2> QED BY <1>1, <1>6, <1>10, <2>1 DEF OpenDecisions
<1>18. OneApprovalPerStage'
  <2>1. ASSUME NEW a \in approvals, a.req = Req(c) PROVE a.stage # view[c].stage
    BY <1>11, <2>1 DEF PassedOn, MoneyStages
  <2> QED BY <1>1, <1>2, <1>3, <2>1 DEF OneApprovalPerStage
<1> QED BY <1>12, <1>13, <1>14, <1>15, <1>16, <1>17, <1>18 DEF DecisionInv

(* The status that is written waits for another decision only if this was   *)
(* the manager's, and then it is the only one so far.                       *)
LEMMA SettleDecisionKeeps ==
    ASSUME DecisionInv, TypeInv', NEW c \in Calls, SettleDecision(c)
    PROVE  DecisionInv'
<1>1. TypeInv /\ FiledFirst /\ LockHeld /\ OneApprovalPerCall /\ Onwards
      /\ EarlierDecisions /\ OpenDecisions /\ OneApprovalPerStage
  BY DEF DecisionInv
<1>2. /\ pc[c] = "settling" /\ Goto(c, "committing")
      /\ row' = [row EXCEPT ![Req(c)].status = view[c].next]
      /\ UNCHANGED <<approvals, lock, filer, job, view>>
  BY DEF SettleDecision, SetStatus
<1>3. pc[c] \in Recorded /\ pc[c] \in InFlight /\ pc[c] \in Deciding
  BY <1>2, Groups
<1>4. Req(c) \in Requests
  BY <1>1, <1>3, InFlightTypes
<1>5. /\ row'[Req(c)].status = view[c].next
      /\ \A r \in Requests \ {Req(c)} : row'[r] = row[r]
  BY <1>1, <1>2, <1>4 DEF TypeInv, TypeOK, Row
<1>6. pc'[c] = "committing" /\ \A d \in Calls \ {c} : pc'[d] = pc[d]
  BY <1>1, <1>2, Moved
<1>7. pc'[c] \notin InFlight \cup Proving \cup Noting \cup {"idle", "waiting"}
  BY <1>6 DEF InFlight, Deciding, Proving, Noting
<1>8. \A d \in Calls : Req(d)' = Req(d)
  BY <1>2 DEF Req
<1>9. ASSUME NEW a \in approvals PROVE a.call \in Calls /\ a.req \in Requests
  BY <1>1, <1>9, ApprovalTypes
<1>10. FiledFirst'
  <2>1. filer[Req(c)].pc = "done" /\ view[c].next # "UNFILED"
    BY <1>1, <1>3 DEF FiledFirst, Onwards
  <2>2. ASSUME NEW r \in Requests
        PROVE  /\ row'[r].status = "UNFILED" => filer[r].pc = "none"
               /\ filer[r].pc # "done" =>
                    row'[r].status \in {"UNFILED", "PENDING_POLICY_CHECK"}
    BY <1>1, <1>5, <2>1 DEF FiledFirst
  <2>3. ASSUME NEW d \in Calls,
               pc'[d] \in InFlight \cup (Proving \ {"readingProof"}) \cup Noting
        PROVE  filer[Req(d)].pc = "done"
    BY <1>1, <1>6, <1>7, <2>3 DEF FiledFirst
  <2> QED BY <1>1, <1>2, <1>8, <2>2, <2>3 DEF FiledFirst
<1>11. LockHeld'
  BY <1>1, <1>2, <1>3, <1>6, <1>8 DEF LockHeld
<1>12. OneApprovalPerCall'
  BY <1>1, <1>2, <1>6, <1>7, <1>8, <1>9, Groups DEF OneApprovalPerCall
<1>13. Onwards'
  BY <1>1, <1>2, <1>6, <1>7, Groups DEF Onwards
<1>14. EarlierDecisions'
  BY <1>1, <1>2, <1>6, <1>7, <1>8 DEF EarlierDecisions, PassedOn
<1>15. OpenDecisions'
  <2> SUFFICES ASSUME NEW a \in approvals,
                      row'[a.req].status \in PendingStatuses, pc'[a.call] \notin Recorded
               PROVE  PassedOn(a, row'[a.req].status)
    BY <1>2 DEF OpenDecisions, PassedOn
  <2>1. CASE a.req # Req(c)
    <3>1. a.call # c
      BY <1>1, <2>1 DEF OneApprovalPerCall
    <3> QED BY <1>1, <1>5, <1>6, <1>9, <2>1, <3>1 DEF OpenDecisions
  <2>2. CASE a.req = Req(c)
    <3>1. /\ view[c].stage = "PENDING_MANAGER_APPROVAL"
          /\ view[c].next \in MoneyStages
      BY <1>1, <1>3, <1>5, <2>2 DEF Onwards
    <3>2. CASE a.call = c
      BY <1>1, <1>3, <1>5, <2>2, <3>1, <3>2 DEF OneApprovalPerCall, PassedOn
    <3>3. CASE a.call # c
      BY <1>1, <1>3, <2>2, <3>1, <3>3 DEF EarlierDecisions, PassedOn, MoneyStages
    <3> QED BY <3>2, <3>3
  <2> QED BY <2>1, <2>2
<1>16. OneApprovalPerStage'
  BY <1>1, <1>2 DEF OneApprovalPerStage
<1> QED BY <1>10, <1>11, <1>12, <1>13, <1>14, <1>15, <1>16 DEF DecisionInv

-----------------------------------------------------------------------------
(* The invariant, and what follows from it *)

LEMMA DecisionInit == Init => DecisionInv
<1> SUFFICES ASSUME Init PROVE DecisionInv
  OBVIOUS
<1>1. TypeInv
  BY TypeInit
<1>2. approvals = {} /\ \A c \in Calls : pc[c] = "idle"
  BY DEF Init
<1>3. "idle" \notin Deciding \cup Proving \cup Noting \cup InFlight \cup Recorded
  BY DEF Deciding, Proving, Noting, InFlight, Recorded
<1>4. FiledFirst
  BY <1>2, <1>3 DEF Init, NoRow, FiledFirst
<1> QED BY <1>1, <1>2, <1>3, <1>4 DEF DecisionInv, LockHeld, OneApprovalPerCall,
           Onwards, EarlierDecisions, OpenDecisions, OneApprovalPerStage

LEMMA DecisionStutter ==
    ASSUME DecisionInv, TypeInv', UNCHANGED vars
    PROVE  DecisionInv'
BY AdminKeeps DEF vars, requestVars

LEMMA DecisionStep ==
    ASSUME FaultKinds = {}
    PROVE  DecisionInv /\ [Next]_vars => DecisionInv'
<1> SUFFICES ASSUME DecisionInv, [Next]_vars PROVE DecisionInv'
  OBVIOUS
<1>0. TypeInv'
  BY TypeStep DEF DecisionInv
<1>1. ASSUME NEW r \in Requests, File(r) \/ FilerStep(r) \/ FailFiling(r)
      PROVE  DecisionInv'
  BY <1>0, <1>1, FileKeeps, FilerStepKeeps, SettleFilingKeeps DEF FilerStep, FailFiling
<1>2. ASSUME NEW c \in Calls, StartDecide(c) \/ LockAndRead(c)
      PROVE  DecisionInv'
  BY <1>0, <1>2, StartDecideKeeps, LockAndReadKeeps
<1>3. ASSUME NEW c \in Calls, DecideStep(c)
      PROVE  DecisionInv'
  BY <1>0, <1>3, AuthoriseKeeps, ReadBudgetKeeps, QueryKeeps, CompareHeadroomKeeps,
     RecordApprovalKeeps, WriteKeeps, RouteToFinanceKeeps, SettleDecisionKeeps,
     CommitKeeps, NotifyKeeps DEF DecideStep
<1>4. ASSUME NEW c \in Calls, StartProof(c) \/ ProofStep(c)
      PROVE  DecisionInv'
  BY <1>0, <1>4, StartProofKeeps, ReadForProofKeeps, ProofWriteKeeps, ClosingKeeps,
     NotifyKeeps DEF ProofStep
<1>5. ASSUME NEW c \in Calls, StartNote(c) \/ NoteStep(c)
      PROVE  DecisionInv'
  BY <1>0, <1>5, StartNoteKeeps, ReadForNoteKeeps, ClosingKeeps, NotifyKeeps DEF NoteStep
<1>6. ASSUME NEW c \in Calls, Fail(c) \/ TimeOut(c)
      PROVE  DecisionInv'
  BY <1>6 DEF Fail, TimeOut
<1>7. CASE \/ \E s, t \in Scopes : RenameBudget(s, t)
           \/ \E e \in EmployeeRoles : RemoveRole(e)
           \/ Administer
  BY <1>0, <1>7, DirectoryKeeps
<1>8. CASE AllServed \/ UNCHANGED vars
  BY <1>0, <1>8, DecisionStutter DEF AllServed
<1> QED BY <1>1, <1>2, <1>3, <1>4, <1>5, <1>6, <1>7, <1>8 DEF Next

(* As long as no call fails or times out, two decisions are never recorded  *)
(* for one stage of a request, however many calls decide, pay or report at  *)
(* once and whatever the administrators change meanwhile: decide's advisory *)
(* lock does what the comment at 638-645 asks of it.  The runs that allow   *)
(* failures or timeouts show that the assumption is needed.                 *)
THEOREM OneApprovalProved ==
    ASSUME FaultKinds = {}
    PROVE  Spec => []OneApprovalPerStage
<1>1. DecisionInv => OneApprovalPerStage
  BY DEF DecisionInv
<1> QED BY <1>1, DecisionInit, DecisionStep, PTL DEF Spec

=============================================================================
