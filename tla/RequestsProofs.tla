---------------------------- MODULE RequestsProofs ----------------------------
(***************************************************************************)
(* Theorems about Requests.tla, for every tenant: any sets of users,       *)
(* requests, roles, departments and calls, any filings and amounts.        *)
(***************************************************************************)
EXTENDS RequestsInvariants, SequenceTheorems, TLAPS

-----------------------------------------------------------------------------
(* Lemmas about the rules *)

(* Every status the pipeline can choose has a step that waits for it. *)
LEMMA PipelineTargets ==
    ASSUME NEW q, NEW att
    PROVE  PipelineStatus(q, att) \in DOMAIN AwaitingStep
BY DEF PipelineStatus, AwaitingStep

LEMMA AwaitingSteps ==
    /\ DOMAIN AwaitingStep \subseteq Statuses
    /\ MoneyStages \subseteq DOMAIN AwaitingStep
    /\ \A s \in DOMAIN AwaitingStep : AwaitingStep[s] \in Steps
BY DEF AwaitingStep, Statuses, PendingStatuses, MoneyStages, Steps

LEMMA DecidedStatuses ==
    ASSUME NEW s, NEW d, NEW n, NEW v
    PROVE  DecidedStatus(s, d, n, v) \in Statuses \ PendingStatuses
BY DEF DecidedStatus, Statuses, PendingStatuses

LEMMA FunctionIsSeq ==
    ASSUME NEW S, NEW n \in Nat, NEW f \in [1..n -> S]
    PROVE  f \in Seq(S)
BY SeqDef

(* Closing and adding steps keeps a timeline a timeline. *)
LEMMA CloseLatestType ==
    ASSUME NEW t \in Seq(Step), NEW is
    PROVE  CloseLatest(t, is) \in Seq(Step)
<1> DEFINE m == Max(is)
<1>1. CASE m \in 1..Len(t)
  <2>1. t[m] \in Step
    BY <1>1
  <2>2. StepRow(t[m].name, FALSE) \in Step
    BY <2>1 DEF Step, StepRow
  <2> HIDE DEF m
  <2>3. [t EXCEPT ![m] = StepRow(t[m].name, FALSE)] \in Seq(Step)
    BY <1>1, <2>2, ExceptSeq
  <2> QED BY <2>3 DEF CloseLatest, m
<1>2. CASE m \notin 1..Len(t)
  <2> HIDE DEF m
  <2>0. t \in [1..Len(t) -> Step]
    BY SeqDef, LenProperties
  <2>1. [t EXCEPT ![m] = StepRow(t[m].name, FALSE)] \in [1..Len(t) -> Step]
    BY <1>2, <2>0
  <2>2. [t EXCEPT ![m] = StepRow(t[m].name, FALSE)] \in Seq(Step)
    BY <2>1, FunctionIsSeq, LenProperties
  <2> QED BY <2>2 DEF CloseLatest, m
<1> QED BY <1>1, <1>2

LEMMA CompletedType ==
    ASSUME NEW t \in Seq(Step), NEW name
    PROVE  Completed(t, name) \in Seq(Step) /\ CompletedLatest(t) \in Seq(Step)
BY CloseLatestType DEF Completed, CompletedLatest

LEMMA AppendStepType ==
    ASSUME NEW t \in Seq(Step), NEW name \in Steps, NEW open \in BOOLEAN
    PROVE  Append(t, StepRow(name, open)) \in Seq(Step)
BY AppendProperties DEF StepRow, Step

-----------------------------------------------------------------------------
(* Lemmas about the records *)

LEMMA RowTypes ==
    ASSUME NEW q \in Row
    PROVE  /\ q.requester \in Users /\ q.stated \in Nat
           /\ q.budget \in Scopes \cup {NoScope}
           /\ q.routed \in EmployeeRoles \cup {NoRole}
           /\ \A s \in Statuses : [q EXCEPT !.status = s] \in Row
           /\ \A b \in Scopes \cup {NoScope} : [q EXCEPT !.budget = b] \in Row
           /\ \A e \in EmployeeRoles \cup {NoRole} : [q EXCEPT !.routed = e] \in Row
BY DEF Row

LEMMA FilerTypes ==
    ASSUME NEW f \in Filer
    PROVE  /\ \A p \in {"done", "failed", "settling"} : [f EXCEPT !.pc = p] \in Filer
           /\ \A s \in Statuses : [f EXCEPT !.pc = "opening", !.next = s] \in Filer
           /\ \A n \in 0..MaxFiles, p \in {"checking", "ingesting"} :
                [f EXCEPT !.left = n, !.pc = p] \in Filer
           /\ f.left # 0 => f.left - 1 \in 0..MaxFiles
<1>1. f.left # 0 => f.left - 1 \in 0..MaxFiles
  BY OcrType DEF Filer
<1> QED BY <1>1 DEF Filer, Statuses, PendingStatuses

LEMMA ViewTypes ==
    ASSUME NEW v \in View
    PROVE  /\ v.stage \in Statuses /\ v.amount \in Nat /\ v.next \in Statuses
           /\ v.scope \in Scopes /\ v.matched \in BOOLEAN
           /\ v.queries \subseteq {"transactions", "reservations"}
           /\ v.left \in 0..MaxFiles
           /\ \A b \in BOOLEAN : [v EXCEPT !.matched = b] \in View
           /\ \A s \in Statuses : [v EXCEPT !.next = s] \in View
           /\ \A n \in 0..MaxFiles : [v EXCEPT !.left = n] \in View
           /\ \A n \in Nat : [v EXCEPT !.alloc = n] \in View
           /\ \A rs \in SUBSET Requests :
                [v EXCEPT !.spent = rs] \in View /\ [v EXCEPT !.held = rs] \in View
           /\ \A q \in SUBSET {"transactions", "reservations"} :
                [v EXCEPT !.queries = q] \in View
BY DEF View

(* Only the snapshot sets the stage. *)
LEMMA SameStage ==
    ASSUME NEW v \in View, NEW x
    PROVE  /\ [v EXCEPT !.matched = x].stage = v.stage
           /\ [v EXCEPT !.alloc = x].stage = v.stage
           /\ [v EXCEPT !.spent = x].stage = v.stage
           /\ [v EXCEPT !.held = x].stage = v.stage
           /\ [v EXCEPT !.queries = x].stage = v.stage
           /\ [v EXCEPT !.next = x].stage = v.stage
           /\ [v EXCEPT !.next = x].next = x
BY DEF View

LEMMA EmptyViewType == EmptyView \in View
BY ScopesHaveAll, NoRoleIsNoRole, OcrType DEF View, EmptyView, Statuses

LEMMA SnapshotType ==
    ASSUME TypeInv, NEW r \in Requests
    PROVE  Snapshot(r) \in View
<1>1. /\ row[r].status \in Statuses
      /\ row[r].requester \in Users
      /\ row[r].routed \in EmployeeRoles \cup {NoRole}
  BY DEF TypeInv, TypeOK, Row
<1>2. EffectiveAmount(row[r], attached[r]) \in Nat
  BY DEF TypeInv, TypeOK, Row, Attached, EffectiveAmount
<1>3. HasVerifiedAttachment(attached[r]) \in BOOLEAN
  BY DEF HasVerifiedAttachment
<1>4. BudgetScope(row[r], deptOf) \in Scopes
  BY ScopesHaveAll DEF TypeInv, TypeOK, DirectoryTypeOK, Row, BudgetScope
<1>5. (IF deptOf[row[r].requester] # NoScope
       THEN deptOf[row[r].requester] ELSE All) \in Scopes
  BY <1>1, ScopesHaveAll DEF TypeInv, TypeOK, DirectoryTypeOK
<1> QED BY <1>1, <1>2, <1>3, <1>4, <1>5, EmptyViewType DEF Snapshot, View

LEMMA ReleasedType ==
    ASSUME TypeOK, NEW c \in Calls
    PROVE  Released(c) \in [Requests -> Calls \cup {NoCall}]
BY DEF TypeOK, Released

(* A working call knows its request, its user and what it was asked. *)
LEMMA JobTypes ==
    ASSUME TypeInv, NEW c \in Calls
    PROVE  /\ pc[c] \in Deciders \cup Proving \cup Noting =>
                /\ job[c] \in Job /\ row[Req(c)] \in Row
                /\ Req(c) \in Requests /\ Actor(c) \in Users
           /\ pc[c] \in Deciders => job[c].asked \in Decisions
<1>1. pc[c] \in Deciders \cup Proving \cup Noting => job[c] \in Job
  BY DEF TypeInv, Locals, Fits
<1>2. job[c] \in Job => Req(c) \in Requests /\ Actor(c) \in Users
  BY DEF Job, Req, Actor
<1>3. pc[c] \in Deciders => job[c].asked \in Decisions
  BY <1>1 DEF TypeInv, Locals, Fits, Job
<1> QED BY <1>1, <1>2, <1>3 DEF TypeInv, TypeOK

(* What TypeInv says of the calls. *)
CallsOK ==
    /\ lock \in [Requests -> Calls \cup {NoCall}]
    /\ job \in [Calls -> Job \cup {NoJob}]
    /\ pc \in [Calls -> Active \cup Over \cup {"idle"}]
    /\ view \in [Calls -> View]
    /\ Locals

(* A step of call c leaves the other calls alone. *)
LEMMA OneCallMoves ==
    ASSUME TypeInv, NEW c \in Calls, UNCHANGED filer,
           lock' \in [Requests -> Calls \cup {NoCall}],
           NEW j \in Job, NEW p \in Active \cup Over, NEW v \in View, Fits(j, p, v),
           job' = [job EXCEPT ![c] = j],
           pc' = [pc EXCEPT ![c] = p],
           view' = [view EXCEPT ![c] = v]
    PROVE  CallsOK'
<1>1. /\ job' \in [Calls -> Job \cup {NoJob}]
      /\ pc' \in [Calls -> Active \cup Over \cup {"idle"}]
      /\ view' \in [Calls -> View]
  BY DEF TypeInv, TypeOK
<1>2. ASSUME NEW d \in Calls PROVE Fits(job'[d], pc'[d], view'[d])
  BY <1>2 DEF TypeInv, TypeOK, Locals
<1>3. \A r \in Requests : FilerFits(filer'[r])
  BY DEF TypeInv, Locals
<1> QED BY <1>1, <1>2, <1>3 DEF Locals, CallsOK

(* Its job and its locals stay. *)
LEMMA CallGoes ==
    ASSUME TypeInv, NEW c \in Calls, UNCHANGED <<filer, job, view>>,
           lock' \in [Requests -> Calls \cup {NoCall}],
           NEW p \in Active \cup Over, Goto(c, p),
           job[c] \in Job, Fits(job[c], p, view[c])
    PROVE  CallsOK'
<1>1. job' = [job EXCEPT ![c] = job[c]] /\ view' = [view EXCEPT ![c] = view[c]]
  BY DEF TypeInv, TypeOK
<1>2. pc' = [pc EXCEPT ![c] = p] /\ UNCHANGED filer /\ view[c] \in View
  BY DEF TypeInv, TypeOK, Goto
<1> QED BY <1>1, <1>2, OneCallMoves

(* Its job stays, its locals change. *)
LEMMA CallReads ==
    ASSUME TypeInv, NEW c \in Calls, UNCHANGED <<filer, job>>,
           lock' \in [Requests -> Calls \cup {NoCall}],
           NEW p \in Active \cup Over, Goto(c, p), NEW v \in View,
           view' = [view EXCEPT ![c] = v],
           job[c] \in Job, Fits(job[c], p, v)
    PROVE  CallsOK'
<1>1. job' = [job EXCEPT ![c] = job[c]] /\ pc' = [pc EXCEPT ![c] = p] /\ UNCHANGED filer
  BY DEF TypeInv, TypeOK, Goto
<1> QED BY <1>1, OneCallMoves

LEMMA CallEnds ==
    ASSUME TypeInv, NEW c \in Calls, UNCHANGED <<filer, job>>,
           NEW p \in Over, Finish(c, p), job[c] \in Job
    PROVE  CallsOK'
<1>1. Fits(job[c], p, EmptyView)
  BY DEF Fits, Over, Deciders, Deciding, Proving, Noting
<1>2. lock' \in [Requests -> Calls \cup {NoCall}]
  BY ReleasedType DEF Finish, TypeInv
<1>3. Goto(c, p) /\ view' = [view EXCEPT ![c] = EmptyView]
  BY DEF Finish
<1> QED BY <1>1, <1>2, <1>3, EmptyViewType, CallReads

(* The places between which the lemmas above move a call. *)
LEMMA Places ==
    /\ Deciders \cup Proving \cup Noting \cup Over \subseteq Active \cup Over
    /\ "waiting" \in Deciders /\ "notifying" \in Deciders
    /\ {"done", "refused", "failed"} \subseteq Over
BY DEF Active, Over, Deciders

-----------------------------------------------------------------------------
(* Filing keeps the types. *)

LEMMA FilerMoves ==
    ASSUME TypeInv, NEW r \in Requests, UNCHANGED <<job, pc, view>>,
           NEW f \in Filer, FilerFits(f), filer' = [filer EXCEPT ![r] = f]
    PROVE  filer' \in [Requests -> Filer] /\ Locals'
BY DEF TypeInv, TypeOK, Locals

LEMMA FileType ==
    ASSUME TypeInv, NEW r \in Requests, File(r)
    PROVE  TypeInv'
<1>1. PICK f \in Filings :
        LET live == IF f.routed # NoRole THEN catalog[f.routed] = "live" ELSE FALSE
        IN  /\ row' = [row EXCEPT ![r] =
                         [status        |-> "PENDING_POLICY_CHECK",
                          requester     |-> f.requester,
                          stated        |-> f.stated,
                          budget        |-> f.budget,
                          routed        |-> IF live THEN f.routed ELSE NoRole,
                          needsApproval |-> live /\ f.needsApproval]]
            /\ filer' = [filer EXCEPT ![r] =
                           [pc |-> IF f.files > 0 THEN "ingesting" ELSE "checking",
                            left |-> f.files, next |-> "UNFILED"]]
            /\ IF f.files > 0 THEN UNCHANGED timeline
                              ELSE AddStep(r, "Checking Policy...", TRUE)
  BY DEF File
<1>2. f \in Filing
  BY FilingsType
<1>3. row' \in [Requests -> Row]
  <2> DEFINE live == IF f.routed # NoRole THEN catalog[f.routed] = "live" ELSE FALSE
             q == [status        |-> "PENDING_POLICY_CHECK",
                   requester     |-> f.requester,
                   stated        |-> f.stated,
                   budget        |-> f.budget,
                   routed        |-> IF live THEN f.routed ELSE NoRole,
                   needsApproval |-> live /\ f.needsApproval]
  <2>1. live \in BOOLEAN
    OBVIOUS
  <2>2. f.needsApproval \in BOOLEAN /\ f.routed \in EmployeeRoles \cup {NoRole}
    BY <1>2 DEF Filing
  <2>3. q.routed \in EmployeeRoles \cup {NoRole} /\ q.needsApproval \in BOOLEAN
    BY <2>1, <2>2
  <2>4. q \in Row
    BY <1>2, <2>3 DEF Filing, Row, Statuses
  <2>5. row' = [row EXCEPT ![r] = q]
    BY <1>1
  <2> QED BY <2>4, <2>5 DEF TypeInv, TypeOK
<1>4. filer' \in [Requests -> Filer] /\ Locals'
  <2> DEFINE f2 == [pc |-> IF f.files > 0 THEN "ingesting" ELSE "checking",
                    left |-> f.files, next |-> "UNFILED"]
  <2>1. f2 \in Filer /\ FilerFits(f2)
    BY <1>2, OcrType DEF Filing, Filer, FilerFits, Statuses
  <2> QED BY <1>1, <2>1, FilerMoves DEF File
<1>5. timeline' \in [Requests -> Seq(Step)]
  <2>1. "Checking Policy..." \in Steps
    BY DEF Steps
  <2>2. Append(timeline[r], StepRow("Checking Policy...", TRUE)) \in Seq(Step)
    BY <2>1, AppendStepType DEF TypeInv, TypeOK
  <2> QED BY <1>1, <2>2 DEF AddStep, TypeInv, TypeOK
<1> QED BY <1>3, <1>4, <1>5 DEF File, TypeInv, TypeOK, DirectoryTypeOK, directoryVars

LEMMA IngestType ==
    ASSUME TypeInv, NEW r \in Requests, Ingest(r)
    PROVE  TypeInv'
<1>1. attached' \in [Requests -> Attached]
  BY OcrType DEF Ingest, Attach, Attached, TypeInv, TypeOK
<1>2. filer' \in [Requests -> Filer] /\ Locals'
  <2> DEFINE p == IF filer[r].left = 1 THEN "checking" ELSE "ingesting"
             f == [filer[r] EXCEPT !.left = filer[r].left - 1, !.pc = p]
  <2>1. filer[r] \in Filer /\ filer[r].left # 0 /\ filer[r].pc = "ingesting"
    BY DEF TypeInv, TypeOK, Locals, FilerFits, Ingest
  <2>2. filer[r].left - 1 \in 0..MaxFiles /\ filer[r].left \in Nat
    <3>1. filer[r].left \in 0..MaxFiles
      BY <2>1 DEF Filer
    <3> QED BY <2>1, <3>1, OcrType
  <2>3. f \in Filer
    BY <2>1, <2>2, FilerTypes
  <2>4. f.pc = p /\ f.left = filer[r].left - 1
    BY <2>1 DEF Filer
  <2>5. FilerFits(f)
    BY <2>2, <2>4 DEF FilerFits
  <2>6. filer' = [filer EXCEPT ![r] = f]
    BY <2>1 DEF Ingest, TypeInv, TypeOK
  <2> QED BY <2>3, <2>5, <2>6, FilerMoves DEF Ingest
<1> QED BY <1>1, <1>2 DEF Ingest, TypeInv, TypeOK, DirectoryTypeOK, directoryVars

LEMMA CheckPolicyType ==
    ASSUME TypeInv, NEW r \in Requests, CheckPolicy(r)
    PROVE  TypeInv'
<1>1. timeline' \in [Requests -> Seq(Step)]
  <2>1. Completed(timeline[r], "Checking Policy...") \in Seq(Step)
    BY CompletedType DEF TypeInv, TypeOK
  <2>2. Append(Completed(timeline[r], "Checking Policy..."),
               StepRow("Routing for Approval", FALSE)) \in Seq(Step)
    BY <2>1, AppendStepType DEF Steps
  <2> QED BY <2>2 DEF CheckPolicy, TypeInv, TypeOK
<1>2. filer' \in [Requests -> Filer] /\ Locals'
  <2> DEFINE s == PipelineStatus(row[r], attached[r])
             f == [filer[r] EXCEPT !.pc = "opening", !.next = s]
  <2>1. filer[r] \in Filer
    BY DEF TypeInv, TypeOK
  <2>2. s \in DOMAIN AwaitingStep /\ s \in Statuses
    BY PipelineTargets, AwaitingSteps
  <2> HIDE DEF s
  <2>3. f \in Filer
    BY <2>1, <2>2, FilerTypes
  <2>4. f.next = s /\ f.pc = "opening"
    BY <2>1 DEF Filer
  <2>5. FilerFits(f)
    BY <2>2, <2>4 DEF FilerFits
  <2>6. filer' = [filer EXCEPT ![r] = f]
    BY <2>1 DEF CheckPolicy, TypeInv, TypeOK, s
  <2> QED BY <2>3, <2>5, <2>6, FilerMoves DEF CheckPolicy
<1> QED BY <1>1, <1>2 DEF CheckPolicy, TypeInv, TypeOK, DirectoryTypeOK, directoryVars

(* The remaining steps of a filing only move its pc. *)
LEMMA FilerGoes ==
    ASSUME TypeInv, NEW r \in Requests, UNCHANGED <<job, pc, view>>,
           NEW p \in {"settling", "done", "failed"},
           p = "settling" => filer[r].pc = "opening",
           filer' = [filer EXCEPT ![r].pc = p]
    PROVE  filer' \in [Requests -> Filer] /\ Locals'
<1> DEFINE f == [filer[r] EXCEPT !.pc = p]
<1>1. filer[r] \in Filer
  BY DEF TypeInv, TypeOK
<1>2. f \in Filer /\ f.pc = p /\ f.next = filer[r].next
  BY <1>1, FilerTypes DEF Filer
<1>3. FilerFits(f)
  BY <1>2 DEF FilerFits, TypeInv, Locals
<1> QED BY <1>2, <1>3, FilerMoves DEF TypeInv, TypeOK

LEMMA OpenFirstStageType ==
    ASSUME TypeInv, NEW r \in Requests, OpenFirstStage(r)
    PROVE  TypeInv'
<1>1. filer' \in [Requests -> Filer] /\ Locals'
  BY FilerGoes DEF OpenFirstStage
<1>2. filer[r].next \in DOMAIN AwaitingStep
  BY DEF OpenFirstStage, TypeInv, Locals, FilerFits
<1>3. timeline' \in [Requests -> Seq(Step)]
  BY <1>2, AwaitingSteps, AppendStepType DEF OpenFirstStage, AddStep, TypeInv, TypeOK
<1> QED BY <1>1, <1>3 DEF OpenFirstStage, TypeInv, TypeOK, DirectoryTypeOK, directoryVars

LEMMA SettleFilingType ==
    ASSUME TypeInv, NEW r \in Requests, SettleFiling(r)
    PROVE  TypeInv'
<1>1. filer' \in [Requests -> Filer] /\ Locals'
  BY FilerGoes DEF SettleFiling
<1>2. row' \in [Requests -> Row]
  <2>1. filer[r].next \in Statuses
    BY AwaitingSteps DEF SettleFiling, TypeInv, Locals, FilerFits
  <2> QED BY <2>1, RowTypes DEF SettleFiling, SetStatus, TypeInv, TypeOK
<1> QED BY <1>1, <1>2 DEF SettleFiling, TypeInv, TypeOK, DirectoryTypeOK, directoryVars

LEMMA FailFilingType ==
    ASSUME TypeInv, NEW r \in Requests, FailFiling(r)
    PROVE  TypeInv'
<1>1. filer' \in [Requests -> Filer] /\ Locals'
  BY FilerGoes DEF FailFiling
<1>2. faults' \in Nat
  BY DEF FailFiling, TypeInv, TypeOK
<1> QED BY <1>1, <1>2 DEF FailFiling, TypeInv, TypeOK, DirectoryTypeOK, directoryVars, requestVars

-----------------------------------------------------------------------------
(* Deciding keeps the types. *)

LEMMA StartDecideType ==
    ASSUME TypeInv, NEW c \in Calls, StartDecide(c)
    PROVE  TypeInv'
<1>1. PICK r \in Filed, u \in Users, d \in Decisions :
        job' = [job EXCEPT ![c] = [op |-> "decide", req |-> r, by |-> u, asked |-> d]]
  BY DEF StartDecide
<1> DEFINE j == [op |-> "decide", req |-> r, by |-> u, asked |-> d]
<1>2. j \in Job /\ j.op = "decide"
  BY DEF Job, Filed
<1>3. Fits(j, "waiting", view[c])
  BY <1>2 DEF Fits, Deciding, Proving, Noting
<1>4. view[c] \in View /\ view' = [view EXCEPT ![c] = view[c]]
  BY DEF StartDecide, TypeInv, TypeOK
<1>5. CallsOK'
  BY <1>1, <1>2, <1>3, <1>4, Places, OneCallMoves DEF StartDecide, Goto, TypeInv, TypeOK
<1> QED BY <1>5 DEF CallsOK, StartDecide, TypeInv, TypeOK, DirectoryTypeOK, directoryVars, requestVars

LEMMA LockAndReadType ==
    ASSUME TypeInv, NEW c \in Calls, LockAndRead(c)
    PROVE  TypeInv'
<1>1. job[c] \in Job /\ job[c].op = "decide" /\ Req(c) \in Requests
  BY JobTypes DEF LockAndRead, Deciders, TypeInv, Locals, Fits
<1>2. CallsOK'
  <2>1. CASE row[Req(c)].status \in PendingStatuses
    <3>1. /\ lock' = [lock EXCEPT ![Req(c)] = c]
          /\ view' = [view EXCEPT ![c] = Snapshot(Req(c))]
          /\ Goto(c, "authorising")
          /\ UNCHANGED <<filer, job>>
      BY <2>1 DEF LockAndRead
    <3>2. lock' \in [Requests -> Calls \cup {NoCall}]
      BY <3>1 DEF TypeInv, TypeOK
    <3>3. Snapshot(Req(c)) \in View /\ Snapshot(Req(c)).stage = row[Req(c)].status
      BY <1>1, SnapshotType DEF Snapshot, EmptyView
    <3>4. Fits(job[c], "authorising", Snapshot(Req(c)))
      BY <1>1, <2>1, <3>3 DEF Fits, Proving, Noting
    <3>5. "authorising" \in Active
      BY DEF Active, Deciding
    <3> QED BY <1>1, <3>1, <3>2, <3>3, <3>4, <3>5, CallReads
  <2>2. CASE row[Req(c)].status \notin PendingStatuses
    BY <1>1, <2>2, Places, CallEnds DEF LockAndRead
  <2> QED BY <2>1, <2>2
<1> QED BY <1>2 DEF CallsOK, LockAndRead, TypeInv, TypeOK, DirectoryTypeOK, directoryVars, requestVars

(* The rest of a decision starts from here. *)
LEMMA DecidingTypes ==
    ASSUME TypeInv, NEW c \in Calls, pc[c] \in Deciding
    PROVE  /\ job[c] \in Job /\ job[c].op = "decide" /\ job[c].asked \in Decisions
           /\ Req(c) \in Requests /\ Actor(c) \in Users /\ row[Req(c)] \in Row
           /\ view[c] \in View /\ view[c].stage \in PendingStatuses
           /\ lock \in [Requests -> Calls \cup {NoCall}]
BY JobTypes DEF TypeInv, TypeOK, Locals, Fits, Deciders

LEMMA AuthoriseType ==
    ASSUME TypeInv, NEW c \in Calls, Authorise(c)
    PROVE  TypeInv'
<1>1. pc[c] = "authorising" /\ pc[c] \in Deciding
  BY DEF Authorise, Deciding
<1>2. CallsOK'
  <2>1. CASE Authorised(Actor(c), view[c], row[Req(c)].requester)
    <3> DEFINE m == view[c].stage = "PENDING_FINANCE_APPROVAL" /\ Matched(Actor(c), view[c])
               p == IF NeedsHeadroom(c) THEN "budgeting" ELSE "recording"
               v == [view[c] EXCEPT !.matched = m]
    <3>1. UNCHANGED <<filer, job, lock>> /\ Goto(c, p)
      BY <2>1 DEF Authorise
    <3>2. view' = [view EXCEPT ![c] = v]
      BY <2>1 DEF Authorise
    <3>3. m \in BOOLEAN
      BY DEF Matched
    <3> HIDE DEF m
    <3>4. v \in View /\ v.stage = view[c].stage
      BY <1>1, <3>3, DecidingTypes, ViewTypes, SameStage
    <3>5. p \in {"budgeting", "recording"} /\ p \in Active
      BY DEF Active, Deciding
    <3> HIDE DEF p, v
    <3>6. Fits(job[c], p, v)
      BY <1>1, <3>4, <3>5, DecidingTypes DEF Fits, Proving, Noting
    <3> QED BY <1>1, <3>1, <3>2, <3>4, <3>5, <3>6, DecidingTypes, CallReads
  <2>2. CASE ~Authorised(Actor(c), view[c], row[Req(c)].requester)
    BY <1>1, <2>2, DecidingTypes, Places, CallEnds DEF Authorise
  <2> QED BY <2>1, <2>2
<1> QED BY <1>2 DEF CallsOK, Authorise, TypeInv, TypeOK, DirectoryTypeOK, directoryVars, requestVars

LEMMA ReadBudgetType ==
    ASSUME TypeInv, NEW c \in Calls, ReadBudget(c)
    PROVE  TypeInv'
<1>1. pc[c] \in Deciding /\ UNCHANGED <<lock, filer, job>>
  BY DEF ReadBudget, Deciding
<1>2. {"recording", "querying"} \subseteq Active \cap Deciding
  BY DEF Active, Deciding
<1>3. CallsOK'
  <2>1. CASE budget[view[c].scope] = NoBudget
    <3>1. Goto(c, "recording") /\ UNCHANGED view
      BY <2>1 DEF ReadBudget
    <3>2. Fits(job[c], "recording", view[c])
      BY <1>1, DecidingTypes DEF Fits, Proving, Noting
    <3> QED BY <1>1, <1>2, <3>1, <3>2, DecidingTypes, CallGoes
  <2>2. CASE budget[view[c].scope] # NoBudget
    <3> DEFINE w == [view[c] EXCEPT !.alloc = budget[view[c].scope]]
               v == [w EXCEPT !.queries = {"transactions", "reservations"}]
    <3>1. Goto(c, "querying") /\ view' = [view EXCEPT ![c] = v]
      BY <2>2, <1>1, DecidingTypes DEF ReadBudget, TypeInv, TypeOK
    <3>2. budget[view[c].scope] \in Nat
      BY <1>1, <2>2, DecidingTypes, ViewTypes DEF TypeInv, TypeOK, DirectoryTypeOK
    <3>3. w \in View /\ w.stage = view[c].stage
      BY <1>1, <3>2, DecidingTypes, ViewTypes, SameStage
    <3> HIDE DEF w
    <3>4. v \in View /\ v.stage = w.stage
      BY <3>3, ViewTypes, SameStage
    <3> HIDE DEF v
    <3>5. Fits(job[c], "querying", v)
      BY <1>1, <3>3, <3>4, DecidingTypes DEF Fits, Proving, Noting
    <3> QED BY <1>1, <1>2, <3>1, <3>4, <3>5, DecidingTypes, CallReads
  <2> QED BY <2>1, <2>2
<1> QED BY <1>3 DEF CallsOK, ReadBudget, TypeInv, TypeOK, DirectoryTypeOK, directoryVars, requestVars

LEMMA QueryTransactionsType ==
    ASSUME TypeInv, NEW c \in Calls, QueryTransactions(c)
    PROVE  TypeInv'
<1>1. pc[c] = "querying" /\ pc[c] \in Deciding /\ UNCHANGED <<lock, filer, job>>
  BY DEF QueryTransactions, Deciding
<1> DEFINE w == [view[c] EXCEPT !.spent = TransactionsOf(view[c].scope)]
           v == [w EXCEPT !.queries = view[c].queries \ {"transactions"}]
<1>2. Goto(c, "querying") /\ view' = [view EXCEPT ![c] = v]
  BY <1>1, DecidingTypes DEF QueryTransactions, Goto, TypeInv, TypeOK, View
<1>3. TransactionsOf(view[c].scope) \subseteq Requests
  BY DEF TransactionsOf
<1>4. w \in View /\ w.stage = view[c].stage
  BY <1>1, <1>3, DecidingTypes, ViewTypes, SameStage
<1>5. view[c].queries \ {"transactions"} \in SUBSET {"transactions", "reservations"}
  BY <1>1, DecidingTypes, ViewTypes
<1> HIDE DEF w
<1>6. v \in View /\ v.stage = w.stage
  BY <1>4, <1>5, ViewTypes, SameStage
<1> HIDE DEF v
<1>7. Fits(job[c], "querying", v)
  BY <1>1, <1>4, <1>6, DecidingTypes DEF Fits, Proving, Noting
<1>8. CallsOK'
  BY <1>1, <1>2, <1>6, <1>7, DecidingTypes, CallReads DEF Active
<1> QED BY <1>8 DEF CallsOK, QueryTransactions, TypeInv, TypeOK, DirectoryTypeOK, directoryVars, requestVars

LEMMA QueryReservationsType ==
    ASSUME TypeInv, NEW c \in Calls, QueryReservations(c)
    PROVE  TypeInv'
<1>1. pc[c] = "querying" /\ pc[c] \in Deciding /\ UNCHANGED <<lock, filer, job>>
  BY DEF QueryReservations, Deciding
<1> DEFINE w == [view[c] EXCEPT !.held = ReservationsOf(view[c].scope)]
           v == [w EXCEPT !.queries = view[c].queries \ {"reservations"}]
<1>2. Goto(c, "querying") /\ view' = [view EXCEPT ![c] = v]
  BY <1>1, DecidingTypes DEF QueryReservations, Goto, TypeInv, TypeOK, View
<1>3. ReservationsOf(view[c].scope) \subseteq Requests
  BY DEF ReservationsOf
<1>4. w \in View /\ w.stage = view[c].stage
  BY <1>1, <1>3, DecidingTypes, ViewTypes, SameStage
<1>5. view[c].queries \ {"reservations"} \in SUBSET {"transactions", "reservations"}
  BY <1>1, DecidingTypes, ViewTypes
<1> HIDE DEF w
<1>6. v \in View /\ v.stage = w.stage
  BY <1>4, <1>5, ViewTypes, SameStage
<1> HIDE DEF v
<1>7. Fits(job[c], "querying", v)
  BY <1>1, <1>4, <1>6, DecidingTypes DEF Fits, Proving, Noting
<1>8. CallsOK'
  BY <1>1, <1>2, <1>6, <1>7, DecidingTypes, CallReads DEF Active
<1> QED BY <1>8 DEF CallsOK, QueryReservations, TypeInv, TypeOK, DirectoryTypeOK, directoryVars, requestVars

LEMMA CompareHeadroomType ==
    ASSUME TypeInv, NEW c \in Calls, CompareHeadroom(c)
    PROVE  TypeInv'
<1>1. pc[c] \in Deciding /\ UNCHANGED <<filer, job>>
  BY DEF CompareHeadroom, Deciding
<1>2. CallsOK'
  <2>1. CASE Overdraws(c)
    BY <1>1, <2>1, DecidingTypes, Places, CallEnds DEF CompareHeadroom
  <2>2. CASE ~Overdraws(c)
    <3>1. Fits(job[c], "recording", view[c]) /\ "recording" \in Active
      BY <1>1, DecidingTypes DEF Fits, Proving, Noting, Active, Deciding
    <3> QED BY <1>1, <2>2, <3>1, DecidingTypes, CallGoes DEF CompareHeadroom
  <2> QED BY <2>1, <2>2
<1> QED BY <1>2 DEF CallsOK, CompareHeadroom, TypeInv, TypeOK, DirectoryTypeOK, directoryVars, requestVars

LEMMA RecordApprovalType ==
    ASSUME TypeInv, NEW c \in Calls, RecordApproval(c)
    PROVE  TypeInv'
<1>1. pc[c] \in Deciding /\ UNCHANGED <<lock, filer, job>>
  BY DEF RecordApproval, Deciding
<1>2. approvals' \subseteq Approval
  <2> DEFINE n == IF view[c].stage = "PENDING_ROLE_APPROVAL" THEN 0 ELSE view[c].amount
  <2>1. n \in Nat /\ view[c].matched \in BOOLEAN
    BY <1>1, DecidingTypes, ViewTypes
  <2> HIDE DEF n
  <2>2. [call |-> c, req |-> Req(c), stage |-> view[c].stage, by |-> Actor(c),
         decision |-> job[c].asked, amount |-> n, delegated |-> view[c].matched]
          \in Approval
    BY <1>1, <2>1, DecidingTypes DEF Approval
  <2> QED BY <2>2 DEF RecordApproval, TypeInv, TypeOK, n
<1>3. CallsOK'
  <2> DEFINE s == DecidedStatus(view[c].stage, job[c].asked,
                                view[c].amount, view[c].verified)
             v == [view[c] EXCEPT !.next = s]
  <2>1. Goto(c, "completing") /\ view' = [view EXCEPT ![c] = v]
    BY DEF RecordApproval
  <2>2. s \in Statuses
    BY DecidedStatuses
  <2> HIDE DEF s
  <2>3. v \in View /\ v.stage = view[c].stage
    BY <1>1, <2>2, DecidingTypes, ViewTypes, SameStage
  <2> HIDE DEF v
  <2>4. Fits(job[c], "completing", v) /\ "completing" \in Active
    BY <1>1, <2>3, DecidingTypes DEF Fits, Proving, Noting, Active, Deciding
  <2> QED BY <1>1, <2>1, <2>3, <2>4, DecidingTypes, CallReads
<1> QED BY <1>2, <1>3 DEF CallsOK, RecordApproval, TypeInv, TypeOK, DirectoryTypeOK, directoryVars

LEMMA CompleteStageType ==
    ASSUME TypeInv, NEW c \in Calls, CompleteStage(c)
    PROVE  TypeInv'
<1>1. pc[c] \in Deciding /\ pc[c] = "completing" /\ UNCHANGED <<lock, filer, job, view>>
  BY DEF CompleteStage, Deciding
<1>2. timeline' \in [Requests -> Seq(Step)]
  BY CompletedType DEF CompleteStage, TypeInv, TypeOK
<1>3. CallsOK'
  <2> DEFINE p == IF ManagerApproves(c) THEN "routing" ELSE "auditing"
  <2>1. Fits(job[c], p, view[c])
    BY <1>1, DecidingTypes DEF Fits, Proving, Noting, ManagerApproves, Approving
  <2>2. p \in Active /\ Goto(c, p)
    BY DEF Active, Deciding, CompleteStage
  <2> QED BY <1>1, <2>1, <2>2, DecidingTypes, CallGoes
<1> QED BY <1>2, <1>3 DEF CallsOK, CompleteStage, TypeInv, TypeOK, DirectoryTypeOK, directoryVars

LEMMA RouteToFinanceType ==
    ASSUME TypeInv, NEW c \in Calls, RouteToFinance(c)
    PROVE  TypeInv'
<1>1. pc[c] \in Deciding /\ UNCHANGED <<lock, filer, job>>
  BY DEF RouteToFinance, Deciding
<1> DEFINE s == IF Covering(view[c].department, view[c].amount) # {}
                THEN "PENDING_FINANCE_APPROVAL" ELSE "ESCALATED"
           v == [view[c] EXCEPT !.next = s]
<1>2. Goto(c, "auditing") /\ view' = [view EXCEPT ![c] = v]
  BY DEF RouteToFinance
<1>3. s \in Statuses /\ s \in MoneyStages
  BY DEF Statuses, PendingStatuses, MoneyStages
<1> HIDE DEF s
<1>4. v \in View /\ v.stage = view[c].stage /\ v.next = s
  BY <1>1, <1>3, DecidingTypes, ViewTypes, SameStage
<1> HIDE DEF v
<1>5. Fits(job[c], "auditing", v) /\ "auditing" \in Active
  BY <1>1, <1>3, <1>4, DecidingTypes DEF Fits, Proving, Noting, Active, Deciding
<1>6. CallsOK'
  BY <1>1, <1>2, <1>4, <1>5, DecidingTypes, CallReads
<1> QED BY <1>6 DEF CallsOK, RouteToFinance, TypeInv, TypeOK, DirectoryTypeOK, directoryVars, requestVars

LEMMA AuditDecisionType ==
    ASSUME TypeInv, NEW c \in Calls, AuditDecision(c)
    PROVE  TypeInv'
<1>1. pc[c] \in Deciding /\ pc[c] = "auditing" /\ UNCHANGED <<lock, filer, job, view>>
  BY DEF AuditDecision, Deciding
<1> DEFINE p == IF ManagerApproves(c) THEN "opening" ELSE "settling"
<1>2. p \in Active /\ Goto(c, p)
  BY DEF Active, Deciding, AuditDecision
<1>3. Fits(job[c], p, view[c])
  BY <1>1, DecidingTypes DEF Fits, Proving, Noting, ManagerApproves, Approving, TypeInv, Locals
<1>4. CallsOK'
  BY <1>1, <1>2, <1>3, DecidingTypes, CallGoes
<1>5. audited' \subseteq Calls
  BY DEF AuditDecision, Audited, TypeInv, TypeOK
<1> QED BY <1>4, <1>5 DEF CallsOK, AuditDecision, TypeInv, TypeOK, DirectoryTypeOK, directoryVars

LEMMA OpenNextStageType ==
    ASSUME TypeInv, NEW c \in Calls, OpenNextStage(c)
    PROVE  TypeInv'
<1>1. pc[c] \in Deciding /\ pc[c] = "opening" /\ UNCHANGED <<lock, filer, job, view>>
  BY DEF OpenNextStage, Deciding
<1>2. view[c].next \in MoneyStages
  BY <1>1 DEF TypeInv, Locals, Fits
<1>3. AwaitingStep[view[c].next] \in Steps
  BY <1>2, AwaitingSteps
<1>4. timeline' \in [Requests -> Seq(Step)]
  BY <1>3, AppendStepType DEF OpenNextStage, AddStep, TypeInv, TypeOK
<1>5. Fits(job[c], "settling", view[c]) /\ "settling" \in Active
  BY <1>1, DecidingTypes DEF Fits, Proving, Noting, Active, Deciding
<1>6. CallsOK'
  BY <1>1, <1>5, DecidingTypes, CallGoes DEF OpenNextStage
<1> QED BY <1>4, <1>6 DEF CallsOK, OpenNextStage, TypeInv, TypeOK, DirectoryTypeOK, directoryVars

LEMMA SettleDecisionType ==
    ASSUME TypeInv, NEW c \in Calls, SettleDecision(c)
    PROVE  TypeInv'
<1>1. pc[c] \in Deciding /\ UNCHANGED <<lock, filer, job, view>>
  BY DEF SettleDecision, Deciding
<1>2. row' \in [Requests -> Row]
  BY <1>1, DecidingTypes, ViewTypes, RowTypes DEF SettleDecision, SetStatus, TypeInv, TypeOK
<1>3. Fits(job[c], "committing", view[c]) /\ "committing" \in Active
  BY <1>1, DecidingTypes DEF Fits, Proving, Noting, Active, Deciding
<1>4. CallsOK'
  BY <1>1, <1>3, DecidingTypes, CallGoes DEF SettleDecision
<1> QED BY <1>2, <1>4 DEF CallsOK, SettleDecision, TypeInv, TypeOK, DirectoryTypeOK, directoryVars

LEMMA CommitType ==
    ASSUME TypeInv, NEW c \in Calls, Commit(c)
    PROVE  TypeInv'
<1>1. pc[c] \in Deciding /\ UNCHANGED <<filer, job>>
  BY DEF Commit, Deciding
<1>2. CallsOK'
  <2>1. CASE lock[Req(c)] = c
    <3>1. Fits(job[c], "notifying", view[c])
      BY <1>1, DecidingTypes DEF Fits, Deciding, Proving, Noting
    <3>2. lock' \in [Requests -> Calls \cup {NoCall}]
      BY <2>1, ReleasedType DEF Commit, TypeInv
    <3> QED BY <1>1, <2>1, <3>1, <3>2, DecidingTypes, Places, CallGoes DEF Commit, Active
  <2>2. CASE lock[Req(c)] # c
    BY <1>1, <2>2, DecidingTypes, Places, CallEnds DEF Commit
  <2> QED BY <2>1, <2>2
<1> QED BY <1>2 DEF CallsOK, Commit, TypeInv, TypeOK, DirectoryTypeOK, directoryVars, requestVars

LEMMA NotifyDecisionType ==
    ASSUME TypeInv, NEW c \in Calls, NotifyDecision(c)
    PROVE  TypeInv'
<1>1. pc[c] = "notifying" /\ pc[c] \in Deciders
  BY DEF NotifyDecision, Deciders
<1>2. job[c] \in Job /\ Req(c) \in Requests /\ row[Req(c)].requester \in Users
  BY <1>1, JobTypes, RowTypes
<1>3. notices' \subseteq Notice
  <2>1. \A s \in DOMAIN NoticeFor : NoticeFor[s] \in NoticeKinds
    BY DEF NoticeFor, NoticeKinds
  <2>2. \A k \in NoticeKinds, u \in Users :
          [to |-> u, req |-> Req(c), kind |-> k] \in Notice
    BY <1>2 DEF Notice
  <2>3. "REQUEST_ROUTED" \in NoticeKinds
    BY DEF NoticeKinds
  <2>4. notices \subseteq Notice
    BY DEF TypeInv, TypeOK
  <2>5. ASSUME NEW n \in notices', n \notin notices PROVE n \in Notice
    <3> DEFINE told == [to |-> row[Req(c)].requester, req |-> Req(c),
                        kind |-> NoticeFor[view[c].next]]
               pinged(u) == [to |-> u, req |-> Req(c), kind |-> "REQUEST_ROUTED"]
    <3>1. \/ view[c].next \in DOMAIN NoticeFor /\ n = told
          \/ \E u \in Users : n = pinged(u)
      BY <2>5 DEF NotifyDecision
    <3> QED BY <1>2, <2>1, <2>2, <2>3, <3>1
  <2> QED BY <2>4, <2>5
<1>4. CallsOK'
  BY <1>2, Places, CallEnds DEF NotifyDecision
<1> QED BY <1>3, <1>4 DEF CallsOK, NotifyDecision, TypeInv, TypeOK, DirectoryTypeOK, directoryVars

-----------------------------------------------------------------------------
(* Proof of payment keeps the types. *)

LEMMA StartProofType ==
    ASSUME TypeInv, NEW c \in Calls, StartProof(c)
    PROVE  TypeInv'
<1>1. PICK r \in Filed, u \in Users, n \in 1..MaxFiles :
        /\ job' = [job EXCEPT ![c] = [op |-> "proof", req |-> r, by |-> u, asked |-> "PAID"]]
        /\ view' = [view EXCEPT ![c].left = n]
  BY DEF StartProof
<1> DEFINE j == [op |-> "proof", req |-> r, by |-> u, asked |-> "PAID"]
           v == [view[c] EXCEPT !.left = n]
<1>2. j \in Job /\ j.op = "proof"
  BY DEF Job, Filed
<1>3. n \in 0..MaxFiles /\ n # 0
  BY OcrType
<1>4. view[c] \in View
  BY DEF TypeInv, TypeOK
<1>5. v \in View
  BY <1>3, <1>4, ViewTypes
<1>6. v.left = n
  BY <1>4 DEF View
<1> HIDE DEF v
<1>7. Fits(j, "readingProof", v) /\ "readingProof" \in Active
  BY <1>2, <1>3, <1>6 DEF Fits, Deciders, Deciding, Noting, Proving, Active
<1>8. view' = [view EXCEPT ![c] = v]
  BY <1>1 DEF v
<1>9. CallsOK'
  BY <1>1, <1>2, <1>5, <1>7, <1>8, OneCallMoves DEF StartProof, Goto, TypeInv, TypeOK
<1> QED BY <1>9 DEF CallsOK, StartProof, TypeInv, TypeOK, DirectoryTypeOK, directoryVars, requestVars

LEMMA ProvingTypes ==
    ASSUME TypeInv, NEW c \in Calls, pc[c] \in Proving
    PROVE  /\ job[c] \in Job /\ job[c].op = "proof"
           /\ Req(c) \in Requests /\ row[Req(c)] \in Row
           /\ view[c] \in View
           /\ lock \in [Requests -> Calls \cup {NoCall}]
BY JobTypes DEF TypeInv, TypeOK, Locals, Fits

LEMMA ReadForProofType ==
    ASSUME TypeInv, NEW c \in Calls, ReadForProof(c)
    PROVE  TypeInv'
<1>1. pc[c] \in Proving /\ pc[c] = "readingProof" /\ UNCHANGED <<filer, job>>
  BY DEF ReadForProof, Proving
<1>2. CallsOK'
  <2>1. CASE Payable(Req(c))
    <3>1. view[c].left # 0
      BY <1>1 DEF TypeInv, Locals, Fits
    <3>2. Fits(job[c], "uploading", view[c]) /\ "uploading" \in Active
      BY <1>1, <3>1, ProvingTypes DEF Fits, Deciders, Deciding, Noting, Proving, Active
    <3> QED BY <1>1, <2>1, <3>2, ProvingTypes, CallGoes DEF ReadForProof
  <2>2. CASE ~Payable(Req(c))
    BY <1>1, <2>2, ProvingTypes, Places, CallEnds DEF ReadForProof
  <2> QED BY <2>1, <2>2
<1> QED BY <1>2 DEF CallsOK, ReadForProof, TypeInv, TypeOK, DirectoryTypeOK, directoryVars, requestVars

LEMMA AttachFileType ==
    ASSUME TypeInv, NEW c \in Calls, AttachFile(c)
    PROVE  TypeInv'
<1>1. pc[c] \in Proving /\ pc[c] = "uploading" /\ UNCHANGED <<filer, job, lock>>
  BY DEF AttachFile, Proving
<1>2. attached' \in [Requests -> Attached]
  BY <1>1, ProvingTypes, OcrType DEF AttachFile, Attach, Attached, TypeInv, TypeOK
<1> DEFINE p == IF view[c].left = 1 THEN "tracing" ELSE "uploading"
           v == [view[c] EXCEPT !.left = view[c].left - 1]
<1>3. view[c].left # 0
  BY <1>1 DEF TypeInv, Locals, Fits
<1>4. view[c].left \in 0..MaxFiles
  BY <1>1, ProvingTypes, ViewTypes
<1>5. view[c].left - 1 \in 0..MaxFiles /\ (view[c].left # 1 => view[c].left - 1 # 0)
  BY <1>3, <1>4, OcrType
<1>6. v \in View
  BY <1>1, <1>5, ProvingTypes, ViewTypes
<1>7. v.left = view[c].left - 1
  BY <1>1, ProvingTypes DEF View
<1>8. Goto(c, p) /\ view' = [view EXCEPT ![c] = v]
  BY DEF AttachFile
<1> HIDE DEF v
<1>9. Fits(job[c], p, v) /\ p \in Active
  BY <1>1, <1>5, <1>7, ProvingTypes DEF Fits, Deciders, Deciding, Noting, Proving, Active
<1>10. CallsOK'
  BY <1>1, <1>6, <1>8, <1>9, ProvingTypes, CallReads
<1> QED BY <1>2, <1>10 DEF CallsOK, AttachFile, TypeInv, TypeOK, DirectoryTypeOK, directoryVars

LEMMA TracePaymentType ==
    ASSUME TypeInv, NEW c \in Calls, TracePayment(c)
    PROVE  TypeInv'
<1>1. pc[c] \in Proving /\ UNCHANGED <<lock, filer, job, view>>
  BY DEF TracePayment, Proving
<1>2. timeline' \in [Requests -> Seq(Step)]
  <2>1. "Payment Sent" \in Steps
    BY DEF Steps
  <2> QED BY <2>1, AppendStepType DEF TracePayment, AddStep, TypeInv, TypeOK
<1>3. Fits(job[c], "auditingProof", view[c]) /\ "auditingProof" \in Active
  BY <1>1, ProvingTypes DEF Fits, Deciders, Deciding, Noting, Proving, Active
<1>4. CallsOK'
  BY <1>1, <1>3, ProvingTypes, CallGoes DEF TracePayment
<1> QED BY <1>2, <1>4 DEF CallsOK, TracePayment, TypeInv, TypeOK, DirectoryTypeOK, directoryVars

LEMMA AuditPaymentType ==
    ASSUME TypeInv, NEW c \in Calls, AuditPayment(c)
    PROVE  TypeInv'
<1>1. pc[c] \in Proving /\ UNCHANGED <<lock, filer, job, view>>
  BY DEF AuditPayment, Proving
<1>2. Fits(job[c], "settlingProof", view[c]) /\ "settlingProof" \in Active
  BY <1>1, ProvingTypes DEF Fits, Deciders, Deciding, Noting, Proving, Active
<1>3. CallsOK'
  BY <1>1, <1>2, ProvingTypes, CallGoes DEF AuditPayment
<1>4. audited' \subseteq Calls
  BY DEF AuditPayment, TypeInv, TypeOK
<1> QED BY <1>3, <1>4 DEF CallsOK, AuditPayment, TypeInv, TypeOK, DirectoryTypeOK, directoryVars

LEMMA SettlePaymentType ==
    ASSUME TypeInv, NEW c \in Calls, SettlePayment(c)
    PROVE  TypeInv'
<1>1. pc[c] \in Proving /\ UNCHANGED <<lock, filer, job, view>>
  BY DEF SettlePayment, Proving
<1>2. row' \in [Requests -> Row]
  <2>1. "COMPLETED" \in Statuses
    BY DEF Statuses
  <2> QED BY <2>1, RowTypes DEF SettlePayment, SetStatus, TypeInv, TypeOK
<1>3. Fits(job[c], "notifyingProof", view[c]) /\ "notifyingProof" \in Active
  BY <1>1, ProvingTypes DEF Fits, Deciders, Deciding, Noting, Proving, Active
<1>4. CallsOK'
  BY <1>1, <1>3, ProvingTypes, CallGoes DEF SettlePayment
<1> QED BY <1>2, <1>4 DEF CallsOK, SettlePayment, TypeInv, TypeOK, DirectoryTypeOK, directoryVars

LEMMA NotifyPaymentType ==
    ASSUME TypeInv, NEW c \in Calls, NotifyPayment(c)
    PROVE  TypeInv'
<1>1. pc[c] \in Proving /\ UNCHANGED <<filer, job>>
  BY DEF NotifyPayment, Proving
<1>2. notices' \subseteq Notice
  <2>1. [to |-> row[Req(c)].requester, req |-> Req(c), kind |-> "REQUEST_PAYMENT_SENT"]
          \in Notice
    BY <1>1, ProvingTypes, RowTypes DEF Notice, NoticeKinds
  <2> QED BY <2>1 DEF NotifyPayment, TypeInv, TypeOK
<1>3. CallsOK'
  BY <1>1, ProvingTypes, Places, CallEnds DEF NotifyPayment
<1> QED BY <1>2, <1>3 DEF CallsOK, NotifyPayment, TypeInv, TypeOK, DirectoryTypeOK, directoryVars

-----------------------------------------------------------------------------
(* Progress notes keep the types. *)

LEMMA StartNoteType ==
    ASSUME TypeInv, NEW c \in Calls, StartNote(c)
    PROVE  TypeInv'
<1>1. PICK r \in Requests, u \in Users, a \in {"RESOLVED", "UPDATE"} :
        job' = [job EXCEPT ![c] = [op |-> "note", req |-> r, by |-> u, asked |-> a]]
  BY DEF StartNote
<1> DEFINE j == [op |-> "note", req |-> r, by |-> u, asked |-> a]
<1>2. j \in Job /\ j.op = "note"
  BY DEF Job
<1>3. Fits(j, "readingNote", view[c]) /\ "readingNote" \in Active
  BY <1>2 DEF Fits, Deciders, Deciding, Proving, Noting, Active
<1>4. view[c] \in View /\ view' = [view EXCEPT ![c] = view[c]]
  BY DEF StartNote, TypeInv, TypeOK
<1>5. lock' \in [Requests -> Calls \cup {NoCall}]
  BY DEF StartNote, TypeInv, TypeOK
<1>6. pc' = [pc EXCEPT ![c] = "readingNote"] /\ UNCHANGED filer
  BY DEF StartNote, Goto
<1>7. job' = [job EXCEPT ![c] = j]
  BY <1>1
<1> HIDE DEF j
<1>8. CallsOK'
  BY <1>2, <1>3, <1>4, <1>5, <1>6, <1>7, OneCallMoves
<1> QED BY <1>8 DEF CallsOK, StartNote, TypeInv, TypeOK, DirectoryTypeOK, directoryVars, requestVars

LEMMA NotingTypes ==
    ASSUME TypeInv, NEW c \in Calls, pc[c] \in Noting
    PROVE  /\ job[c] \in Job /\ job[c].op = "note"
           /\ Req(c) \in Requests /\ row[Req(c)] \in Row
           /\ lock \in [Requests -> Calls \cup {NoCall}]
BY JobTypes DEF TypeInv, TypeOK, Locals, Fits

LEMMA ReadForNoteType ==
    ASSUME TypeInv, NEW c \in Calls, ReadForNote(c)
    PROVE  TypeInv'
<1>1. pc[c] \in Noting /\ UNCHANGED <<filer, job>>
  BY DEF ReadForNote, Noting
<1>2. CallsOK'
  <2>1. CASE MayReport(Actor(c), Req(c))
    <3>1. Fits(job[c], "writingNote", view[c]) /\ "writingNote" \in Active
      BY <1>1, NotingTypes DEF Fits, Deciders, Deciding, Noting, Proving, Active
    <3> QED BY <1>1, <2>1, <3>1, NotingTypes, CallGoes DEF ReadForNote
  <2>2. CASE ~MayReport(Actor(c), Req(c))
    BY <1>1, <2>2, NotingTypes, Places, CallEnds DEF ReadForNote
  <2> QED BY <2>1, <2>2
<1> QED BY <1>2 DEF CallsOK, ReadForNote, TypeInv, TypeOK, DirectoryTypeOK, directoryVars, requestVars

LEMMA WriteNoteType ==
    ASSUME TypeInv, NEW c \in Calls, WriteNote(c)
    PROVE  TypeInv'
<1>1. pc[c] \in Noting /\ UNCHANGED <<lock, filer, job, view>>
  BY DEF WriteNote, Noting
<1>2. row' \in [Requests -> Row]
  <2>1. "COMPLETED" \in Statuses
    BY DEF Statuses
  <2>2. CASE SetStatus(Req(c), "COMPLETED")
    BY <2>1, <2>2, RowTypes DEF SetStatus, TypeInv, TypeOK
  <2>3. CASE UNCHANGED row
    BY <2>3 DEF TypeInv, TypeOK
  <2> QED BY <2>2, <2>3 DEF WriteNote
<1> DEFINE p == IF job[c].asked = "RESOLVED" THEN "notifyingNote" ELSE "done"
<1>3. Fits(job[c], p, view[c]) /\ p \in Active \cup Over
  BY <1>1, NotingTypes DEF Fits, Deciders, Deciding, Noting, Proving, Active, Over
<1>4. Goto(c, p)
  BY DEF WriteNote
<1>5. CallsOK'
  BY <1>1, <1>3, <1>4, NotingTypes, CallGoes
<1> QED BY <1>2, <1>5 DEF CallsOK, WriteNote, TypeInv, TypeOK, DirectoryTypeOK, directoryVars

LEMMA NotifyNoteType ==
    ASSUME TypeInv, NEW c \in Calls, NotifyNote(c)
    PROVE  TypeInv'
<1>1. pc[c] \in Noting /\ UNCHANGED <<filer, job>>
  BY DEF NotifyNote, Noting
<1>2. notices' \subseteq Notice
  <2>1. [to |-> row[Req(c)].requester, req |-> Req(c), kind |-> "REQUEST_PROGRESS"]
          \in Notice
    BY <1>1, NotingTypes, RowTypes DEF Notice, NoticeKinds
  <2> QED BY <2>1 DEF NotifyNote, TypeInv, TypeOK
<1>3. CallsOK'
  BY <1>1, NotingTypes, Places, CallEnds DEF NotifyNote
<1> QED BY <1>2, <1>3 DEF CallsOK, NotifyNote, TypeInv, TypeOK, DirectoryTypeOK, directoryVars

-----------------------------------------------------------------------------
(* Faults and administration keep the types. *)

LEMMA FailType ==
    ASSUME TypeInv, NEW c \in Calls, Fail(c)
    PROVE  TypeInv'
<1>1. job[c] \in Job
  BY DEF Fail, Active, Deciders, TypeInv, Locals, Fits
<1>2. faults' \in Nat
  BY DEF Fail, TypeInv, TypeOK
<1>3. CallsOK'
  BY <1>1, Places, CallEnds DEF Fail
<1> QED BY <1>2, <1>3 DEF CallsOK, Fail, TypeInv, TypeOK, DirectoryTypeOK, directoryVars, requestVars

LEMMA TimeOutType ==
    ASSUME TypeInv, NEW c \in Calls, TimeOut(c)
    PROVE  TypeInv'
<1>1. faults' \in Nat
  BY DEF TimeOut, TypeInv, TypeOK
<1>2. CallsOK'
  <2>1. CASE pc[c] = "waiting" /\ Finish(c, "failed")
    <3>1. job[c] \in Job
      BY <2>1 DEF Deciders, TypeInv, Locals, Fits
    <3> QED BY <2>1, <3>1, Places, CallEnds DEF TimeOut
  <2>2. CASE lock' = Released(c) /\ UNCHANGED <<pc, view>>
    <3>1. lock' \in [Requests -> Calls \cup {NoCall}]
      BY <2>2, ReleasedType DEF TypeInv
    <3>2. UNCHANGED <<job, filer>>
      BY DEF TimeOut
    <3> QED BY <2>2, <3>1, <3>2 DEF CallsOK, TypeInv, TypeOK, Locals
  <2> QED BY <2>1, <2>2 DEF TimeOut
<1> QED BY <1>1, <1>2 DEF CallsOK, TimeOut, TypeInv, TypeOK, DirectoryTypeOK, directoryVars, requestVars

LEMMA RenameBudgetType ==
    ASSUME TypeInv, NEW s \in Scopes, NEW t \in Scopes, RenameBudget(s, t)
    PROVE  TypeInv'
<1>1. DirectoryTypeOK'
  <2>1. adminOps' \in Nat
    BY DEF RenameBudget, RenameScope, AdminOp, TypeInv, TypeOK, DirectoryTypeOK
  <2>2. budget' \in [Scopes -> Nat \cup {NoBudget}]
    BY DEF RenameBudget, RenameScope, TypeInv, TypeOK, DirectoryTypeOK
  <2>3. deptOf' \in [Users -> Scopes \cup {NoScope}]
    BY DEF RenameBudget, RenameScope, Renamed, TypeInv, TypeOK, DirectoryTypeOK
  <2>4. deleg' \in [Delegations -> DelegationRow]
    BY DEF RenameBudget, RenameScope, Renamed, DelegationRow, TypeInv, TypeOK, DirectoryTypeOK
  <2> QED BY <2>1, <2>2, <2>3, <2>4
          DEF RenameBudget, RenameScope, TypeInv, TypeOK, DirectoryTypeOK
<1>2. row' \in [Requests -> Row]
  <2>1. ASSUME NEW q \in Row PROVE RowRenamed(q, s, t) \in Row
    BY <2>1, RowTypes DEF RowRenamed, Renamed
  <2> QED BY <2>1 DEF RenameBudget, TypeInv, TypeOK
<1> QED BY <1>1, <1>2 DEF RenameBudget, callVars, TypeInv, TypeOK, Locals

LEMMA RemoveRoleType ==
    ASSUME TypeInv, NEW e \in EmployeeRoles, RemoveRole(e)
    PROVE  TypeInv'
<1>1. DirectoryTypeOK'
  BY DEF RemoveRole, DeleteRole, AdminOp, TypeInv, TypeOK, DirectoryTypeOK
<1>2. row' \in [Requests -> Row]
  BY RowTypes DEF RemoveRole, TypeInv, TypeOK
<1> QED BY <1>1, <1>2 DEF RemoveRole, callVars, TypeInv, TypeOK, Locals

LEMMA AdministerType ==
    ASSUME TypeInv, Administer
    PROVE  TypeInv'
<1> USE DEF TypeInv, TypeOK, DirectoryTypeOK, AdminOp
<1>1. ASSUME NEW s \in Scopes, NEW a \in Allocations, UpsertBudget(s, a)
      PROVE  DirectoryTypeOK'
  BY <1>1, DelegationsType DEF UpsertBudget
<1>2. ASSUME NEW s \in Scopes, RemoveBudget(s)
      PROVE  DirectoryTypeOK'
  BY <1>2 DEF RemoveBudget
<1>3. ASSUME NEW u \in Users, NEW s \in Scopes \cup {NoScope}, SetDepartment(u, s)
      PROVE  DirectoryTypeOK'
  BY <1>3 DEF SetDepartment
<1>4. ASSUME NEW e \in EmployeeRoles, CreateRole(e)
      PROVE  DirectoryTypeOK'
  BY <1>4 DEF CreateRole
<1>5. ASSUME NEW u \in Users, NEW es \in SUBSET EmployeeRoles, SetUserRoles(u, es)
      PROVE  DirectoryTypeOK'
  BY <1>5 DEF SetUserRoles
<1>6. ASSUME NEW d \in Delegations, NEW s \in Scopes, GrantDelegation(d, s)
      PROVE  DirectoryTypeOK'
  BY <1>6 DEF GrantDelegation, DelegationRow
<1>7. ASSUME NEW d \in Delegations, RevokeDelegation(d)
      PROVE  DirectoryTypeOK'
  <2>1. [deleg[d] EXCEPT !.state = "revoked"] \in DelegationRow
    BY DEF DelegationRow
  <2>2. deleg' = [deleg EXCEPT ![d] = [deleg[d] EXCEPT !.state = "revoked"]]
    BY <1>7 DEF RevokeDelegation
  <2>3. deleg' \in [Delegations -> DelegationRow]
    BY <2>1, <2>2
  <2> QED BY <1>7, <2>3 DEF RevokeDelegation
<1>8. DirectoryTypeOK'
  BY <1>1, <1>2, <1>3, <1>4, <1>5, <1>6, <1>7 DEF Administer
<1> QED BY <1>8 DEF Administer, requestVars, callVars, Locals

-----------------------------------------------------------------------------
(* Every reachable state is well typed. *)

LEMMA TypeInit == Init => TypeInv
<1> SUFFICES ASSUME Init PROVE TypeInv
  OBVIOUS
<1>1. DirectoryTypeOK
  BY InitDirectoryType, MaxAdminOpsType
     DEF Init, DirectoryInit, DirectoryTypeOK, DelegationRow
<1>2. row \in [Requests -> Row]
  <2>1. NoRow \in Row
    BY UsersExist DEF NoRow, Row, Statuses
  <2> QED BY <2>1 DEF Init
<1>3. attached \in [Requests -> Attached] /\ faults \in Nat
  BY OpsType DEF Init, Attached
<1>4. filer \in [Requests -> Filer]
  BY OcrType DEF Init, Filer, Statuses
<1>5. view \in [Calls -> View]
  BY EmptyViewType DEF Init
<1>6. Locals
  BY DEF Init, Locals, Fits, FilerFits, Deciders, Deciding, Proving, Noting
<1>7. timeline \in [Requests -> Seq(Step)]
  BY EmptySeq DEF Init
<1> QED BY <1>1, <1>2, <1>3, <1>4, <1>5, <1>6, <1>7 DEF Init, TypeInv, TypeOK

(* Steps that change nothing. *)
LEMMA StutterType == TypeInv /\ UNCHANGED vars => TypeInv'
BY DEF vars, directoryVars, requestVars, callVars, TypeInv, TypeOK, DirectoryTypeOK, Locals

LEMMA DecideStepType ==
    ASSUME TypeInv, NEW c \in Calls, DecideStep(c)
    PROVE  TypeInv'
BY AuthoriseType, ReadBudgetType, QueryTransactionsType, QueryReservationsType,
   CompareHeadroomType, RecordApprovalType, CompleteStageType, RouteToFinanceType,
   AuditDecisionType, OpenNextStageType, SettleDecisionType, CommitType,
   NotifyDecisionType DEF DecideStep

LEMMA ProofStepType ==
    ASSUME TypeInv, NEW c \in Calls, ProofStep(c)
    PROVE  TypeInv'
BY ReadForProofType, AttachFileType, TracePaymentType, AuditPaymentType,
   SettlePaymentType, NotifyPaymentType DEF ProofStep

LEMMA TypeStep == TypeInv /\ [Next]_vars => TypeInv'
<1> SUFFICES ASSUME TypeInv, [Next]_vars PROVE TypeInv'
  OBVIOUS
<1>1. ASSUME NEW r \in Requests, File(r) \/ FilerStep(r) \/ FailFiling(r)
      PROVE  TypeInv'
  BY <1>1, FileType, IngestType, CheckPolicyType, OpenFirstStageType,
     SettleFilingType, FailFilingType DEF FilerStep
<1>2. ASSUME NEW c \in Calls, StartDecide(c) \/ LockAndRead(c) \/ DecideStep(c)
      PROVE  TypeInv'
  BY <1>2, StartDecideType, LockAndReadType, DecideStepType
<1>3. ASSUME NEW c \in Calls, StartProof(c) \/ ProofStep(c)
      PROVE  TypeInv'
  BY <1>3, StartProofType, ProofStepType
<1>4. ASSUME NEW c \in Calls, StartNote(c) \/ NoteStep(c)
      PROVE  TypeInv'
  BY <1>4, StartNoteType, ReadForNoteType, WriteNoteType, NotifyNoteType DEF NoteStep
<1>5. ASSUME NEW c \in Calls, Fail(c) \/ TimeOut(c)
      PROVE  TypeInv'
  BY <1>5, FailType, TimeOutType
<1>6. ASSUME NEW s \in Scopes, NEW t \in Scopes, RenameBudget(s, t)
      PROVE  TypeInv'
  BY <1>6, RenameBudgetType
<1>7. ASSUME NEW e \in EmployeeRoles, RemoveRole(e)
      PROVE  TypeInv'
  BY <1>7, RemoveRoleType
<1>8. CASE Administer
  BY <1>8, AdministerType
<1>9. CASE AllServed \/ UNCHANGED vars
  BY <1>9, StutterType DEF AllServed
<1> QED BY <1>1, <1>2, <1>3, <1>4, <1>5, <1>6, <1>7, <1>8, <1>9 DEF Next

(* The types and the fit between a call's place and its locals hold in      *)
(* every reachable state, whatever fails or times out.                      *)
THEOREM LocalsFit == Spec => []TypeInv
BY TypeInit, TypeStep, PTL DEF Spec

(* Every reachable state is well typed: no operation, failure, timeout or   *)
(* administrator's change puts a status, step, approval or notice into the  *)
(* database that the code's types do not know.                              *)
THEOREM TypeCorrect == Spec => []TypeOK
<1>1. TypeInv => TypeOK
  BY DEF TypeInv
<1> QED BY <1>1, LocalsFit, PTL

=============================================================================
