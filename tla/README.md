# Verification of OpsFlow

OpsFlow is a multi-tenant operations assistant: employees file requests in Slack or in a chat UI,
a policy pipeline routes them, people decide them, and money that is approved is reserved against a
department's budget and paid. This directory holds TLA+ models of the backend (`backend/src`, NestJS
over Prisma and Postgres) and of the parts of the frontend (`frontend/src`, Next.js) that keep state,
the TLC runs that check them on small tenants, and proofs, checked by TLAPS, for tenants of any size.

Paths below are relative to `backend/src/modules` unless they start elsewhere; `requests.service.ts`
is meant where only line numbers are given.

## 1. The system

One Node process serves HTTP and Socket.IO; every `await` of a handler lets other handlers run, and
several instances may serve one database. What is shared is the database. Most writes go through
`this.prisma` and commit on their own; few are grouped in a transaction. Browsers keep copies of what
the server told them and are told of changes by signals that carry no data.

| component | state it keeps | operations that change it | correct when | modules |
|---|---|---|---|---|
| **requests** (`requests/`) | `Request`, `Attachment`, `ExecutionStep`, `Approval` rows, an advisory lock per request | `create`, `runPipeline`, `decide` (manager, finance, escalated and role stage), `attachProof`, `recordProgressNote`, `addReporterToRequest` | one decision per stage; an outcome has a decision and an audit entry behind it; only a progress note moves a final status; the timeline shows the stage that waits; no lost reporter | `Requests`, `RequestRules`; reporters in `Conversation` |
| **budgets** | `Budget` rows; spent and reserved are computed from requests | `upsert`, `remove`, `rename` | commitments stay within the pool; approved money is counted once, as decided; a rename strands nothing | `Directory`, `RequestRules`, `Requests` |
| **finance delegations** | `FinanceDelegation` rows | `create`, `revoke` | only an active delegation with a sufficient limit authorises | `Directory` |
| **employee roles** | `EmployeeRole`, memberships, broadcasts | `create`, `update`, `remove`, `setUserRoles`, `broadcast`, `notifyRoleForRequest` | what a role must decide, that role decides; those messaged are those who can act; the history claims what was posted | `Directory`, `Routing` |
| **users** | `User` rows: role, department, active and leave flags, Slack link, team lead | `create`, `updateProfile`, `changePassword`, `unlinkSlack`, `updateRole`, `setActive`, `removeEmployee`, ... | a tenant keeps an administrator, everybody a way to sign in, history its author; an administrator every role | `Accounts`, `Routing`, `Directory` |
| **auth, Slack OAuth** (`auth/`) | JWTs, the tenant's bot token, Slack links | `login`, `completeInstall`, `completeSlackLogin` | one account per Slack member | `Accounts` |
| **platform administration** (`platform/`) | platform admins, tenants | sign-in, `createAdmin`, `setAdminActive`, `deleteAdmin`, `setActive`, `deleteTenant`, tenant administrators | a global administrator remains | `Accounts`, `Console` |
| **guards and filters** (`backend/src/common`) | none | look at account and tenant on every call; map database errors to answers | a blocked account is cut off at its next call | `Accounts`, `Desk` |
| **Slack ingestion** (`slack/`) | seen event ids in memory, provisioned users, attachments | `handleEvent`, `ingestFile` | a redelivered event is handled once | `Conversation`, `Requests`, `Accounts` |
| **assistant** (`assistant/`) | conversations, messages | `sendMessage`, the loop of model and tool calls, its retries | a turn files what it asks for once; replies say what happened; threads keep to their user | `Conversation`, `Requests` |
| **notifications, realtime** | `Notification` rows, Socket.IO rooms | `create`, `markRead`, `markAllRead`, `handleConnection`, emits | a page that has heard everything shows everything it may | `Desk`, `Requests` |
| **audit logs** | `AuditLog` rows | `record` | an outcome has its entry, an entry its actor | `Requests`, `Accounts` |
| **frontend: session, lists, bell** | token in `localStorage`, socket, list, bell | `RequireAuth`, `wireRealtimeAuth`, the answer interceptor, `RequestsList`, `NotificationBell` | see realtime; the socket follows the token | `Desk` |
| **frontend: administration pages** | a copy of rows per page, pending flags | every form that saves, on ten pages | a page at rest shows what is stored; flags match calls | `Console` |
| **policies, tenants, llm, OCR, storage** | documents, chunks, tenant settings | upload, settings | | seen from their callers only |
| **scripts, configuration** | none | | | not modelled |

How they interact. The assistant and Slack call `create` and `runPipeline`. `decide` reads
delegations, memberships and budgets, and budgets are computed from the rows requests write.
Department names are plain strings in four tables, kept in step by `rename` alone. Deleting a role
sets `routed_role_id` to null on requests that wait for it
(`backend/prisma/migrations/20260821204959_add_role_based_approval/migration.sql:16`). Promoting
somebody to administrator gives them every role. Whatever is decided is announced by bell
notifications, Slack messages and change signals after the transaction of `decide` has committed.

What is hard in it:

- `decide` takes `pg_advisory_xact_lock` inside an interactive transaction (646-648), but its stage
  helpers write through `this.prisma`, outside that transaction. The lock excludes other decisions
  of the same request for as long as the transaction lives; it makes nothing atomic, and it is gone
  after the 20 s timeout (726) while the callback runs on.
- `attachProof` and `recordProgressNote` take no lock; both check, await, and write.
- The budget check (931) reads under the lock of one request; other requests draw on the same pool.
- Administration (renames, revocations, deletions, promotions) happens between any two awaits; a guard
  reads the account once, before the handler.
- Any query, upload, post to Slack or model call may fail in the middle; no background job resumes
  anything. What is in memory (seen Slack events, open turns) is gone after a restart.
- In the browser, answers arrive in any order, a call may be carried out although its answer is lost,
  and a connection that is renewed loses what was sent meanwhile.

`PROJECT.json` lists these as hazards, each at its line, with the properties that watch it, or why none
does.

## 2. The modules

| module | models |
|---|---|
| `RequestRules` | the constants (users, roles, scopes, requests) and the pure rules: where the pipeline routes a request, who may decide, where a decision leads, what counts as spent or reserved |
| `Directory` | what administrators keep: departments, pools, roles, memberships, delegations, and the operations on them |
| `Requests` | `RequestsService` as concurrent calls, one action per await; composes `Directory` |
| `ApprovalFlow` | the abstract view: a request waits at a stage, one decision is taken there, decision and move are one event |
| `RequestsProperties` | the properties of requests, the refinement mapping to `ApprovalFlow`, fairness |
| `RequestsInvariants` | the inductive invariants behind the theorems about requests |
| `Accounts` | users, platform staff, one tenant and its bot: sign-in, installation, provisioning, account and platform administration behind the guards |
| `Routing` | the role catalog, memberships as transactions with row locks, broadcasts, the message to a role with its fallbacks, promotion with its second statement |
| `Conversation` | a message from its delivery (Slack event or POST) over the thread and the tool loop to the reply, with redelivery, retries and a restart |
| `Desk` | one browser tab against the server: token, other tabs, socket, signals, request list, bell |
| `Console` | the administration pages: forms, pending flags, patches and refetches, calls answered in any order or not at all |
| `MCRequests`, `MCAccounts`, `MCRouting`, `MCConversation`, `MCDesk`, `MCConsole` | small instances for TLC |
| `RequestsProofs` | `Spec => []TypeInv`, `Spec => []TypeOK` of `Requests` |
| `DecisionProofs` | `Spec => []OneApprovalPerStage` when calls do not fail |
| `OutcomeProofs` | the other safety properties of requests, and that `Requests` implements `ApprovalFlow` |
| `AccountsProofs` | all invariants and action properties of `Accounts` |
| `RoutingProofs` | all of `Routing` |
| `ConversationProofs` | all of `Conversation` |
| `DeskProofs` | the invariants of `Desk` |
| `ConsoleProofs` | all of `Console` |

`Requests` composes `Directory` (it `EXTENDS` it and runs its operations between the awaits). The other
modules are separate machines over disjoint concerns; where two touch one table (memberships in
`Directory` and `Routing`, users in `Accounts`, `Routing` and `Console`) each keeps the columns its
properties need.

### Requests

State. `row`, `attached`, `timeline`, `approvals`, `audited`, `notices` are the rows of `Request`,
`Attachment` (folded into their number and the sum of their totals), `ExecutionStep`, `Approval`,
`AuditLog` and `Notification`; `deptOf`, `budget`, `catalog`, `holds`, `deleg` are `User.department`,
`Budget`, `EmployeeRole`, `UserEmployeeRole`, `FinanceDelegation`. `lock` is the advisory lock. A call has
a `job` (what it was asked), a `pc` (the await it has reached) and a `view` (its local variables).
`filer` is the call that files a request.

Actions:

- filing: `File`, `Ingest`, `CheckPolicy`, `OpenFirstStage`, `SettleFiling` (116-165, 518-627, and
  `slack.service.ts:136-173,275-322` when files come along);
- deciding: `StartDecide`, `LockAndRead`, `Authorise`, `ReadBudget`, `QueryTransactions`,
  `QueryReservations`, `CompareHeadroom`, `RecordApproval`, `CompleteStage`, `RouteToFinance`,
  `AuditDecision`, `OpenNextStage`, `SettleDecision`, `Commit`, `NotifyDecision` (631-1090,
  1434-1573, `budgets.service.ts:147-277`). The four stages share the order of their writes, so they
  share the actions; where they differ (who may decide, whether the budget is checked, which step is
  closed, where the request goes) the rule differs;
- proof of payment: `StartProof` ... `NotifyPayment` (1102-1201);
- progress notes: `StartNote` ... `NotifyNote` (`assistant/agent/assistant.tools.ts:374-428`, 287-347);
- failure: `FailFiling`, `Fail`, `TimeOut`; a failed call keeps what it wrote;
- administration: the operations of `Directory`; `RenameBudget` and `RemoveRole` also reach into
  request rows.

Coarser than the code: a step write (`addStep`, `completeStep`) reads and writes in one action.
Creating a request and seeding its first step is one action, as is closing that step, citing policies
and adding the step `Routing for Approval`: nobody else touches a request before its status leaves
`PENDING_POLICY_CHECK`. `rename`'s look-ups and its transaction are one action; two renames to one name
make the second transaction fail on the unique key. Amounts are whole numbers. The two escalation
steps have one name. When a role has been deleted under a request, the lookup of its holders is called
with null, which Prisma refuses; the model says "not authorised".

### Accounts

`user`, `staff`, `tenant`, `session` are the rows and who holds a token; `orphaned` and `exposed` are
history: users whose audit entries lost their actor, and Slack members whose address an account gave up
or whom an administrator typed into an account. A call is admitted by `Start`, which is the guards reading the account, then reads
(`CheckEmail`, `CheckPassword`, `CountHistory`, `RequireGlobal`, `CountUsers`, `MatchIdentity`,
`MatchAddress`) and writes, an action each. `Accepted` is what Postgres takes: rows an update needs, the
unique address, the foreign keys. Roles are two, as only `SYSTEM_ADMIN` matters to the guards modelled.
Passwords and addresses are whether there is one and which.

### Routing

`name` and `holds` are the rows of roles and memberships, `person` what routing reads of a user, `sent`
and `refused` the posts of a call that Slack took or answered with `ok: false`, `record` its broadcast
row. `SeeMemberships`,
`DeleteMemberships`, `InsertMemberships`, `RollBack` are the transaction of `setUserRoles` at READ
COMMITTED; the rows it has deleted and not committed are `Locked`, which is Postgres' doing and not the
code's. A message goes out by `Post`, one recipient each. `deliverToAll` does not look at the answer, so a post
that Slack refuses counts as delivered; only a post that throws, `FailPost`, does not.
`Record` inserts the broadcast row. `Toggle` is any single flag of a user changing (leave, an approved
leave request that covers today, block, Slack link). `role` and `target` are what a call has read and chosen. History: `surely`, the holders who could be
messaged ever since the call began; `standby`, the administrators who could; `away`, who was away all
along, and how; `promised`, the roles the last promotion of a user has read and nobody has taken since.

### Conversation

`recent` is the in-memory set of seen event ids in the order they were marked, `since` history: what was
marked after each. `Deliver` marks and starts (`Begin`), `Restart` empties both and loses the calls.
`missed` is history too: the reporters put on a request's list since a join read it. It counts whoever
appears on the list, also somebody whom a stale write has put back there. `FindConversation`, `CreateConversation` (which also
insert the question and the empty reply), `CallTools`, the tool actions, `Retry`, `SaveAnswer`,
`SaveFallback`, `Touch` are the turn. The browser may name any conversation (`job.named`), one that
began in Slack included, and is refused those of other accounts (`RefuseConversation`). `FailTurn` is a
statement of `sendMessage` itself that fails; if it is the update that fills in the reply, the reply
stays empty for good, and the caller gets an error. The model is external: at each point it may answer, ask for any set
of `ToolCalls`, or fail in a transient way or for good. `FailTool` is a tool that throws and hands the
error to the model.

### Desk

`account`, `rows`, `note` are the server's; a change of a request or an insert of a notification and its
emission are two actions, because they are two steps in the code. `token` is `localStorage`, `nudge` a
storage event on its way, `socket` the connection, `wire` what Socket.IO has yet to deliver in order,
`list` and `bell` the two components, `calls` the REST calls; one whose component is gone (`live` no more)
goes on, and its answer is ignored unless it renews the token. So does the timer of a list that is gone
(`orphans`, `FireOrphan`): nothing clears it, and its reload is sent with whatever token is there by then.

An account sees every request if it is staff, else its own and those in `Routed` if it `holds` the role.
Signals go to the staff and the requester, and to the holders of the role only where the code adds them
(`Addressed`); a joined reporter is announced to nobody (`KeepQuiet`). `excuse` and `unseen` are history:
why the list, and which notifications the bell, may lack. A change that was not signalled to the account on
the page leaves the excuse `unsignalled`.

### Console

A page is a function `shown` from cells (row and field) to values, the database another (`stored`); ten
pages share the machine and differ in their fields, forms and in what a form patches or fetches again
(`Patched`, `Refetch`, `Reads`). `Raised` and `Lowered` are the pending flags. A call is `asked`,
`served` or refused, then answered (`Arrive`), lost (`Fail`) or its component is gone.

Some answers leave columns out (`Narrow`): a profile's has no tags, a request's no steps, and that of
`create` no tags although a new administrator was given all of them after the row was read. The page shows
such cells blank (`Blanked`). The fetch that follows owes them (`Wanted`), so that losing it leaves them
behind; the profile page fetches nothing and forgoes them (`Forgone`). `behind` is history: cells
that changed, or were blanked, without any open call due to bring them.

## 3. The runs

| run | question | instance | result |
|---|---|---|---|
| `Decisions` | Do overlapping decisions and proofs ever record two decisions at a stage, count money nobody approved or fail to count it, tell two outcomes, show the wrong stage? Is a decision atomic (`ApprovalFlow`)? | 1 request, 3 calls that may all overlap | holds |
| `Live` | Is every call answered and every filing routed, with a failure or a timeout, and does an outcome keep its trail? | `FairSpec`, 2 overlapping calls of every kind, 1 fault of either kind | holds |
| `Budget` | Is a pool ever overdrawn if calls do not overlap? | 2 requests, 3 calls, one at a time | holds |
| `Admin` | Does a request that a role must decide end otherwise than by that role, by a progress note or by the role's deletion? Does anything but a note, or a decision that a note has overtaken, move what is settled? Does a rename of a department strand history? | 3 decisions, proofs and notes, 2 at a time, 1 operation of administrators anywhere between their awaits, 3 scopes, 2 roles, 2 delegations | holds |
| `Overdraw` | `NoOverdraw` when calls overlap | 2 requests, 2 decisions | violated |
| `DecidedTwice` | `OneApprovalPerStage` with a transaction timeout | 2 decisions, 1 timeout | violated |
| `Accounts` | Is anybody locked out, a Slack member given two accounts, a tenant or the platform left without administrator other than by a call let in before its actor lost the role? | 2 administrators, room for 2 more accounts, 3 staff, 2 Slack members, 3 calls of 26 operations, 2 at a time | holds |
| `HistoryErased` | Does an audit entry keep its actor when an employee is removed? | 2 calls | violated |
| `Routing` | Does a message to a role reach whoever could act all along and nobody who was away, is it forwarded only if there was no one, does the history of broadcasts count what was posted, does a new administrator end up with the roles there were? | 3 users, 2 roles, 2 overlapping calls, 2 changes around them | holds |
| `Conversation` | Does a retry repeat effects, do replies tell the truth, do threads stay with their owner, is an event handled twice only when it was crowded out, is a reporter lost only to an overlap? | 2 users, 2 Slack events, 2 calls, 1 remembered event, 1 restart | holds |
| `Desk` | Are list and bell right once all is quiet, but for what nobody told the page, does the socket follow the token, is a blocked account signed out? | `FairSpec`, 2 users of whom one holds a role, 1 request routed to it, 1 notification, 1 move of people or network besides the page's own work | holds |
| `Console` | Is a page at rest true, do flags match calls, does saving tags drop a tag other than the one clicked only if the row had changed unseen? | 10 pages, 2 rows and a third to create, 2 tags and a third, 3 calls in flight, 2 or 3 events | holds |

The instance of the runs of requests: an administrator, a finance approver, a manager (who is also the
delegate of one delegation with limit 2) and an employee; one role `hr` held by the manager and the
employee; a pool of 3 for the department `it`. Filings take every shape the pipeline tells apart. Amounts
are 1 and 2 and OCR finds 0 or 2, so that two requests fit a pool of 3 or exceed it, and a verified
total can be missing, equal to or different from a stated one.

Why the bounds are enough. A conflict between decisions needs two calls; the third of `Decisions` lets a
conflict be preceded or followed by a completed stage (a manager's approval followed by two finance
decisions) and lets proofs meet decisions. The run also checks `DecidedInv`, the invariant the proofs of
section 4 carry, so that TLC has looked at what TLAPS is asked to prove. One request suffices for
properties of one request, since calls on different requests only meet through pools, which `Budget` and
`Overdraw` cover with two.
`MaxInFlight` is 1 where the question is about sequential behaviour. In `Admin` three calls are what it takes
to get money approved twice and paid, two of them overlap, and one operation may fall anywhere between: a
note that meets a decision, or a decision that meets the change of what it is judged by. Renames after
removals and the like are left to the proofs, which put no bound on operations. In `Accounts` the
third call changes what the two before it did, and two administrators are the fewest who can demote each
other. In `Routing` and `Conversation` two calls overlap with every single change around them; one
remembered event stands for 500, so that crowding out takes two events. In `Desk` a page that opens has
three calls in flight and a move is a sign-out, a write by another tab, a block, a promotion or a lost
connection at any point among them; a second move mostly repeats the first and multiplies the
states.
`MaxEvents` of `Console` is 2 on the page of users, whose six forms share calls, and 3 elsewhere, so that
an answer can be overtaken; `Touched` names the fields somebody else changes, one for each way a page
treats a field (replaced as a set, patched, never fetched again).

`CHECK_DEADLOCK` is switched off in `Console` only: when the bounded clicks are used up and everything is
answered, the page just stands there. Elsewhere the state with nothing left to do is named by
`AllServed`.

What the violated runs mean. Each contradicts a sentence of the repository that `PROJECT.json` quotes:

- *Overdraw.* Two approvals of different requests both read the headroom before either writes its
  status. The lock is per request, so the guard the comment at 924-928 describes holds only when
  approvals do not overlap, which is exactly what `Budget` shows.
- *DecidedTwice.* After 20 s Prisma rolls the transaction back and the lock is free, while the callback
  still has writes to make. The same duplicate arises when a call fails between `recordApproval` and
  `setStatus`, because those writes are not part of the transaction.
- *HistoryErased.* `removeEmployee` counts history and deletes in two statements and relies on foreign
  keys that refuse; the one of `audit_logs` sets null instead. `deleteTenantAdmin` does not count at all.

Met while modelling and not kept as runs: a request of which `backend/prisma/schema.prisma:324-326` says
that "a role-holder must actually decide it" is completed without a decision by a progress note, its
requester's included (`RoleMustDecide` says exactly how far the promise goes); a created administrator is
shown without roles as long as the fetch after it fails; a progress note may complete a request that waits for payment,
so that its reservation vanishes; a proof upload that fails after its first file leaves a request whose
money counts nowhere and cannot be retried; two overlapping proofs are both accepted; renaming the pool
`ALL` leaves the history of requests without a department behind. `PROJECT.json` has the first three as
hazards; `RenameKeepsDepartments` leaves the last out.

**Fairness.** `FairSpec` of `RequestsProperties`: `WF` on the steps of a filing and of a call, because once
an awaited query returns, Node resumes the handler, and nothing in a handler waits for another one
except the advisory lock; `SF` on `LockAndRead`, because Postgres queues the waiters of an advisory lock,
so a call that finds it free again and again is served. No fairness is assumed of administrators, of new
calls, of failures or of timeouts. `FairSpec` of `Desk`: `WF` on what the browser's event loop and the
server do by themselves (handshake, delivery, a timer, a storage event, an answer to a call); none on
people, the network's failures, or the server's choice of when to signal.

**Mutants.** Every property of a passing run has a mutant in `PROJECT.json`: a definition changed as a
plausible bug would change the code, which the run must then refute. They are the definitions commented
`Mutant:` next to the ones they stand in for.

## 4. The proofs

`RequestsProofs` proves `Spec => []TypeOK` for all values of the constants that satisfy the named
assumptions of `RequestRules`, `Directory` and `Requests`. `TypeOK` is not inductive: that the status a
call writes is a status, and the notice it sends is a known one, depends on which operation brought it
to that point. `TypeInv` adds `Locals`: a call at a decision's pc carries a decision job and has read a
pending stage, a call at `routing` or `opening` is a manager's approval, the next stage it opens
is one that `AwaitingStep` knows, and a filing that is about to settle has somewhere to go. The proof has
one step per action and, below it, one per conjunct the action disturbs; lemmas on appending to and
closing steps of a timeline are stated once.

`DecisionProofs` proves `FaultKinds = {} => (Spec => []OneApprovalPerStage)`. The inductive invariant is
`DecisionInv`:

- `FiledFirst`: nobody works on a request before its pipeline is done, so the pipeline cannot put a
  decided request back to its first stage;
- `LockHeld`: a call between taking the lock and committing holds the lock of its request, so two such
  calls never share a request. This is what fails with timeouts;
- `OneApprovalPerCall`: a call writes one approval, for the request it locked and the stage it read;
- `Onwards`: only a manager's approval leads to another pending stage;
- `EarlierDecisions`, `OpenDecisions`: whoever is deciding at a stage, or could start to, finds
  only decisions of a stage before it. That the manager's stage precedes the two others and no stage
  is visited twice is what makes "one per stage" true over any number of calls.

The assumption `FaultKinds = {}` is needed: `DecidedTwice` is a counterexample without it. Proofs of
payment, notes and administration are part of the proof. `SlackFilings`, an assumption of `Requests`, says
which filings come with files: those of Slack, which state no amount and name no scope or role
(`slack.service.ts:137-146`).

`OutcomeProofs` proves the rest, in layers that TLC checks together as `DecidedInv` in `Decisions`
(`RequestsInvariants` has the definitions). Each theorem assumes only what its layer needs:

| theorem | without timeouts and notes | without failures | invariant |
|---|---|---|---|
| `OutcomeTrailProved` | | | `TrailInv` |
| `RoleMustDecideProved` | | | `RoleInv` |
| `RenameProved` | | | `TypeInv` |
| `SettledStaysProved` | only without timeouts | | `NotedInv` |
| `CountedMoneyProved` | needed | | `SettleInv` |
| `OneOutcomeToldProved` | | needed | `ToldInv` |
| `ApprovedMoneyProved` | needed | needed | `PaidInv` |
| `TimelineProved`, `DecisionsAtomicProved` | needed | needed | `ShownInv` |
| `NoOverdrawProved`, `UntouchedBudgetsProved` | needed | | `HeadroomInv`, one call at a time |

- `NothingUnderneath` is `"timeout" \notin FaultKinds /\ "note" \notin Ops`. A transaction that has timed out
  and a progress note have one thing in common: they write the status of a request that another call
  holds the lock of, or take the lock from under it. A note completes what is rejected, or waits for
  payment, or is being decided (318), which is listed as a hazard. What holds in spite of them is proved
  in spite of them.
- `TrailInv`: an approval is recorded before the audit entry, the entry before the status, so whatever a
  failed call leaves out is what comes later; the status that a call is about to write is one its own
  approval allows.
- `RoleInv`: a request for a role to decide carries no money, so no other stage can approve it, and a call
  that is about to write its status holds an approval of the role stage by somebody other than the
  requester. Notes are part of it: who writes one was allowed to when the note began, and still is as
  long as administrators have changed nothing.
- `NotedInv`: with the lock in force, the status a decision has read is still there, or a note has
  completed the request meanwhile. This is what is left of `SettleInv` when notes are written.
- `SettleInv`: between two writes of a call its request has the status the call read, and its amount and
  role are those that were read; whoever settles it has an approval that says so. `LockHeld` of
  `DecisionInv` is what keeps other decisions away, `PaysOut` and `GetsStatus` name the few steps that
  write a status at all. A request becomes transaction or reservation only by such a step.
- `ToldInv`: a notice belongs to an approval, and approvals that finish a request are alone.
- `PaidInv`: approved money without a proof is reserved, and a request that waits for payment with proof
  attached has a call at work on it that will complete it.
- `ShownInv`: between `completeStep` and `addStep` the timeline shows nothing, after `addStep` the stage
  that the status will name; a stage is entered once, so that closing the latest step of its name closes
  the right one;
- `HeadroomInv`: what a call has read of a pool is still so, and an amount that it has found room for, or
  is about to turn from reserved into spent, keeps its room (`Room`) until its write. `MaxInFlight = 1` is
  needed, as `Overdraw` shows, while filings and failures may come in between. So is that administrators
  have changed nothing yet (`Untouched`): they may cut an allocation below what is spent
  (`UntouchedBudgetsProved`; with `MaxAdminOps = 0`, the instance of `Budget`, it is `NoOverdrawProved`). A
  proof of payment that fails after its first file takes its reservation out of every sum, which is a
  hazard of another kind, and no overdraft.

  Amounts are sums over finite sets of requests, by the library's `SumFunctionOnSet`. That such a sum is
  defined, is a natural number, splits off any member (`SumWithout`) and depends on its members' values
  only (`SumSame`) is proved without an induction rule: among the finite sets that violate the claim there
  is one without a smaller one (`SmallestSubset`, from the well-foundedness of strict subsets), and one
  step of the recursion refutes it. `OneMoves` then says that when one request moves, a pool moves by
  what that request counts for, before and after. TLC checked `HeadroomInv` on the instance of `Budget`
  with a failure added before it was proved.

`StepKinds` sorts the steps of `Requests` once into those of a filing, of a call and of administration, of
which only the last touch the directory. Every invariant then says what it needs of each kind, and lemmas
such as `Changes` say who writes a status, an approval or a timeline. `DecisionsAtomicProved` is the
refinement of `ApprovalFlow`: the decision happens at the write of the status, approvals of calls that have
not come that far are hidden, and each step maps to one step of `ApprovalFlow` or to a stutter.

`AccountsProofs` proves every invariant and action property that `Accounts` checks, for any number of
accounts, staff, Slack members and overlapping calls:

- `AccountsTyped`: `TypeOK` with `LocalsFit`, which says that an open call carries a job that passed
  the guards and a linking call an account;
- `NobodyIsLockedOut`: `NeverLockedOut` with `UnlinkersHavePasswords`. The look at the password and the
  unlinking are two steps; no action takes a password away, so what the look saw still holds;
- `SlackIdentityIsOneAccount`: `OneAccountPerSlackIdentity` with `AddressesUnique` (the unique index),
  `LinksFit` (an account is linked to the member whose address it has) and `LinkersFit` (so is the
  account a sign-in is about to link). The exception `exposed` is what these need: a change of address
  gives the old one up, and a typed Slack id owes nothing to an address;
- `LastAdminTheorem`, `LastGlobalTheorem`: the two action properties. One step takes away at most the
  account its call is about, which is never the actor's own, so an actor who still is an active
  administrator remains one.

They rest on `InitSound`: at the start addresses are unique, every account has a way in, and its link, if
any, fits its address; and on users and staff having different ids.

`RoutingProofs` proves what `Routing` checks, with no hypothesis but the assumptions of the module
(`UsersFinite` among them, as recipients are counted):

- `TypeCorrect`: memberships name roles that exist although roles are deleted under an open transaction,
  because a deleted row takes its memberships with it and an insert looks at the catalog again;
- `RecordedProved`: `DeliveryInv` follows a delivery: those who were sent the message, those to whom Slack
  refused it and those still to come are apart and make up the target, so a row that is written when
  nobody is left counts the first two, and what it claims too much is exactly `refused`;
- `CoversProved`: `promised` of a user is what the catalog read by the last promotion offered, less what was
  deleted or saved away since; the insert brings all of it or, if one of those roles is gone, fails
  and promises nothing. Overlapping promotions and saves of the same user are part of it;
- `PagesProved`: `NoticeInv`. A call has found the role by its name. A name goes to another role only
  through being free, and whoever loses or changes the role drops out of `surely`; so who could act ever
  since is among the holders the call reads, and whom the look at leave finds away may not be paged. The
  fallback to the administrators is a different promise: it is taken only when `surely` is empty, and
  then reaches all of `standby`, the requester and those on leave among them.

`ConversationProofs` proves what `Conversation` checks, with no further hypothesis:

- `TypeCorrect`, `ThreadsProved`: `TypeInv` with `ThreadFits`, that a turn past the lookup has a live thread
  of its own account, and of its own channel unless the browser has named one of Slack's, and `Recorded`, that live threads are among those ordered by their last
  use, so that the latest of some is one of them;
- `CrowdedOutProved`: `MarkInv`: each remembered event was marked after those before it, and an event that
  is marked and not remembered has a full sequence marked after it. A sequence without repetitions
  has as many members as positions, which gives the number;
- `ReportersProved`: `JoinFits`: what is on a list is on the copy a join will write back, or in `missed`. The
  first attempt failed: with `missed` defined as the reporters who joined, a third join may read the
  list after a stale write has put somebody back, whom its own write then removes again. The history
  now counts whoever appears;
- `RetryProved`, `RepliesProved`: `TurnInv`: before tools have run nothing is filed, so an attempt that is
  given up has filed nothing, and the result of the loop is at all times what an answer would have to
  name. A reply is empty only while its turn is at work, or when the turn failed or was lost.

`DeskProofs` proves the invariants `Desk` checks. `DeskInv` joins four, and says for every state, busy or at
rest, where the news is that a page has yet to show:

- `MountInv`: without pages nothing is shown and nobody waits, and without wiring there is no connection;
- `SocketFollowsTheToken` is inductive with it, because a resync closes, reopens or marks what it finds;
- `FreshInv`: while nothing but a late answer excuses the list, an answer on its way that is not late is
  what the server would say now, up to changes not yet signalled (one that was never announced to the account
  has become an excuse), or a timer, a signal or a load not
  yet served will bring another; without any excuse the same holds of the list itself, or an answer is
  still to come. `QuietMeansFresh` alone is not inductive: it says nothing while a call is in flight;
- `BellInv`: a notification of the account is not yet emitted, on the wire, in the bell or in `unseen`, or
  an answer has it that was served to this account after the insert.

TLC checked these four on the instance of `Desk` with a second move before they were proved.

`ConsoleProofs` proves what `Console` checks, on all ten pages and for any number of rows, tags, calls and
clicks; `PagesType`, that the pages are among those with fields, is all it assumes of the pages:

- `TypeCorrect`: `TypeInv` says of the database that leads, memberships and tags exist (foreign keys with
  `SetNull` and `Cascade`) and that ids not given out yet are nobody's. Of the page, whose copies may be
  behind, it says less: each cell shows a value of its field, and what was created is appended by one
  answer only, so that no row is shown three times;
- `QuietPagesAreTrue`: `QuietInv`. Each cell is `Settled`, or an open call owes it: its answer brings it, or
  the fetch that follows the answer does (`Brings`), what the answer left out included, and an answer that is not true any more is known to be
  `late`. A deleted tag is the one thing that is neither: the answer of the delete takes it from every
  row by a patch, so that a row is settled up to the tags that are `Going`;
- `OnlyOverlapsTakeTags`: `TagInv`, of a save that was clicked on a row which `QuietInv` makes true. The
  property first said in addition that the tag lost is one the page showed at the time of the save. That
  held within the bounds of the run and is false with one more event: another save's answer may take the
  tag from the copy first. It now says what the code promises, and is proved. A row counts as up to date when its tags are
  neither `behind` nor due from an open call, so that the blank tags of a created administrator do not
  pass for current;
- `FlagsAreRight`: `FlagInv`. Forms with one flag for the page have at most one call at a time; a row's
  flag has a call for that row.

Footprints of the operations (`Footprint`) say once what each changes and how the page hears of it; the invariants
are then proved per kind of step (a click, service, an answer, a loss, a change elsewhere) rather
than per form. TLC checked the invariants on the instance of `Console` before they were proved.

Only model-checked: liveness (`EveryCallIsAnswered`, `FilingsAreRouted`, `BlockedIsSignedOut`), which is out
of the prover's reach under fairness, as is anything with `ENABLED`. Every invariant and every action
property that a passing run checks is also the statement of a theorem. No module declares a `RECURSIVE`
operator, so all of them can be proved about.

## 5. Not modelled

- Settings that are one update of one row and that nothing else checks: the manual Slack configuration
  of a tenant (`updateSlackConfig`), the profile of platform staff on the server, a user's change of
  name. The insert of a tenant (`createTenant`) is seen from the console only, as every other model is
  of one tenant; that queries filter by tenant is not modelled either.
- The expiry of tokens, and the time window of a delegation: no model has a clock. A delegation counts
  while it is not revoked.
- Text: chunking, embedding and ranking of policies, OCR, prompts, what the model writes, Slack message
  bodies. Where the control depends on them (which route the pipeline takes, which total is found, which
  tools are called) they are choices of the models.
- Dashboards, analytics, exports and lists that only read.
- The chat window, navigation, themes and layout of the frontend.
- The pool of database connections: its size is configuration. That each decision needs a second
  connection while it holds one is listed as a hazard.
- Scripts, configuration and bootstrap.

## 6. Plan

1. The order of the timeline (`addStep` as two statements) and the connection pool, each with the
   statement of the repository it would be measured against.
2. The chat window of the browser over `Conversation`: a reply that streams over the socket while the POST
   that persists it is on its way.
