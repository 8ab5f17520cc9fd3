------------------------------ MODULE Accounts ------------------------------
(***************************************************************************)
(* Who may sign in to a tenant and what administrators do to accounts:     *)
(* UsersService, AuthService, SlackOAuthService, the provisioning of       *)
(* SlackService, PlatformAdminService, TenantsService and the two guards.  *)
(*                                                                         *)
(* A call is admitted by the guards, which read the account once; what it  *)
(* does afterwards it does with what it read.  Each later read and each    *)
(* write is an action, so that other calls run in between.  One tenant is  *)
(* modelled, in a Slack workspace where every member has one address.      *)
(***************************************************************************)
EXTENDS Naturals, FiniteSets

CONSTANTS
    Users,        \* ids of User rows
    Staff,        \* ids of PlatformAdmin rows
    Emails,
    SlackIds,     \* members of the tenant's Slack workspace
    NoSlack,
    NoOne,
    AddressOf,    \* the address in each member's Slack profile
    Calls,
    Ops,          \* the operations of this instance
    InitUser,     \* User rows at the start
    InitStaff,    \* PlatformAdmin rows at the start
    InitSession,  \* accounts that are signed in at the start
    MaxOpen       \* calls that may overlap

Roles == {"SYSTEM_ADMIN", "EMPLOYEE"}

\* Rows that refer to a user: "held" stands for requests, approvals,
\* delegations and broadcasts (ON DELETE RESTRICT), "audit" for audit_logs
\* (ON DELETE SET NULL).
Ties == {"held", "audit"}

UserRow == [state : {"free", "live", "gone"}, role : Roles, active : BOOLEAN,
            email : Emails, password : BOOLEAN, slack : SlackIds \cup {NoSlack},
            ties : SUBSET Ties]

StaffRow == [state : {"free", "live", "gone"}, active : BOOLEAN, global : BOOLEAN]

ASSUME AddressType == AddressOf \in [SlackIds -> Emails] /\ NoSlack \notin SlackIds
ASSUME InitType ==
    /\ InitUser \in [Users -> UserRow]
    /\ InitStaff \in [Staff -> StaffRow]
    /\ InitSession \subseteq Users \cup Staff
    /\ NoOne \notin Users \cup Staff
    /\ Users \cap Staff = {}
ASSUME InitSound ==
    \A u, v \in Users :
        /\ InitUser[u].state = "live" /\ InitUser[v].state = "live"
             /\ InitUser[u].email = InitUser[v].email => u = v
        /\ InitUser[u].state = "live" =>
             /\ InitUser[u].password \/ InitUser[u].slack # NoSlack
             /\ InitUser[u].slack # NoSlack =>
                  InitUser[u].email = AddressOf[InitUser[u].slack]
ASSUME MaxOpenType == MaxOpen \in Nat \ {0}

VARIABLES
    user,       \* User rows
    staff,      \* PlatformAdmin rows
    tenant,     \* the Tenant row: exists, active flag, bot token present
    session,    \* accounts a JWT has been issued to
    orphaned,   \* users whose AuditLog rows have lost their actor
    exposed,    \* Slack members whose address an account gave up, or whom an
                \* administrator typed into an account (history)
    job,        \* what each call was asked to do
    pc,         \* where each call is
    found       \* the account each call has looked up

rows  == <<user, staff, tenant, session, orphaned, exposed>>
vars  == <<rows, job, pc, found>>

-----------------------------------------------------------------------------
(* What is asked *)

OnMyself == {"password", "unlink"}
OnOthers == {"promote", "demote", "block", "unblock", "remove"}
BySlack  == {"install", "slackLogin", "message"}
OnStaff  == {"blockAdmin", "unblockAdmin", "deleteAdmin"}
OnTenant == {"blockTenant", "unblockTenant", "deleteTenant"}
OnTenantUser == {"blockTenantUser", "unblockTenantUser", "deleteTenantAdmin"}

Job ==
    [op : {"create"}, by : Users, email : Emails, slack : SlackIds \cup {NoSlack},
     role : Roles] \cup
    [op : {"createTenantAdmin"}, by : Staff, email : Emails, slack : {NoSlack},
     role : {"SYSTEM_ADMIN"}] \cup
    [op : {"email"}, by : Users, email : Emails] \cup
    [op : OnMyself, by : Users] \cup
    [op : {"work"}, by : Users, tie : Ties] \cup
    [op : OnOthers, by : Users, on : Users] \cup
    [op : {"login"}, by : {NoOne}, email : Emails] \cup
    [op : {"platformLogin"}, by : {NoOne}, on : Staff] \cup
    [op : BySlack, by : SlackIds] \cup
    [op : {"createAdmin"}, by : Staff, global : BOOLEAN] \cup
    [op : OnStaff, by : Staff, on : Staff] \cup
    [op : OnTenant, by : Staff] \cup
    [op : OnTenantUser, by : Staff, on : Users]

NoJob == [op |-> "none"]

Open == {"checking", "writing", "attaching", "counting", "matching", "asking",
         "creating", "linking"}

TypeOK ==
    /\ user \in [Users -> UserRow]
    /\ staff \in [Staff -> StaffRow]
    /\ tenant \in [live : BOOLEAN, active : BOOLEAN, bot : BOOLEAN]
    /\ session \subseteq Users \cup Staff
    /\ orphaned \subseteq Users
    /\ exposed \subseteq SlackIds
    /\ job \in [Calls -> Job \cup {NoJob}]
    /\ pc \in [Calls -> Open \cup {"idle", "over"}]
    /\ found \in [Calls -> Users \cup {NoOne}]

Init ==
    /\ user = InitUser
    /\ staff = InitStaff
    /\ tenant = [live |-> TRUE, active |-> TRUE, bot |-> FALSE]
    /\ session = InitSession
    /\ orphaned = {}
    /\ exposed = {}
    /\ job = [c \in Calls |-> NoJob]
    /\ pc = [c \in Calls |-> "idle"]
    /\ found = [c \in Calls |-> NoOne]

Live      == {u \in Users : user[u].state = "live"}
LiveStaff == {a \in Staff : staff[a].state = "live"}
By(c)     == job[c].by
On(c)     == job[c].on
IsOp(c, ops) == job[c].op \in ops

Goto(c, p) == pc' = [pc EXCEPT ![c] = p] /\ UNCHANGED <<job, found>>

(* The call is answered; its locals go. *)
End(c) == /\ pc' = [pc EXCEPT ![c] = "over"]
          /\ job' = [job EXCEPT ![c] = NoJob]
          /\ found' = [found EXCEPT ![c] = NoOne]

Refuse(c) == End(c) /\ UNCHANGED rows

-----------------------------------------------------------------------------
(* The guards *)

(* JwtAuthGuard reads the tenant and the account on every request,         *)
(* RolesGuard compares the role it read.                                   *)
Admitted(u) ==
    /\ u \in session
    /\ tenant.live /\ tenant.active
    /\ user[u].state = "live"
    /\ user[u].active

AdmittedAdmin(u) == Admitted(u) /\ user[u].role = "SYSTEM_ADMIN"

AdmittedStaff(a) == a \in session /\ staff[a].state = "live" /\ staff[a].active

\* Mutant: an administrator may turn to their own account.
AnyTarget(j) == TRUE

(* "You can't change your own access role", block, remove or delete it.    *)
NotSelf(j) ==
    j.op \in {"promote", "demote", "block", "remove", "blockAdmin", "unblockAdmin",
              "deleteAdmin"} => j.on # j.by

(* requireTenant *)
NeedsTenant(j) == j.op \in {"createTenantAdmin"} \cup OnTenant \cup OnTenantUser

(* Where a call goes once it is admitted. *)
FirstStep(j) ==
    CASE j.op \in {"create", "createTenantAdmin", "email", "unlink", "remove",
                   "deleteTenantAdmin", "createAdmin"} \cup OnStaff -> "checking"
      [] j.op = "install" -> "attaching"
      [] j.op \in BySlack \ {"install"} -> "matching"
      [] OTHER -> "writing"

Allowed(j) ==
    CASE j.op \in {"create"} \cup OnOthers -> AdmittedAdmin(j.by)
      [] j.op \in {"email", "work"} \cup OnMyself -> Admitted(j.by)
      [] j.op \in {"createTenantAdmin", "createAdmin"} \cup OnStaff \cup OnTenant
                   \cup OnTenantUser -> AdmittedStaff(j.by)
      [] j.op = "slackLogin" -> tenant.live /\ tenant.bot  \* "Add to Slack" is complete
      [] j.op \in {"install", "message"} -> tenant.live    \* findBySlackTeamId
      [] OTHER -> TRUE                                     \* @Public

Start(c) ==
    /\ pc[c] = "idle"
    /\ Cardinality({d \in Calls : pc[d] \in Open}) < MaxOpen
    /\ \E j \in Job :
         /\ j.op \in Ops
         /\ Allowed(j)
         /\ NotSelf(j)
         /\ NeedsTenant(j) => tenant.live
         /\ job' = [job EXCEPT ![c] = j]
         /\ pc' = [pc EXCEPT ![c] = FirstStep(j)]
    /\ UNCHANGED <<rows, found>>

-----------------------------------------------------------------------------
(* Reads between the guard and the write *)

Taken(e) == \E u \in Live : user[u].email = e

(* create, updateProfile: look for another account with the address.       *)
CheckEmail(c) ==
    /\ pc[c] = "checking"
    /\ IsOp(c, {"create", "createTenantAdmin", "email"})
    /\ IF \E u \in Live : user[u].email = job[c].email
                          /\ ~(job[c].op = "email" /\ u = By(c))
       THEN Refuse(c)
       ELSE Goto(c, "writing") /\ UNCHANGED rows

\* Mutant: no look at the password.
MayAlwaysUnlink(u) == user[u].state = "live"

(* unlinkSlack asks for a password first. *)
MayUnlink(u) == user[u].state = "live" /\ user[u].password

CheckPassword(c) ==
    /\ pc[c] = "checking"
    /\ IsOp(c, {"unlink"})
    /\ IF MayUnlink(By(c))
       THEN Goto(c, "writing") /\ UNCHANGED rows
       ELSE Refuse(c)

(* removeEmployee counts the rows that refer to the employee. *)
CountHistory(c) ==
    /\ pc[c] = "checking"
    /\ IsOp(c, {"remove"})
    /\ IF user[On(c)].state = "live" /\ user[On(c)].ties = {}
       THEN Goto(c, "writing") /\ UNCHANGED rows
       ELSE Refuse(c)

(* requireGlobalAdmin; deleteTenantAdmin also reads the target's role.     *)
RequireGlobal(c) ==
    /\ pc[c] = "checking"
    /\ IsOp(c, {"createAdmin", "deleteTenantAdmin"} \cup OnStaff)
    /\ IF /\ staff[By(c)].state = "live"
          /\ staff[By(c)].global
          /\ IsOp(c, {"deleteTenantAdmin"}) =>
               user[On(c)].state = "live" /\ user[On(c)].role = "SYSTEM_ADMIN"
       THEN Goto(c, "writing") /\ UNCHANGED rows
       ELSE Refuse(c)

-----------------------------------------------------------------------------
(* Writes *)

HeldRows == {u \in Live : "held" \in user[u].ties}

(* What the database takes: an update or delete needs its row, an insert   *)
(* or a new address the unique index, a delete the foreign keys.           *)
Accepted(c) ==
    LET j == job[c] IN
    CASE j.op \in {"create", "createTenantAdmin"} -> tenant.live /\ ~Taken(j.email)
      [] j.op = "email" -> /\ j.by \in Live
                           /\ \A u \in Live \ {j.by} : user[u].email # j.email
      [] j.op \in OnMyself \cup {"work"} -> j.by \in Live
      [] j.op \in {"remove", "deleteTenantAdmin"} -> j.on \in Live \ HeldRows
      [] j.op \in OnOthers \cup OnTenantUser -> j.on \in Live
      [] j.op \in OnStaff -> j.on \in LiveStaff
      [] j.op = "createAdmin" -> \E a \in Staff : staff[a].state = "free"  \* a bound
      [] j.op = "deleteTenant" -> tenant.live /\ HeldRows = {}
      [] j.op \in OnTenant -> tenant.live
      [] OTHER -> TRUE

Writing(c, ops) == pc[c] = "writing" /\ IsOp(c, ops) /\ Accepted(c)

FailWrite(c) == pc[c] = "writing" /\ ~Accepted(c) /\ Refuse(c)

Account(role, email, password, slack) ==
    [state |-> "live", role |-> role, active |-> TRUE, email |-> email,
     password |-> password, slack |-> slack, ties |-> {}]

\* Mutant: the table has no unique index on the address.
InsertUnchecked(u, row) ==
    /\ user[u].state = "free"
    /\ user' = [user EXCEPT ![u] = row]

(* INSERT INTO users: (tenant_id, email) is unique. *)
Insert(u, row) == tenant.live /\ ~Taken(row.email) /\ InsertUnchecked(u, row)

(* create, createTenantAdmin *)
CreateUser(c) ==
    /\ Writing(c, {"create", "createTenantAdmin"})
    /\ \E u \in Users : Insert(u, Account(job[c].role, job[c].email, TRUE, job[c].slack))
    /\ exposed' = exposed \cup ({job[c].slack} \ {NoSlack})
    /\ End(c)
    /\ UNCHANGED <<staff, tenant, session, orphaned>>

(* Slack members whose address is that of account u. *)
AddressedTo(u) == {s \in SlackIds : AddressOf[s] = user[u].email}

(* updateProfile *)
SetEmail(c) ==
    /\ Writing(c, {"email"})
    /\ user' = [user EXCEPT ![By(c)].email = job[c].email]
    /\ exposed' = exposed \cup AddressedTo(By(c))
    /\ End(c)
    /\ UNCHANGED <<staff, tenant, session, orphaned>>

SetPassword(c) ==
    /\ Writing(c, {"password"})
    /\ user' = [user EXCEPT ![By(c)].password = TRUE]
    /\ End(c)
    /\ UNCHANGED <<staff, tenant, session, orphaned, exposed>>

UnlinkSlack(c) ==
    /\ Writing(c, {"unlink"})
    /\ user' = [user EXCEPT ![By(c)].slack = NoSlack]
    /\ End(c)
    /\ UNCHANGED <<staff, tenant, session, orphaned, exposed>>

(* updateRole *)
SetRole(c) ==
    /\ Writing(c, {"promote", "demote"})
    /\ user' = [user EXCEPT ![On(c)].role =
                  IF job[c].op = "promote" THEN "SYSTEM_ADMIN" ELSE "EMPLOYEE"]
    /\ End(c)
    /\ UNCHANGED <<staff, tenant, session, orphaned, exposed>>

(* setActive, called by an administrator or by platform staff *)
SetActive(c) ==
    /\ Writing(c, {"block", "unblock", "blockTenantUser", "unblockTenantUser"})
    /\ user' = [user EXCEPT ![On(c)].active =
                  job[c].op \in {"unblock", "unblockTenantUser"}]
    /\ End(c)
    /\ UNCHANGED <<staff, tenant, session, orphaned, exposed>>

(* removeEmployee, remove: the foreign keys of rows that hold the account  *)
(* refuse; those of audit logs are set to null.                            *)
DeleteUser(c) ==
    /\ Writing(c, {"remove", "deleteTenantAdmin"})
    /\ user' = [user EXCEPT ![On(c)].state = "gone"]
    /\ orphaned' = IF "audit" \in user[On(c)].ties THEN orphaned \cup {On(c)}
                                                   ELSE orphaned
    /\ End(c)
    /\ UNCHANGED <<staff, tenant, session, exposed>>

(* Filing, deciding, delegating or broadcasting leaves rows that hold the  *)
(* account; attaching a proof of payment leaves an audit entry only.       *)
Work(c) ==
    /\ Writing(c, {"work"})
    /\ user' = [user EXCEPT ![By(c)].ties = @ \cup {job[c].tie}]
    /\ End(c)
    /\ UNCHANGED <<staff, tenant, session, orphaned, exposed>>

-----------------------------------------------------------------------------
(* Platform administration *)

CreateAdmin(c) ==
    /\ Writing(c, {"createAdmin"})
    /\ \E a \in Staff :
         /\ staff[a].state = "free"
         /\ staff' = [staff EXCEPT ![a] =
                        [state |-> "live", active |-> TRUE, global |-> job[c].global]]
    /\ End(c)
    /\ UNCHANGED <<user, tenant, session, orphaned, exposed>>

(* setAdminActive, deleteAdmin *)
ChangeAdmin(c) ==
    /\ Writing(c, OnStaff)
    /\ staff' = IF job[c].op = "deleteAdmin"
                THEN [staff EXCEPT ![On(c)].state = "gone"]
                ELSE [staff EXCEPT ![On(c)].active = (job[c].op = "unblockAdmin")]
    /\ End(c)
    /\ UNCHANGED <<user, tenant, session, orphaned, exposed>>

SetTenantActive(c) ==
    /\ Writing(c, {"blockTenant", "unblockTenant"})
    /\ tenant' = [tenant EXCEPT !.active = (job[c].op = "unblockTenant")]
    /\ End(c)
    /\ UNCHANGED <<user, staff, session, orphaned, exposed>>

(* deleteTenant cascades to everything the tenant owns, and is refused as  *)
(* a whole while a row holds one of its users.                             *)
DeleteTenant(c) ==
    /\ Writing(c, {"deleteTenant"})
    /\ tenant' = [tenant EXCEPT !.live = FALSE]
    /\ user' = [u \in Users |-> IF u \in Live THEN [user[u] EXCEPT !.state = "gone"]
                                            ELSE user[u]]
    /\ End(c)
    /\ UNCHANGED <<staff, session, orphaned, exposed>>

-----------------------------------------------------------------------------
(* Signing in *)

(* login: findByEmail, active, a password that matches. *)
Login(c) ==
    /\ Writing(c, {"login"})
    /\ LET who == {u \in Live : /\ user[u].email = job[c].email
                                /\ user[u].active
                                /\ user[u].password}
       IN  IF who = {} THEN Refuse(c)
           ELSE /\ session' = session \cup who
                /\ End(c)
                /\ UNCHANGED <<user, staff, tenant, orphaned, exposed>>

PlatformLogin(c) ==
    /\ Writing(c, {"platformLogin"})
    /\ IF staff[On(c)].state = "live" /\ staff[On(c)].active
       THEN /\ session' = session \cup {On(c)}
            /\ End(c)
            /\ UNCHANGED <<user, staff, tenant, orphaned, exposed>>
       ELSE Refuse(c)

\* Mutant: the token is issued to the Slack member's id.
ResolvedBySlackId(c, u) == End(c) /\ session' = session \cup {By(c)}

(* The token of a Slack sign-in or installation; a message to the bot is   *)
(* answered by the account itself, without one.                            *)
Resolved(c, u) ==
    /\ End(c)
    /\ session' = IF job[c].op = "message" THEN session ELSE session \cup {u}

(* attachSlackBotCredentials *)
AttachBot(c) ==
    /\ pc[c] = "attaching"
    /\ tenant.live
    /\ tenant' = [tenant EXCEPT !.bot = TRUE]
    /\ Goto(c, "counting")
    /\ UNCHANGED <<user, staff, session, orphaned, exposed>>

(* completeInstall: the first to install into a tenant without users.      *)
CountUsers(c) ==
    /\ pc[c] = "counting"
    /\ Goto(c, IF Live = {} THEN "creating" ELSE "matching")
    /\ UNCHANGED rows

(* findBySlackUserId, resolveRequesterId *)
MatchIdentity(c) ==
    /\ pc[c] = "matching"
    /\ LET who == {u \in Live : user[u].slack = By(c)}
       IN  IF who = {} THEN Goto(c, "asking") /\ UNCHANGED rows
           ELSE /\ \E u \in who : Resolved(c, u)
                /\ UNCHANGED <<user, staff, tenant, orphaned, exposed>>

(* findByEmail with the address of the Slack profile.  Nobody is created   *)
(* by a later installation.                                                *)
MatchAddress(c) ==
    /\ pc[c] = "asking"
    /\ LET who == {u \in Live : user[u].email = AddressOf[By(c)]}
       IN  CASE who # {} ->
                  /\ pc' = [pc EXCEPT ![c] = "linking"]
                  /\ \E u \in who : found' = [found EXCEPT ![c] = u]
                  /\ UNCHANGED job
             [] who = {} /\ job[c].op = "install" -> End(c)
             [] OTHER -> Goto(c, "creating")
    /\ UNCHANGED rows

(* linkSlackUserId overwrites whatever link the account had. *)
LinkSlack(c) ==
    /\ pc[c] = "linking"
    /\ IF user[found[c]].state = "live"
       THEN /\ user' = [user EXCEPT ![found[c]].slack = By(c)]
            /\ Resolved(c, found[c])
            /\ UNCHANGED <<staff, tenant, orphaned, exposed>>
       ELSE Refuse(c)

(* createSlackUser: only an installation gets here without having looked   *)
(* for the address, and its user is the tenant's administrator.            *)
CreateSlackUser(c) ==
    /\ pc[c] = "creating"
    /\ \E u \in Users :
         /\ Insert(u, Account(IF job[c].op = "install" THEN "SYSTEM_ADMIN" ELSE "EMPLOYEE",
                              AddressOf[By(c)], FALSE, By(c)))
         /\ Resolved(c, u)
    /\ UNCHANGED <<staff, tenant, orphaned, exposed>>

(* The losing provisioner, a tenant that is gone, or a Slack profile that  *)
(* cannot be read: the callback answers with an error, an event is logged. *)
FailSlack(c) ==
    /\ \/ pc[c] = "attaching" /\ ~tenant.live
       \/ pc[c] = "creating" /\ (Taken(AddressOf[By(c)]) \/ ~tenant.live)
       \/ pc[c] = "asking"
    /\ Refuse(c)

-----------------------------------------------------------------------------

Check(c) == CheckEmail(c) \/ CheckPassword(c) \/ CountHistory(c) \/ RequireGlobal(c)

Write(c) ==
    \/ CreateUser(c) \/ SetEmail(c) \/ SetPassword(c) \/ UnlinkSlack(c)
    \/ SetRole(c) \/ SetActive(c) \/ DeleteUser(c) \/ Work(c)
    \/ CreateAdmin(c) \/ ChangeAdmin(c) \/ SetTenantActive(c) \/ DeleteTenant(c)
    \/ Login(c) \/ PlatformLogin(c) \/ FailWrite(c)

SlackStep(c) ==
    \/ AttachBot(c) \/ CountUsers(c) \/ MatchIdentity(c) \/ MatchAddress(c)
    \/ LinkSlack(c) \/ CreateSlackUser(c) \/ FailSlack(c)

(* Every call of the instance is over. *)
AllServed == (\A c \in Calls : pc[c] = "over") /\ UNCHANGED vars

Next == \/ \E c \in Calls : Start(c) \/ Check(c) \/ Write(c) \/ SlackStep(c)
        \/ AllServed

Spec == Init /\ [][Next]_vars

-----------------------------------------------------------------------------
(* Properties *)

(* Nobody is left without a way to sign in: an account has a password or a *)
(* Slack identity, whatever is unlinked, linked or changed meanwhile       *)
(* (users.service.ts:142-153).                                             *)
NeverLockedOut == \A u \in Live : user[u].password \/ user[u].slack # NoSlack

(* Two sign-ins, installations or messages of one Slack member never end   *)
(* in two accounts: the unique address decides between them.  It takes an  *)
(* account that gave up that address, or an administrator who typed the    *)
(* Slack id, to break this (slack.service.ts:333-376,                      *)
(* slack-oauth.service.ts:184-191).                                        *)
OneAccountPerSlackIdentity ==
    \A u, v \in Live :
        user[u].slack = user[v].slack /\ user[u].slack \notin exposed \cup {NoSlack}
            => u = v

ActiveAdmins == {u \in Live : user[u].active /\ user[u].role = "SYSTEM_ADMIN"}

(* A tenant loses its last active administrator only to platform staff, or *)
(* to a call whose actor has lost the role since the guard let it in: no   *)
(* sequence of calls that do not overlap does it (users.service.ts:186,    *)
(* 316, users.controller.ts:141).                                          *)
LastAdminFallsToStaleCalls ==
    [][ActiveAdmins # {} /\ ActiveAdmins' = {} =>
         \E c \in Calls : /\ pc[c] = "writing" /\ pc'[c] = "over"
                          /\ By(c) \notin ActiveAdmins]_vars

ActiveGlobals == {a \in LiveStaff : staff[a].active /\ staff[a].global}

(* The same for the platform's own global administrators                   *)
(* (platform-admin.service.ts:131, 144).                                   *)
LastGlobalFallsToStaleCalls ==
    [][ActiveGlobals # {} /\ ActiveGlobals' = {} =>
         \E c \in Calls : /\ pc[c] = "writing" /\ pc'[c] = "over"
                          /\ By(c) \notin ActiveGlobals]_vars

(* What an employee did keeps its author: no audit entry loses its actor   *)
(* because an account is removed (users.service.ts:303-310).               *)
AuditKeepsItsActor == orphaned = {}

=============================================================================
