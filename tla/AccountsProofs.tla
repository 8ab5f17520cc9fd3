--------------------------- MODULE AccountsProofs ---------------------------
(***************************************************************************)
(* What Accounts keeps for any number of accounts, platform staff, Slack   *)
(* members and overlapping calls.                                          *)
(***************************************************************************)
EXTENDS Accounts, TLAPS

(* What a call carries fits the place it has reached. *)
SlackSteps == {"attaching", "counting", "matching", "asking", "creating", "linking"}

LocalsFit ==
    \A c \in Calls :
        /\ pc[c] \in Open => job[c] \in Job /\ NotSelf(job[c])
        /\ pc[c] \in SlackSteps => job[c].op \in BySlack
        /\ pc[c] = "linking" => found[c] \in Users

TypeInv == TypeOK /\ LocalsFit

RowsOK ==
    /\ user \in [Users -> UserRow]
    /\ staff \in [Staff -> StaffRow]
    /\ tenant \in [live : BOOLEAN, active : BOOLEAN, bot : BOOLEAN]
    /\ session \subseteq Users \cup Staff
    /\ orphaned \subseteq Users
    /\ exposed \subseteq SlackIds

LocalsOK ==
    /\ job \in [Calls -> Job \cup {NoJob}]
    /\ pc \in [Calls -> Open \cup {"idle", "over"}]
    /\ found \in [Calls -> Users \cup {NoOne}]
    /\ LocalsFit

-----------------------------------------------------------------------------
(* Facts the steps share *)

LEMMA TypeParts == TypeInv <=> RowsOK /\ LocalsOK
BY DEF TypeInv, TypeOK, RowsOK, LocalsOK

LEMMA TypePartsPrimed == TypeInv' <=> RowsOK' /\ LocalsOK'
BY DEF TypeInv, TypeOK, RowsOK, LocalsOK

(* The fields of a job, by what is asked. *)
LEMMA JobFields ==
    ASSUME NEW j \in Job
    PROVE  /\ j.op \in BySlack => j.by \in SlackIds
           /\ j.op \in {"create", "createTenantAdmin"} =>
                j.email \in Emails /\ j.slack \in SlackIds \cup {NoSlack} /\ j.role \in Roles
           /\ j.op = "email" => j.by \in Users /\ j.email \in Emails
           /\ j.op \in OnMyself => j.by \in Users
           /\ j.op = "work" => j.by \in Users /\ j.tie \in Ties
           /\ j.op \in OnOthers => j.by \in Users /\ j.on \in Users
           /\ j.op \in OnTenantUser => j.by \in Staff /\ j.on \in Users
           /\ j.op \in OnTenant => j.by \in Staff
           /\ j.op \in OnStaff => j.by \in Staff /\ j.on \in Staff
           /\ j.op = "platformLogin" => j.on \in Staff
           /\ j.op = "createAdmin" => j.by \in Staff /\ j.global \in BOOLEAN
BY DEF Job, BySlack, OnMyself, OnOthers, OnTenant, OnTenantUser, OnStaff, Roles

LEMMA EndKeeps ==
    ASSUME LocalsOK, NEW c \in Calls, End(c)
    PROVE  LocalsOK'
BY DEF LocalsOK, LocalsFit, End, Open, SlackSteps, NoJob

LEMMA GotoKeeps ==
    ASSUME LocalsOK, NEW c \in Calls, NEW p \in Open \ {"linking"}, Goto(c, p),
           pc[c] \in Open, p \in SlackSteps => pc[c] \in SlackSteps
    PROVE  LocalsOK'
BY DEF LocalsOK, LocalsFit, Goto, Open, SlackSteps

LEMMA StartKeeps ==
    ASSUME LocalsOK, NEW c \in Calls, Start(c)
    PROVE  LocalsOK'
<1>1. PICK j \in Job : /\ NotSelf(j)
                       /\ job' = [job EXCEPT ![c] = j]
                       /\ pc' = [pc EXCEPT ![c] = FirstStep(j)]
  BY DEF Start
<1>2. /\ FirstStep(j) \in {"checking", "writing", "attaching", "matching"}
      /\ FirstStep(j) \in {"attaching", "matching"} => j.op \in BySlack
  BY DEF FirstStep, BySlack
<1>3. found' = found
  BY DEF Start
<1> QED BY <1>1, <1>2, <1>3 DEF LocalsOK, LocalsFit, Open, SlackSteps

LEMMA WritingFacts ==
    ASSUME LocalsOK, NEW c \in Calls, NEW ops, Writing(c, ops)
    PROVE  job[c] \in Job /\ job[c].op \in ops /\ NotSelf(job[c]) /\ pc[c] = "writing"
BY DEF LocalsOK, LocalsFit, Writing, IsOp, Open

-----------------------------------------------------------------------------
(* The rows stay rows *)

LEMMA InsertKeeps ==
    ASSUME user \in [Users -> UserRow], NEW u \in Users, NEW r \in UserRow, Insert(u, r)
    PROVE  user' \in [Users -> UserRow]
BY DEF Insert, InsertUnchecked

LEMMA AccountRow ==
    ASSUME NEW role \in Roles, NEW email \in Emails, NEW password \in BOOLEAN,
           NEW slack \in SlackIds \cup {NoSlack}
    PROVE  Account(role, email, password, slack) \in UserRow
BY DEF Account, UserRow, Ties

(* A flag set to whatever a test yields leaves the table a table. *)
LEMMA FlagKeeps ==
    ASSUME user \in [Users -> UserRow], NEW u \in Users, NEW b \in BOOLEAN
    PROVE  [user EXCEPT ![u].active = b] \in [Users -> UserRow]
BY DEF UserRow

LEMMA StaffFlagKeeps ==
    ASSUME staff \in [Staff -> StaffRow], NEW a \in Staff, NEW b \in BOOLEAN
    PROVE  [staff EXCEPT ![a].active = b] \in [Staff -> StaffRow]
BY DEF StaffRow

LEMMA TenantFlagKeeps ==
    ASSUME tenant \in [live : BOOLEAN, active : BOOLEAN, bot : BOOLEAN], NEW b \in BOOLEAN
    PROVE  [tenant EXCEPT !.active = b] \in [live : BOOLEAN, active : BOOLEAN, bot : BOOLEAN]
OBVIOUS

LEMMA CheckType ==
    ASSUME TypeInv, NEW c \in Calls, Check(c)
    PROVE  TypeInv'
<1>1. RowsOK /\ LocalsOK
  BY TypeParts
<1>2. pc[c] = "checking" /\ UNCHANGED rows /\ (End(c) \/ Goto(c, "writing"))
  BY DEF Check, CheckEmail, CheckPassword, CountHistory, RequireGlobal, Refuse
<1>3. RowsOK'
  BY <1>1, <1>2 DEF RowsOK, rows
<1>4. LocalsOK'
  BY <1>1, <1>2, EndKeeps, GotoKeeps DEF Open, SlackSteps
<1> QED BY <1>3, <1>4, TypePartsPrimed

LEMMA WriteType ==
    ASSUME TypeInv, NEW c \in Calls, Write(c)
    PROVE  TypeInv'
<1>1. RowsOK /\ LocalsOK
  BY TypeParts
<1>2. End(c)
  BY DEF Write, CreateUser, SetEmail, SetPassword, UnlinkSlack, SetRole, SetActive, DeleteUser,
         Work, CreateAdmin, ChangeAdmin, SetTenantActive, DeleteTenant, Login, PlatformLogin,
         FailWrite, Refuse
<1>3. LocalsOK'
  BY <1>1, <1>2, EndKeeps
<1>4. ASSUME NEW j \in Job
      PROVE  /\ j.op \in {"create", "createTenantAdmin"} =>
                  j.email \in Emails /\ j.slack \in SlackIds \cup {NoSlack} /\ j.role \in Roles
             /\ j.op = "email" => j.by \in Users /\ j.email \in Emails
             /\ j.op \in {"password", "unlink"} => j.by \in Users
             /\ j.op = "work" => j.by \in Users /\ j.tie \in Ties
             /\ j.op \in {"promote", "demote", "block", "unblock", "remove", "blockTenantUser",
                          "unblockTenantUser", "deleteTenantAdmin"} => j.on \in Users
             /\ j.op \in OnStaff \cup {"platformLogin"} => j.on \in Staff
             /\ j.op = "createAdmin" => j.global \in BOOLEAN
  BY JobFields DEF OnMyself, OnOthers, OnTenantUser, OnStaff
<1>5. ASSUME CreateUser(c) PROVE RowsOK'
  <2>1. job[c] \in Job /\ job[c].op \in {"create", "createTenantAdmin"}
    BY <1>1, <1>5, WritingFacts DEF CreateUser
  <2>2. user' \in [Users -> UserRow]
    BY <1>1, <1>4, <1>5, <2>1, InsertKeeps, AccountRow DEF CreateUser, RowsOK
  <2> QED BY <1>1, <1>4, <1>5, <2>1, <2>2 DEF CreateUser, RowsOK
<1>6. ASSUME SetEmail(c) PROVE RowsOK'
  <2>1. job[c] \in Job /\ job[c].op = "email"
    BY <1>1, <1>6, WritingFacts DEF SetEmail
  <2> QED BY <1>1, <1>4, <1>6, <2>1 DEF SetEmail, RowsOK, UserRow, By, AddressedTo
<1>7. ASSUME SetPassword(c) \/ UnlinkSlack(c) PROVE RowsOK'
  <2>1. job[c] \in Job /\ job[c].op \in {"password", "unlink"}
    BY <1>1, <1>7, WritingFacts DEF SetPassword, UnlinkSlack
  <2>2. By(c) \in Users
    BY <1>4, <2>1 DEF By
  <2>3. CASE SetPassword(c)
    <3>1. user \in [Users -> UserRow] /\ user' = [user EXCEPT ![By(c)].password = TRUE]
      BY <1>1, <2>3 DEF SetPassword, RowsOK
    <3>2. user' \in [Users -> UserRow]
      BY <2>2, <3>1 DEF UserRow
    <3> QED BY <1>1, <2>3, <3>2 DEF SetPassword, RowsOK
  <2>4. CASE UnlinkSlack(c)
    BY <1>1, <2>2, <2>4 DEF UnlinkSlack, RowsOK, UserRow
  <2> QED BY <1>7, <2>3, <2>4
<1>8. ASSUME SetRole(c) \/ SetActive(c) \/ DeleteUser(c) PROVE RowsOK'
  <2>1. /\ job[c] \in Job
        /\ job[c].op \in {"promote", "demote", "block", "unblock", "remove", "blockTenantUser",
                          "unblockTenantUser", "deleteTenantAdmin"}
    BY <1>1, <1>8, WritingFacts DEF SetRole, SetActive, DeleteUser
  <2>2. On(c) \in Users
    BY <1>4, <2>1 DEF On
  <2>3. CASE SetRole(c)
    BY <1>1, <2>2, <2>3 DEF SetRole, RowsOK, UserRow, Roles
  <2>4. CASE SetActive(c)
    <3>1. (job[c].op \in {"unblock", "unblockTenantUser"}) \in BOOLEAN
      OBVIOUS
    <3>2. user \in [Users -> UserRow]
      BY <1>1 DEF RowsOK
    <3>3. user' \in [Users -> UserRow]
      BY <2>2, <2>4, <3>1, <3>2, FlagKeeps, Zenon DEF SetActive
    <3> QED BY <1>1, <2>4, <3>3 DEF SetActive, RowsOK
  <2>5. CASE DeleteUser(c)
    BY <1>1, <2>2, <2>5 DEF DeleteUser, RowsOK, UserRow
  <2> QED BY <1>8, <2>3, <2>4, <2>5
<1>9. ASSUME Work(c) PROVE RowsOK'
  <2>1. job[c] \in Job /\ job[c].op = "work"
    BY <1>1, <1>9, WritingFacts DEF Work
  <2> QED BY <1>1, <1>4, <1>9, <2>1 DEF Work, RowsOK, UserRow, By
<1>10. ASSUME CreateAdmin(c) PROVE RowsOK'
  <2>1. job[c] \in Job /\ job[c].op = "createAdmin"
    BY <1>1, <1>10, WritingFacts DEF CreateAdmin
  <2> QED BY <1>1, <1>4, <1>10, <2>1 DEF CreateAdmin, RowsOK, StaffRow
<1>11. ASSUME ChangeAdmin(c) PROVE RowsOK'
  <2>1. job[c] \in Job /\ job[c].op \in OnStaff
    BY <1>1, <1>11, WritingFacts DEF ChangeAdmin
  <2>2. On(c) \in Staff
    BY <1>4, <2>1 DEF On
  <2>3. (job[c].op = "unblockAdmin") \in BOOLEAN
    OBVIOUS
  <2>4. staff \in [Staff -> StaffRow]
    BY <1>1 DEF RowsOK
  <2>5. [staff EXCEPT ![On(c)].active = (job[c].op = "unblockAdmin")] \in [Staff -> StaffRow]
    BY <2>2, <2>3, <2>4, StaffFlagKeeps, Zenon
  <2>6. [staff EXCEPT ![On(c)].state = "gone"] \in [Staff -> StaffRow]
    BY <2>2, <2>4 DEF StaffRow
  <2>7. staff' \in [Staff -> StaffRow]
    BY <1>11, <2>5, <2>6, Zenon DEF ChangeAdmin
  <2> QED BY <1>1, <1>11, <2>7 DEF ChangeAdmin, RowsOK
<1>12. ASSUME SetTenantActive(c) \/ DeleteTenant(c) PROVE RowsOK'
  <2>1. CASE SetTenantActive(c)
    <3>1. (job[c].op = "unblockTenant") \in BOOLEAN
      OBVIOUS
    <3>2. tenant \in [live : BOOLEAN, active : BOOLEAN, bot : BOOLEAN]
      BY <1>1 DEF RowsOK
    <3>3. tenant' \in [live : BOOLEAN, active : BOOLEAN, bot : BOOLEAN]
      BY <2>1, <3>1, <3>2, TenantFlagKeeps, Zenon DEF SetTenantActive
    <3> QED BY <1>1, <2>1, <3>3 DEF SetTenantActive, RowsOK
  <2>2. CASE DeleteTenant(c)
    <3>1. user \in [Users -> UserRow]
      BY <1>1 DEF RowsOK
    <3>2. \A u \in Users : [user[u] EXCEPT !.state = "gone"] \in UserRow
      BY <3>1 DEF UserRow
    <3>3. user' \in [Users -> UserRow]
      BY <2>2, <3>1, <3>2 DEF DeleteTenant
    <3> QED BY <1>1, <2>2, <3>3 DEF DeleteTenant, RowsOK
  <2> QED BY <1>12, <2>1, <2>2
<1>13. ASSUME Login(c) PROVE RowsOK'
  BY <1>1, <1>13 DEF Login, RowsOK, Live, Refuse, rows
<1>14. ASSUME PlatformLogin(c) PROVE RowsOK'
  <2>1. job[c] \in Job /\ job[c].op = "platformLogin"
    BY <1>1, <1>14, WritingFacts DEF PlatformLogin
  <2> QED BY <1>1, <1>4, <1>14, <2>1 DEF PlatformLogin, RowsOK, On, Refuse, rows
<1>15. ASSUME FailWrite(c) PROVE RowsOK'
  BY <1>1, <1>15 DEF FailWrite, Refuse, RowsOK, rows
<1>16. RowsOK'
  BY <1>5, <1>6, <1>7, <1>8, <1>9, <1>10, <1>11, <1>12, <1>13, <1>14, <1>15 DEF Write
<1> QED BY <1>3, <1>16, TypePartsPrimed

LEMMA SlackType ==
    ASSUME TypeInv, NEW c \in Calls, SlackStep(c)
    PROVE  TypeInv'
<1>1. RowsOK /\ LocalsOK
  BY TypeParts
<1>2. pc[c] \in SlackSteps
  BY DEF SlackStep, AttachBot, CountUsers, MatchIdentity, MatchAddress, LinkSlack,
         CreateSlackUser, FailSlack, SlackSteps
<1>3. job[c] \in Job /\ job[c].op \in BySlack /\ By(c) \in SlackIds
  BY <1>1, <1>2, JobFields DEF LocalsOK, LocalsFit, SlackSteps, Open, By
<1>4. ASSUME AttachBot(c) PROVE TypeInv'
  <2>1. RowsOK'
    BY <1>1, <1>4 DEF AttachBot, RowsOK
  <2>2. LocalsOK'
    BY <1>1, <1>4, GotoKeeps DEF AttachBot, Open, SlackSteps
  <2> QED BY <2>1, <2>2, TypePartsPrimed
<1>5. ASSUME CountUsers(c) PROVE TypeInv'
  <2>1. RowsOK'
    BY <1>1, <1>5 DEF CountUsers, RowsOK, rows
  <2>2. LocalsOK'
    BY <1>1, <1>5, GotoKeeps DEF CountUsers, Open, SlackSteps
  <2> QED BY <2>1, <2>2, TypePartsPrimed
<1>6. ASSUME NEW u \in Users, Resolved(c, u)
      PROVE  End(c) /\ session' \subseteq Users \cup Staff
  BY <1>1, <1>6 DEF Resolved, RowsOK
<1>7. ASSUME MatchIdentity(c) PROVE TypeInv'
  <2>1. CASE Goto(c, "asking") /\ UNCHANGED rows
    <3>1. RowsOK'
      BY <1>1, <2>1 DEF RowsOK, rows
    <3>2. LocalsOK'
      BY <1>1, <1>7, <2>1, GotoKeeps DEF MatchIdentity, Open, SlackSteps
    <3> QED BY <3>1, <3>2, TypePartsPrimed
  <2>2. CASE /\ \E u \in Users : Resolved(c, u)
             /\ UNCHANGED <<user, staff, tenant, orphaned, exposed>>
    <3>1. RowsOK'
      BY <1>1, <1>6, <2>2 DEF RowsOK
    <3>2. LocalsOK'
      BY <1>1, <1>6, <2>2, EndKeeps
    <3> QED BY <3>1, <3>2, TypePartsPrimed
  <2> QED BY <1>7, <2>1, <2>2 DEF MatchIdentity, Live
<1>8. ASSUME MatchAddress(c) PROVE TypeInv'
  <2>1. RowsOK'
    BY <1>1, <1>8 DEF MatchAddress, RowsOK, rows
  <2> DEFINE who == {u \in Live : user[u].email = AddressOf[By(c)]}
  <2>2. CASE who # {}
    <3>1. /\ pc' = [pc EXCEPT ![c] = "linking"] /\ UNCHANGED job
          /\ \E u \in Users : found' = [found EXCEPT ![c] = u]
      BY <1>8, <2>2 DEF MatchAddress, Live
    <3>2. LocalsOK'
      BY <1>1, <1>3, <1>8, <3>1 DEF MatchAddress, LocalsOK, LocalsFit, Open, SlackSteps
    <3> QED BY <2>1, <3>2, TypePartsPrimed
  <2>3. CASE who = {}
    <3>1. End(c) \/ Goto(c, "creating")
      BY <1>8, <2>3 DEF MatchAddress
    <3>2. LocalsOK'
      BY <1>1, <1>8, <3>1, EndKeeps, GotoKeeps DEF MatchAddress, Open, SlackSteps
    <3> QED BY <2>1, <3>2, TypePartsPrimed
  <2> QED BY <2>2, <2>3
<1>9. ASSUME LinkSlack(c) PROVE TypeInv'
  <2>1. found[c] \in Users
    BY <1>1, <1>9 DEF LinkSlack, LocalsOK, LocalsFit
  <2>2. CASE user[found[c]].state = "live"
    <3>1. /\ user' = [user EXCEPT ![found[c]].slack = By(c)]
          /\ Resolved(c, found[c])
          /\ UNCHANGED <<staff, tenant, orphaned, exposed>>
      BY <1>9, <2>2 DEF LinkSlack
    <3>2. RowsOK'
      BY <1>1, <1>3, <1>6, <2>1, <3>1 DEF RowsOK, UserRow
    <3>3. LocalsOK'
      BY <1>1, <1>6, <2>1, <3>1, EndKeeps
    <3> QED BY <3>2, <3>3, TypePartsPrimed
  <2>3. CASE user[found[c]].state # "live"
    <3>1. End(c) /\ UNCHANGED rows
      BY <1>9, <2>3 DEF LinkSlack, Refuse
    <3>2. RowsOK'
      BY <1>1, <3>1 DEF RowsOK, rows
    <3> QED BY <1>1, <3>1, <3>2, EndKeeps, TypePartsPrimed
  <2> QED BY <2>2, <2>3
<1>10. ASSUME CreateSlackUser(c) PROVE TypeInv'
  <2>1. PICK u \in Users :
            /\ Insert(u, Account(IF job[c].op = "install" THEN "SYSTEM_ADMIN" ELSE "EMPLOYEE",
                                 AddressOf[By(c)], FALSE, By(c)))
            /\ Resolved(c, u)
    BY <1>10 DEF CreateSlackUser
  <2>2. user' \in [Users -> UserRow]
    BY <1>1, <1>3, <2>1, InsertKeeps, AccountRow, AddressType DEF RowsOK, Roles
  <2>3. RowsOK'
    BY <1>1, <1>6, <1>10, <2>1, <2>2 DEF CreateSlackUser, RowsOK
  <2>4. LocalsOK'
    BY <1>1, <1>6, <2>1, EndKeeps
  <2> QED BY <2>3, <2>4, TypePartsPrimed
<1>11. ASSUME FailSlack(c) PROVE TypeInv'
  <2>1. End(c) /\ UNCHANGED rows
    BY <1>11 DEF FailSlack, Refuse
  <2>2. RowsOK'
    BY <1>1, <2>1 DEF RowsOK, rows
  <2> QED BY <1>1, <2>1, <2>2, EndKeeps, TypePartsPrimed
<1> QED BY <1>4, <1>5, <1>7, <1>8, <1>9, <1>10, <1>11 DEF SlackStep

LEMMA InitTyped == Init => TypeInv
BY InitType DEF Init, TypeInv, TypeOK, LocalsFit, NoJob, Open, SlackSteps

LEMMA NextTyped == TypeInv /\ [Next]_vars => TypeInv'
<1> SUFFICES ASSUME TypeInv, [Next]_vars PROVE TypeInv'
  OBVIOUS
<1>1. ASSUME NEW c \in Calls, Start(c) PROVE TypeInv'
  <2>1. RowsOK /\ LocalsOK
    BY TypeParts
  <2>2. RowsOK'
    BY <1>1, <2>1 DEF Start, RowsOK, rows
  <2> QED BY <1>1, <2>1, <2>2, StartKeeps, TypePartsPrimed
<1>2. ASSUME UNCHANGED vars PROVE TypeInv'
  BY <1>2 DEF vars, rows, TypeInv, TypeOK, LocalsFit
<1> QED BY <1>1, <1>2, CheckType, WriteType, SlackType DEF Next, AllServed

(* Every row and every local stays what the rest of the code takes it for. *)
THEOREM AccountsTyped == Spec => []TypeOK
<1>1. TypeInv => TypeOK
  BY DEF TypeInv
<1> QED BY <1>1, InitTyped, NextTyped, PTL DEF Spec

-----------------------------------------------------------------------------
(* What a step does to accounts and to the calls that wait *)

Step(c) == Start(c) \/ Check(c) \/ Write(c) \/ SlackStep(c)

\* The actions that change an account.
Changing(c) ==
    \/ CreateUser(c) \/ SetEmail(c) \/ SetPassword(c) \/ UnlinkSlack(c) \/ SetRole(c)
    \/ SetActive(c) \/ DeleteUser(c) \/ Work(c) \/ DeleteTenant(c) \/ LinkSlack(c)
    \/ CreateSlackUser(c)

LEMMA Quiet ==
    ASSUME NEW c \in Calls, Step(c)
    PROVE  (user' = user /\ exposed' = exposed) \/ Changing(c)
<1>1. Start(c) \/ Check(c) => user' = user /\ exposed' = exposed
  BY DEF Start, Check, CheckEmail, CheckPassword, CountHistory, RequireGlobal, Refuse, rows
<1>2. Write(c) => (user' = user /\ exposed' = exposed) \/ Changing(c)
  BY DEF Write, Changing, CreateAdmin, ChangeAdmin, SetTenantActive, Login, PlatformLogin,
         FailWrite, Refuse, rows
<1>3. SlackStep(c) => (user' = user /\ exposed' = exposed) \/ Changing(c)
  BY DEF SlackStep, Changing, AttachBot, CountUsers, MatchIdentity, MatchAddress, FailSlack,
         Refuse, rows
<1> QED BY <1>1, <1>2, <1>3 DEF Step

LEMMA StepTyped ==
    ASSUME TypeInv, NEW c \in Calls, Step(c)
    PROVE  TypeInv'
<1>1. Next
  BY DEF Step, Next
<1> QED BY <1>1, NextTyped

(* A call is about to unlink, or to link, only because it was already or   *)
(* because its own step has just looked.                                   *)
Waits(d) ==
    /\ pc'[d] = "writing" /\ job'[d].op = "unlink" =>
         /\ job'[d] = job[d]
         /\ pc[d] = "writing" \/ (MayUnlink(By(d)) /\ user' = user)
    /\ pc'[d] = "linking" =>
         /\ job'[d] = job[d]
         /\ \/ pc[d] = "linking" /\ found'[d] = found[d]
            \/ /\ user' = user
               /\ found'[d] \in Live
               /\ user[found'[d]].email = AddressOf[By(d)]

LEMMA EndWaits ==
    ASSUME LocalsOK, NEW c \in Calls, End(c), NEW d \in Calls
    PROVE  Waits(d)
BY DEF LocalsOK, End, Waits, Open

LEMMA GotoWaits ==
    ASSUME LocalsOK, NEW c \in Calls, NEW p \in Open \ {"linking"}, Goto(c, p),
           p = "writing" => job[c].op # "unlink" \/ (MayUnlink(By(c)) /\ user' = user),
           NEW d \in Calls
    PROVE  Waits(d)
BY DEF LocalsOK, Goto, Waits, Open

LEMMA StepWaits ==
    ASSUME TypeInv, NEW c \in Calls, Step(c), NEW d \in Calls
    PROVE  Waits(d)
<1>1. LocalsOK
  BY TypeParts
<1>2. CASE Start(c)
  <2>1. PICK j \in Job : job' = [job EXCEPT ![c] = j] /\ pc' = [pc EXCEPT ![c] = FirstStep(j)]
    BY <1>2 DEF Start
  <2>2. /\ FirstStep(j) # "linking"
        /\ j.op = "unlink" => FirstStep(j) # "writing"
    BY DEF FirstStep
  <2>3. UNCHANGED found
    BY <1>2 DEF Start
  <2> QED BY <1>1, <2>1, <2>2, <2>3 DEF LocalsOK, Waits
<1>3. CASE Check(c)
  <2>1. CASE CheckPassword(c)
    <3>1. End(c) \/ (Goto(c, "writing") /\ MayUnlink(By(c)) /\ user' = user)
      BY <2>1 DEF CheckPassword, Refuse, rows
    <3> QED BY <1>1, <3>1, EndWaits, GotoWaits DEF Open
  <2>2. CASE CheckEmail(c) \/ CountHistory(c) \/ RequireGlobal(c)
    <3>1. job[c].op # "unlink" /\ (End(c) \/ Goto(c, "writing"))
      BY <2>2 DEF CheckEmail, CountHistory, RequireGlobal, Refuse, IsOp, OnStaff
    <3> QED BY <1>1, <3>1, EndWaits, GotoWaits DEF Open
  <2> QED BY <1>3, <2>1, <2>2 DEF Check
<1>4. CASE Write(c)
  <2>1. End(c)
    BY <1>4 DEF Write, CreateUser, SetEmail, SetPassword, UnlinkSlack, SetRole, SetActive,
                DeleteUser, Work, CreateAdmin, ChangeAdmin, SetTenantActive, DeleteTenant, Login,
                PlatformLogin, FailWrite, Refuse
  <2> QED BY <1>1, <2>1, EndWaits
<1>5. CASE SlackStep(c)
  <2>1. CASE MatchAddress(c) /\ pc' = [pc EXCEPT ![c] = "linking"]
    <3> DEFINE who == {u \in Live : user[u].email = AddressOf[By(c)]}
    <3>1. pc[c] = "asking" /\ user' = user
      BY <2>1 DEF MatchAddress, rows
    <3>2. who # {}
      BY <1>1, <2>1 DEF MatchAddress, End, Goto, LocalsOK
    <3>3. UNCHANGED job /\ \E u \in who : found' = [found EXCEPT ![c] = u]
      BY <2>1, <3>2 DEF MatchAddress
    <3> QED BY <1>1, <2>1, <3>1, <3>3 DEF LocalsOK, Waits, By
  <2>2. CASE ~(MatchAddress(c) /\ pc' = [pc EXCEPT ![c] = "linking"])
    <3>1. End(c) \/ \E p \in Open \ {"linking", "writing"} : Goto(c, p)
      BY <1>5, <2>2 DEF SlackStep, AttachBot, CountUsers, MatchIdentity, MatchAddress, LinkSlack,
                        CreateSlackUser, FailSlack, Resolved, Refuse, Open
    <3> QED BY <1>1, <3>1, EndWaits, GotoWaits
  <2> QED BY <2>1, <2>2
<1> QED BY <1>2, <1>3, <1>4, <1>5 DEF Step

-----------------------------------------------------------------------------
(* Nobody is locked out *)

\* What the look at the password established still holds when the link goes.
UnlinkersHavePasswords ==
    \A c \in Calls : pc[c] = "writing" /\ job[c].op = "unlink" =>
        user[By(c)].state # "free" /\ user[By(c)].password

SignInInv == TypeInv /\ NeverLockedOut /\ UnlinkersHavePasswords

(* An account that exists keeps its password and is never a new one.  It   *)
(* can be entered afterwards if it could before, unless its own call       *)
(* unlinks it.                                                             *)
Enterable(u) == user[u].state = "live" => user[u].password \/ user[u].slack # NoSlack

Keeps(u) ==
    user[u].state # "free" =>
        user'[u].state # "free" /\ (user[u].password => user'[u].password)

LEMMA ChangeKeeps ==
    ASSUME TypeInv, NEW c \in Calls, Changing(c), NEW u \in Users
    PROVE  /\ Keeps(u)
           /\ Enterable(u) /\ ~(UnlinkSlack(c) /\ u = By(c)) => Enterable(u)'
<1>1. /\ user \in [Users -> UserRow]
      /\ pc[c] \in Open => job[c] \in Job
      /\ pc[c] \in SlackSteps => job[c].op \in BySlack
      /\ pc[c] = "linking" => found[c] \in Users
  BY DEF TypeInv, TypeOK, LocalsFit
<1>2. /\ user[u].state \in {"free", "live", "gone"}
      /\ \A s \in SlackIds : s # NoSlack
  BY <1>1, AddressType DEF UserRow
<1>3. CASE CreateUser(c)
  <2>1. PICK v \in Users : Insert(v, Account(job[c].role, job[c].email, TRUE, job[c].slack))
    BY <1>3 DEF CreateUser
  <2> QED BY <1>1, <2>1 DEF Insert, InsertUnchecked, Account, Keeps, Enterable
<1>4. CASE CreateSlackUser(c)
  <2>1. By(c) \in SlackIds
    BY <1>1, <1>4, JobFields DEF CreateSlackUser, By, SlackSteps, Open
  <2>2. PICK v \in Users :
            Insert(v, Account(IF job[c].op = "install" THEN "SYSTEM_ADMIN" ELSE "EMPLOYEE",
                              AddressOf[By(c)], FALSE, By(c)))
    BY <1>4 DEF CreateSlackUser
  <2> QED BY <1>1, <1>2, <2>1, <2>2 DEF Insert, InsertUnchecked, Account, Keeps, Enterable
<1>5. CASE LinkSlack(c)
  <2>1. By(c) \in SlackIds /\ found[c] \in Users
    BY <1>1, <1>5, JobFields DEF LinkSlack, By, SlackSteps, Open
  <2>2. user' = user \/ user' = [user EXCEPT ![found[c]].slack = By(c)]
    BY <1>5 DEF LinkSlack, Refuse, rows
  <2> QED BY <1>1, <1>2, <2>1, <2>2 DEF Keeps, Enterable, UserRow
<1>6. CASE DeleteTenant(c)
  <2>1. user'[u] = user[u] \/ user'[u] = [user[u] EXCEPT !.state = "gone"]
    BY <1>6 DEF DeleteTenant
  <2> QED BY <1>1, <2>1 DEF Keeps, Enterable, UserRow
<1>7. CASE SetEmail(c)
  BY <1>1, <1>7 DEF SetEmail, Keeps, Enterable, UserRow
<1>8. CASE SetPassword(c)
  <2>1. user' = [user EXCEPT ![By(c)].password = TRUE]
    BY <1>8 DEF SetPassword
  <2> QED BY <1>1, <2>1 DEF Keeps, Enterable, UserRow
<1>9. CASE UnlinkSlack(c)
  BY <1>1, <1>9 DEF UnlinkSlack, Keeps, Enterable, UserRow
<1>10. CASE SetRole(c)
  BY <1>1, <1>10 DEF SetRole, Keeps, Enterable, UserRow
<1>11. CASE SetActive(c)
  <2>1. PICK b : user' = [user EXCEPT ![On(c)].active = b]
    BY <1>11 DEF SetActive
  <2> QED BY <1>1, <2>1 DEF Keeps, Enterable, UserRow
<1>12. CASE DeleteUser(c)
  BY <1>1, <1>12 DEF DeleteUser, Keeps, Enterable, UserRow
<1>13. CASE Work(c)
  BY <1>1, <1>13 DEF Work, Keeps, Enterable, UserRow
<1> QED BY <1>3, <1>4, <1>5, <1>6, <1>7, <1>8, <1>9, <1>10, <1>11, <1>12, <1>13 DEF Changing

LEMMA InitSignIn == Init => SignInInv
<1> SUFFICES ASSUME Init PROVE NeverLockedOut /\ UnlinkersHavePasswords
  BY InitTyped DEF SignInInv
<1>1. NeverLockedOut
  BY InitSound DEF Init, NeverLockedOut, Live
<1>2. UnlinkersHavePasswords
  BY DEF Init, UnlinkersHavePasswords
<1> QED BY <1>1, <1>2

LEMMA StepSignIn ==
    ASSUME SignInInv, NEW c \in Calls, Step(c)
    PROVE  SignInInv'
<1>1. TypeInv /\ TypeInv'
  BY StepTyped DEF SignInInv
<1>2. ASSUME NEW u \in Users PROVE Keeps(u)
  BY <1>1, <1>2, Quiet, ChangeKeeps DEF Keeps
<1>3. UnlinkersHavePasswords'
  <2> SUFFICES ASSUME NEW d \in Calls, pc'[d] = "writing", job'[d].op = "unlink"
               PROVE  user'[job'[d].by].state # "free" /\ user'[job'[d].by].password
    BY DEF UnlinkersHavePasswords, By
  <2>1. /\ job'[d] = job[d]
        /\ pc[d] = "writing" \/ (MayUnlink(By(d)) /\ user' = user)
    BY <1>1, StepWaits DEF Waits
  <2>2. user[By(d)].state # "free" /\ user[By(d)].password
    BY <2>1 DEF SignInInv, UnlinkersHavePasswords, MayUnlink
  <2>3. By(d) \in Users
    BY <1>1, <2>1, JobFields DEF TypeInv, LocalsFit, By, Open, OnMyself
  <2> QED BY <1>2, <2>1, <2>2, <2>3 DEF Keeps, By
<1>4. NeverLockedOut'
  <2> SUFFICES ASSUME NEW u \in Users PROVE Enterable(u)'
    BY DEF NeverLockedOut, Live, Enterable
  <2>1. Enterable(u)
    BY DEF SignInInv, NeverLockedOut, Live, Enterable
  <2>2. CASE UnlinkSlack(c) /\ u = By(c)
    <3>1. user[u].state # "free" /\ user[u].password
      BY <2>2 DEF UnlinkSlack, Writing, IsOp, SignInInv, UnlinkersHavePasswords
    <3> QED BY <1>2, <3>1 DEF Keeps, Enterable
  <2>3. CASE ~(UnlinkSlack(c) /\ u = By(c))
    BY <1>1, <2>1, <2>3, Quiet, ChangeKeeps DEF Enterable
  <2> QED BY <2>2, <2>3
<1> QED BY <1>1, <1>3, <1>4 DEF SignInInv

LEMMA NextSignIn == SignInInv /\ [Next]_vars => SignInInv'
<1> SUFFICES ASSUME SignInInv, [Next]_vars PROVE SignInInv'
  OBVIOUS
<1>1. ASSUME UNCHANGED vars PROVE SignInInv'
  <2>1. TypeInv'
    BY NextTyped DEF SignInInv
  <2> QED BY <1>1, <2>1 DEF vars, rows, SignInInv, NeverLockedOut, Live, UnlinkersHavePasswords, By
<1>2. [Next]_vars => UNCHANGED vars \/ \E c \in Calls : Step(c)
  BY DEF Next, AllServed, Step
<1> QED BY <1>1, <1>2, StepSignIn

(* An account can always be entered, by password or through Slack: the     *)
(* look at the password and the unlinking are two steps, and whatever      *)
(* comes between them takes no password away.                              *)
THEOREM NobodyIsLockedOut == Spec => []NeverLockedOut
<1>1. SignInInv => NeverLockedOut
  BY DEF SignInInv
<1> QED BY <1>1, InitSignIn, NextSignIn, PTL DEF Spec

-----------------------------------------------------------------------------
(* One account per Slack identity *)

AddressesUnique ==
    \A u, v \in Users :
        user[u].state = "live" /\ user[v].state = "live" /\ user[u].email = user[v].email
            => u = v

\* An account is linked to the member whose address it has, unless that
\* address was given up or the link was typed in.
LinksFit ==
    \A u \in Users :
        user[u].state = "live" /\ user[u].slack \notin exposed \cup {NoSlack}
            => user[u].email = AddressOf[user[u].slack]

\* So is the account a sign-in is about to link.
LinkersFit ==
    \A c \in Calls : pc[c] = "linking" =>
        /\ user[found[c]].state # "free"
        /\ user[found[c]].state = "live" =>
             user[found[c]].email = AddressOf[By(c)] \/ By(c) \in exposed

IdentityInv == TypeInv /\ AddressesUnique /\ LinksFit /\ LinkersFit

\* One account: the same address, or the address it had is given up.
Stays(u) ==
    user[u].state # "free" =>
        /\ user'[u].state # "free"
        /\ user'[u].state = "live" =>
             /\ user[u].state = "live"
             /\ \/ user'[u].email = user[u].email
                \/ \A s \in SlackIds : AddressOf[s] = user[u].email => s \in exposed'

\* A new account, or a new address, is nobody else's.
Fresh(u) ==
    user'[u].state = "live" /\ ~(user[u].state = "live" /\ user'[u].email = user[u].email) =>
        \A v \in Users \ {u} : user'[v] = user[v] /\
                              (user[v].state = "live" => user[v].email # user'[u].email)

\* A new link is to the member with the account's address.
Linked(u) ==
    user'[u].state = "live" /\ user'[u].slack \notin exposed' \cup {NoSlack} =>
        \/ user'[u].email = AddressOf[user'[u].slack]
        \/ user[u].state = "live" /\ user'[u].slack = user[u].slack

LEMMA ChangeIdentity ==
    ASSUME IdentityInv, NEW c \in Calls, Changing(c), NEW u \in Users
    PROVE  Stays(u) /\ Fresh(u) /\ Linked(u) /\ exposed \subseteq exposed'
<1>1. /\ user \in [Users -> UserRow]
      /\ pc[c] \in Open => job[c] \in Job
      /\ pc[c] \in SlackSteps => job[c].op \in BySlack
      /\ pc[c] = "linking" => found[c] \in Users
  BY DEF IdentityInv, TypeInv, TypeOK, LocalsFit
<1>2. CASE CreateUser(c)
  <2>1. PICK v \in Users : Insert(v, Account(job[c].role, job[c].email, TRUE, job[c].slack))
    BY <1>2 DEF CreateUser
  <2>2. exposed' = exposed \cup ({job[c].slack} \ {NoSlack})
    BY <1>2 DEF CreateUser
  <2> QED BY <1>1, <2>1, <2>2 DEF Insert, InsertUnchecked, Account, Taken, Live, Stays, Fresh,
                                  Linked
<1>3. CASE CreateSlackUser(c)
  <2>1. PICK v \in Users :
            Insert(v, Account(IF job[c].op = "install" THEN "SYSTEM_ADMIN" ELSE "EMPLOYEE",
                              AddressOf[By(c)], FALSE, By(c)))
    BY <1>3 DEF CreateSlackUser
  <2>2. exposed' = exposed
    BY <1>3 DEF CreateSlackUser
  <2> QED BY <1>1, <2>1, <2>2 DEF Insert, InsertUnchecked, Account, Taken, Live, Stays, Fresh,
                                  Linked
<1>4. CASE LinkSlack(c)
  <2>1. found[c] \in Users /\ pc[c] = "linking"
    BY <1>1, <1>4 DEF LinkSlack
  <2>2. CASE user[found[c]].state = "live"
    <3>1. user' = [user EXCEPT ![found[c]].slack = By(c)] /\ exposed' = exposed
      BY <1>4, <2>2 DEF LinkSlack
    <3>2. user[found[c]].email = AddressOf[By(c)] \/ By(c) \in exposed
      BY <2>1, <2>2 DEF IdentityInv, LinkersFit
    <3> QED BY <1>1, <2>1, <3>1, <3>2 DEF UserRow, Stays, Fresh, Linked
  <2>3. CASE user[found[c]].state # "live"
    <3>1. user' = user /\ exposed' = exposed
      BY <1>4, <2>3 DEF LinkSlack, Refuse, rows
    <3> QED BY <3>1 DEF Stays, Fresh, Linked
  <2> QED BY <2>2, <2>3
<1>5. CASE DeleteTenant(c)
  <2>1. exposed' = exposed
    BY <1>5 DEF DeleteTenant
  <2>2. user'[u] = user[u] \/ user'[u] = [user[u] EXCEPT !.state = "gone"]
    BY <1>5 DEF DeleteTenant
  <2>3. user'[u].state = "live" => user'[u] = user[u]
    BY <1>1, <2>2 DEF UserRow
  <2>4. user[u].state # "free" => user'[u].state # "free"
    BY <1>1, <2>2 DEF UserRow
  <2> QED BY <2>1, <2>3, <2>4 DEF Stays, Fresh, Linked
<1>6. CASE SetEmail(c)
  <2>1. /\ user' = [user EXCEPT ![By(c)].email = job[c].email]
        /\ exposed' = exposed \cup AddressedTo(By(c))
    BY <1>6 DEF SetEmail
  <2>2. By(c) \in Users
    BY <1>1, <1>6, JobFields DEF SetEmail, Writing, IsOp, Open, By
  <2>3. \A v \in Live \ {By(c)} : user[v].email # job[c].email
    <3>1. job[c].op = "email" /\ Accepted(c)
      BY <1>6 DEF SetEmail, Writing, IsOp
    <3> QED BY <3>1 DEF Accepted, By, OnMyself, OnOthers, OnTenant, OnTenantUser, OnStaff
  <2>4. user'[u] = IF u = By(c) THEN [user[u] EXCEPT !.email = job[c].email] ELSE user[u]
    BY <1>1, <2>1, <2>2
  <2>5. /\ user'[u].state = user[u].state /\ user'[u].slack = user[u].slack
        /\ user'[u].email = IF u = By(c) THEN job[c].email ELSE user[u].email
    BY <1>1, <2>4 DEF UserRow
  <2>6. Stays(u)
    BY <2>1, <2>5 DEF Stays, AddressedTo
  <2>7. Fresh(u)
    BY <1>1, <2>1, <2>2, <2>3, <2>5 DEF Fresh, Live
  <2>8. Linked(u)
    BY <2>5 DEF Linked
  <2> QED BY <2>1, <2>6, <2>7, <2>8
<1>7. ASSUME \/ SetPassword(c) \/ UnlinkSlack(c) \/ SetRole(c) \/ SetActive(c)
             \/ DeleteUser(c) \/ Work(c)
      PROVE  /\ exposed' = exposed
             /\ user'[u].email = user[u].email
             /\ user'[u].state \in {user[u].state, "gone"}
             /\ user'[u].slack \in {user[u].slack, NoSlack}
  <2>1. CASE SetPassword(c)
    <3>1. user' = [user EXCEPT ![By(c)].password = TRUE]
      BY <2>1 DEF SetPassword
    <3> QED BY <1>1, <2>1, <3>1 DEF SetPassword, UserRow
  <2>2. CASE UnlinkSlack(c)
    BY <1>1, <2>2 DEF UnlinkSlack, UserRow
  <2>3. CASE SetRole(c)
    BY <1>1, <2>3 DEF SetRole, UserRow
  <2>4. CASE SetActive(c)
    <3>1. PICK b : user' = [user EXCEPT ![On(c)].active = b]
      BY <2>4 DEF SetActive
    <3> QED BY <1>1, <2>4, <3>1 DEF SetActive, UserRow
  <2>5. CASE DeleteUser(c)
    BY <1>1, <2>5 DEF DeleteUser, UserRow
  <2>6. CASE Work(c)
    BY <1>1, <2>6 DEF Work, UserRow
  <2> QED BY <1>7, <2>1, <2>2, <2>3, <2>4, <2>5, <2>6
<1> QED BY <1>2, <1>3, <1>4, <1>5, <1>6, <1>7 DEF Changing, Stays, Fresh, Linked

LEMMA InitIdentity == Init => IdentityInv
<1> SUFFICES ASSUME Init PROVE AddressesUnique /\ LinksFit /\ LinkersFit
  BY InitTyped DEF IdentityInv
<1>1. AddressesUnique /\ LinksFit
  BY InitSound DEF Init, AddressesUnique, LinksFit
<1>2. LinkersFit
  BY DEF Init, LinkersFit
<1> QED BY <1>1, <1>2

LEMMA StepIdentity ==
    ASSUME IdentityInv, NEW c \in Calls, Step(c)
    PROVE  IdentityInv'
<1>1. TypeInv /\ TypeInv'
  BY StepTyped DEF IdentityInv
<1>2. ASSUME NEW u \in Users
      PROVE  Stays(u) /\ Fresh(u) /\ Linked(u) /\ exposed \subseteq exposed'
  BY Quiet, ChangeIdentity DEF Stays, Fresh, Linked
<1>3. AddressesUnique'
  <2> SUFFICES ASSUME NEW u \in Users, NEW v \in Users,
                      user'[u].state = "live", user'[v].state = "live",
                      user'[u].email = user'[v].email, u # v
               PROVE  FALSE
    BY DEF AddressesUnique
  <2>1. /\ user[u].state = "live" /\ user'[u].email = user[u].email
        /\ user[v].state = "live" /\ user'[v].email = user[v].email
    BY <1>2 DEF Fresh
  <2> QED BY <2>1 DEF IdentityInv, AddressesUnique
<1>4. LinksFit'
  <2> SUFFICES ASSUME NEW u \in Users, user'[u].state = "live",
                      user'[u].slack \notin exposed' \cup {NoSlack}
               PROVE  user'[u].email = AddressOf[user'[u].slack]
    BY DEF LinksFit
  <2>1. CASE user[u].state = "live" /\ user'[u].slack = user[u].slack
    <3>1. user[u].email = AddressOf[user[u].slack] /\ user[u].slack \notin exposed'
      BY <1>2, <2>1 DEF IdentityInv, LinksFit
    <3>2. user[u].slack \in SlackIds
      BY <1>1, <2>1 DEF TypeInv, TypeOK, UserRow
    <3> QED BY <1>2, <2>1, <3>1, <3>2 DEF Stays
  <2> QED BY <1>2, <2>1 DEF Linked
<1>5. LinkersFit'
  <2> SUFFICES ASSUME NEW d \in Calls, pc'[d] = "linking"
               PROVE  /\ user'[found'[d]].state # "free"
                      /\ user'[found'[d]].state = "live" =>
                           \/ user'[found'[d]].email = AddressOf[job'[d].by]
                           \/ job'[d].by \in exposed'
    BY DEF LinkersFit, By
  <2>1. /\ job'[d] = job[d]
        /\ \/ pc[d] = "linking" /\ found'[d] = found[d]
           \/ /\ user' = user
              /\ found'[d] \in Live
              /\ user[found'[d]].email = AddressOf[By(d)]
    BY <1>1, StepWaits DEF Waits
  <2>2. CASE pc[d] = "linking" /\ found'[d] = found[d]
    <3>1. found[d] \in Users /\ By(d) \in SlackIds
      BY <1>1, <2>2, JobFields DEF TypeInv, LocalsFit, Open, SlackSteps, By
    <3>2. /\ user[found[d]].state # "free"
          /\ user[found[d]].state = "live" =>
               user[found[d]].email = AddressOf[By(d)] \/ By(d) \in exposed
      BY <2>2 DEF IdentityInv, LinkersFit
    <3> QED BY <1>2, <2>1, <2>2, <3>1, <3>2 DEF Stays, By
  <2>3. CASE user' = user /\ found'[d] \in Live /\ user[found'[d]].email = AddressOf[By(d)]
    BY <2>1, <2>3 DEF Live, By
  <2> QED BY <2>1, <2>2, <2>3
<1> QED BY <1>1, <1>3, <1>4, <1>5 DEF IdentityInv

LEMMA NextIdentity == IdentityInv /\ [Next]_vars => IdentityInv'
<1> SUFFICES ASSUME IdentityInv, [Next]_vars PROVE IdentityInv'
  OBVIOUS
<1>1. ASSUME UNCHANGED vars PROVE IdentityInv'
  <2>1. TypeInv'
    BY NextTyped DEF IdentityInv
  <2> QED BY <1>1, <2>1 DEF vars, rows, IdentityInv, AddressesUnique, LinksFit, LinkersFit, By
<1>2. [Next]_vars => UNCHANGED vars \/ \E c \in Calls : Step(c)
  BY DEF Next, AllServed, Step
<1> QED BY <1>1, <1>2, StepIdentity

(* However many sign-ins, installations and messages of one Slack member   *)
(* overlap, with profile changes in between, they end in one account,      *)
(* unless an account gave the member's address up or an administrator      *)
(* typed the member's id.                                                  *)
THEOREM SlackIdentityIsOneAccount == Spec => []OneAccountPerSlackIdentity
<1>1. IdentityInv => OneAccountPerSlackIdentity
  BY DEF IdentityInv, AddressesUnique, LinksFit, OneAccountPerSlackIdentity, Live
<1> QED BY <1>1, InitIdentity, NextIdentity, PTL DEF Spec

-----------------------------------------------------------------------------
(* The last administrator *)

LEMMA AcceptedTarget ==
    ASSUME NEW c \in Calls, Accepted(c), job[c].op \in OnOthers \cup OnTenantUser
    PROVE  On(c) \in Live
BY DEF Accepted, On, OnMyself, OnOthers, OnTenant, OnTenantUser, OnStaff

(* One step takes away at most the account its call is about, or the whole *)
(* tenant at the word of platform staff.                                   *)
LEMMA AdminsKept ==
    ASSUME TypeInv, NEW c \in Calls, Changing(c)
    PROVE  \/ ActiveAdmins \subseteq ActiveAdmins'
           \/ /\ pc[c] = "writing" /\ pc'[c] = "over"
              /\ \/ By(c) \in Staff
                 \/ On(c) # By(c) /\ ActiveAdmins \ {On(c)} \subseteq ActiveAdmins'
<1>1. /\ user \in [Users -> UserRow]
      /\ pc \in [Calls -> Open \cup {"idle", "over"}]
      /\ pc[c] \in Open => job[c] \in Job /\ NotSelf(job[c])
      /\ pc[c] = "linking" => found[c] \in Users
  BY DEF TypeInv, TypeOK, LocalsFit
<1>2. CASE CreateUser(c)
  <2>1. PICK v \in Users : Insert(v, Account(job[c].role, job[c].email, TRUE, job[c].slack))
    BY <1>2 DEF CreateUser
  <2> QED BY <1>1, <2>1 DEF Insert, InsertUnchecked, ActiveAdmins, Live
<1>3. CASE CreateSlackUser(c)
  <2>1. PICK v \in Users :
            Insert(v, Account(IF job[c].op = "install" THEN "SYSTEM_ADMIN" ELSE "EMPLOYEE",
                              AddressOf[By(c)], FALSE, By(c)))
    BY <1>3 DEF CreateSlackUser
  <2> QED BY <1>1, <2>1 DEF Insert, InsertUnchecked, ActiveAdmins, Live
<1>4. CASE LinkSlack(c)
  <2>1. user' = user \/ user' = [user EXCEPT ![found[c]].slack = By(c)]
    BY <1>4 DEF LinkSlack, Refuse, rows
  <2> QED BY <1>1, <2>1 DEF ActiveAdmins, Live, UserRow
<1>5. CASE SetEmail(c)
  BY <1>1, <1>5 DEF SetEmail, ActiveAdmins, Live, UserRow
<1>6. CASE SetPassword(c)
  <2>1. user' = [user EXCEPT ![By(c)].password = TRUE]
    BY <1>6 DEF SetPassword
  <2> QED BY <1>1, <2>1 DEF ActiveAdmins, Live, UserRow
<1>7. CASE UnlinkSlack(c)
  BY <1>1, <1>7 DEF UnlinkSlack, ActiveAdmins, Live, UserRow
<1>8. CASE Work(c)
  BY <1>1, <1>8 DEF Work, ActiveAdmins, Live, UserRow
<1>9. CASE DeleteTenant(c)
  <2>1. job[c].op = "deleteTenant" /\ pc[c] = "writing" /\ pc'[c] = "over"
    BY <1>1, <1>9 DEF DeleteTenant, Writing, IsOp, End
  <2> QED BY <1>1, <2>1, JobFields DEF Open, OnTenant, By
<1>10. CASE SetRole(c)
  <2>1. pc[c] = "writing" /\ pc'[c] = "over" /\ job[c].op \in {"promote", "demote"}
    BY <1>1, <1>10 DEF SetRole, Writing, IsOp, End
  <2>2. On(c) # By(c)
    BY <1>1, <2>1 DEF NotSelf, On, By, Open
  <2>3. ActiveAdmins \ {On(c)} \subseteq ActiveAdmins'
    BY <1>1, <1>10 DEF SetRole, ActiveAdmins, Live, UserRow
  <2> QED BY <2>1, <2>2, <2>3
<1>11. CASE SetActive(c)
  <2>1. /\ pc[c] = "writing" /\ pc'[c] = "over"
        /\ job[c].op \in {"block", "unblock", "blockTenantUser", "unblockTenantUser"}
    BY <1>1, <1>11 DEF SetActive, Writing, IsOp, End
  <2>2. PICK b : user' = [user EXCEPT ![On(c)].active = b]
    BY <1>11 DEF SetActive
  <2>3. ActiveAdmins \ {On(c)} \subseteq ActiveAdmins'
    BY <1>1, <2>2 DEF ActiveAdmins, Live, UserRow
  <2>4. CASE job[c].op = "block"
    <3>1. On(c) # By(c)
      BY <1>1, <2>1, <2>4 DEF NotSelf, On, By, Open
    <3> QED BY <2>1, <2>3, <3>1
  <2>5. CASE job[c].op = "unblock"
    <3>1. user' = [user EXCEPT ![On(c)].active = TRUE]
      BY <1>11, <2>5 DEF SetActive
    <3>2. ActiveAdmins \subseteq ActiveAdmins'
      BY <1>1, <3>1 DEF ActiveAdmins, Live, UserRow
    <3> QED BY <3>2
  <2>6. CASE job[c].op \in {"blockTenantUser", "unblockTenantUser"}
    <3>1. By(c) \in Staff
      BY <1>1, <2>1, <2>6, JobFields DEF Open, OnTenantUser, By
    <3> QED BY <2>1, <3>1
  <2> QED BY <2>1, <2>4, <2>5, <2>6
<1>12. CASE DeleteUser(c)
  <2>1. pc[c] = "writing" /\ pc'[c] = "over" /\ job[c].op \in {"remove", "deleteTenantAdmin"}
    BY <1>1, <1>12 DEF DeleteUser, Writing, IsOp, End
  <2>2. ActiveAdmins \ {On(c)} \subseteq ActiveAdmins'
    BY <1>1, <1>12 DEF DeleteUser, ActiveAdmins, Live, UserRow
  <2>3. CASE job[c].op = "remove"
    <3>1. On(c) # By(c)
      BY <1>1, <2>1, <2>3 DEF NotSelf, On, By, Open
    <3> QED BY <2>1, <2>2, <3>1
  <2>4. CASE job[c].op = "deleteTenantAdmin"
    <3>1. By(c) \in Staff
      BY <1>1, <2>1, <2>4, JobFields DEF Open, OnTenantUser, By
    <3> QED BY <2>1, <3>1
  <2> QED BY <2>1, <2>3, <2>4
<1> QED BY <1>2, <1>3, <1>4, <1>5, <1>6, <1>7, <1>8, <1>9, <1>10, <1>11, <1>12 DEF Changing

AdminFalls ==
    ActiveAdmins # {} /\ ActiveAdmins' = {} =>
        \E c \in Calls : /\ pc[c] = "writing" /\ pc'[c] = "over"
                         /\ By(c) \notin ActiveAdmins

LEMMA StepAdmins == TypeInv /\ [Next]_vars => [AdminFalls]_vars
<1> SUFFICES ASSUME TypeInv, [Next]_vars, ActiveAdmins # {}, ActiveAdmins' = {}
             PROVE  \E c \in Calls : /\ pc[c] = "writing" /\ pc'[c] = "over"
                                     /\ By(c) \notin ActiveAdmins
  BY DEF AdminFalls
<1>1. user' # user
  BY DEF ActiveAdmins, Live
<1>2. PICK c \in Calls : Step(c)
  BY <1>1 DEF Next, AllServed, Step, vars, rows
<1>3. Changing(c)
  BY <1>1, <1>2, Quiet
<1>4. /\ pc[c] = "writing" /\ pc'[c] = "over"
      /\ \/ By(c) \in Staff
         \/ On(c) # By(c) /\ ActiveAdmins \ {On(c)} \subseteq ActiveAdmins'
  BY <1>3, AdminsKept
<1>5. By(c) \notin ActiveAdmins
  BY <1>4, InitType DEF ActiveAdmins, Live
<1> QED BY <1>4, <1>5

(* A tenant is left without an active administrator only by platform staff *)
(* or by a call whose actor was no longer one when it wrote: nobody may    *)
(* turn to their own account, so an actor who still is one remains.        *)
THEOREM LastAdminTheorem == Spec => LastAdminFallsToStaleCalls
<1>1. Spec => []TypeInv
  BY InitTyped, NextTyped, PTL DEF Spec
<1>2. Spec => [][AdminFalls]_vars
  BY <1>1, StepAdmins, PTL DEF Spec
<1> QED BY <1>2 DEF LastAdminFallsToStaleCalls, AdminFalls

GlobalFalls ==
    ActiveGlobals # {} /\ ActiveGlobals' = {} =>
        \E c \in Calls : /\ pc[c] = "writing" /\ pc'[c] = "over"
                         /\ By(c) \notin ActiveGlobals

LEMMA StaffChanges ==
    ASSUME NEW c \in Calls, Step(c)
    PROVE  staff' = staff \/ CreateAdmin(c) \/ ChangeAdmin(c)
<1>1. Start(c) \/ Check(c) => staff' = staff
  BY DEF Start, Check, CheckEmail, CheckPassword, CountHistory, RequireGlobal, Refuse, rows
<1>2. Write(c) => staff' = staff \/ CreateAdmin(c) \/ ChangeAdmin(c)
  BY DEF Write, CreateUser, SetEmail, SetPassword, UnlinkSlack, SetRole, SetActive, DeleteUser,
         Work, SetTenantActive, DeleteTenant, Login, PlatformLogin, FailWrite, Refuse, rows
<1>3. SlackStep(c) => staff' = staff
  BY DEF SlackStep, AttachBot, CountUsers, MatchIdentity, MatchAddress, LinkSlack,
         CreateSlackUser, FailSlack, Refuse, rows
<1> QED BY <1>1, <1>2, <1>3 DEF Step

LEMMA StepGlobals == TypeInv /\ [Next]_vars => [GlobalFalls]_vars
<1> SUFFICES ASSUME TypeInv, [Next]_vars, ActiveGlobals # {}, ActiveGlobals' = {}
             PROVE  \E c \in Calls : /\ pc[c] = "writing" /\ pc'[c] = "over"
                                     /\ By(c) \notin ActiveGlobals
  BY DEF GlobalFalls
<1>1. staff' # staff
  BY DEF ActiveGlobals, LiveStaff
<1>2. PICK c \in Calls : Step(c)
  BY <1>1 DEF Next, AllServed, Step, vars, rows
<1>3. staff \in [Staff -> StaffRow] /\ pc \in [Calls -> Open \cup {"idle", "over"}]
  BY DEF TypeInv, TypeOK
<1>4. ~CreateAdmin(c)
  <2> SUFFICES ASSUME CreateAdmin(c) PROVE FALSE
    OBVIOUS
  <2>1. PICK a \in Staff :
            /\ staff[a].state = "free"
            /\ staff' = [staff EXCEPT ![a] =
                           [state |-> "live", active |-> TRUE, global |-> job[c].global]]
    BY DEF CreateAdmin
  <2>2. ActiveGlobals \subseteq ActiveGlobals'
    BY <1>3, <2>1 DEF ActiveGlobals, LiveStaff
  <2> QED BY <2>2
<1>5. ChangeAdmin(c)
  BY <1>1, <1>2, <1>4, StaffChanges
<1>6. job[c].op \in OnStaff /\ pc[c] = "writing" /\ pc'[c] = "over"
  BY <1>3, <1>5 DEF ChangeAdmin, Writing, IsOp, End
<1>7. On(c) # By(c)
  BY <1>6 DEF TypeInv, LocalsFit, NotSelf, OnStaff, On, By, Open
<1>8. ActiveGlobals \ {On(c)} \subseteq ActiveGlobals'
  <2>1. CASE job[c].op = "deleteAdmin"
    BY <1>3, <1>5, <2>1 DEF ChangeAdmin, ActiveGlobals, LiveStaff, StaffRow
  <2>2. CASE job[c].op # "deleteAdmin"
    <3>1. PICK b : staff' = [staff EXCEPT ![On(c)].active = b]
      BY <1>5, <2>2 DEF ChangeAdmin
    <3> QED BY <1>3, <3>1 DEF ActiveGlobals, LiveStaff, StaffRow
  <2> QED BY <2>1, <2>2
<1>9. By(c) \notin ActiveGlobals
  BY <1>7, <1>8
<1> QED BY <1>6, <1>9

(* The platform is left without an active global administrator only by a   *)
(* call whose actor was no longer one when it wrote.                       *)
THEOREM LastGlobalTheorem == Spec => LastGlobalFallsToStaleCalls
<1>1. Spec => []TypeInv
  BY InitTyped, NextTyped, PTL DEF Spec
<1>2. Spec => [][GlobalFalls]_vars
  BY <1>1, StepGlobals, PTL DEF Spec
<1> QED BY <1>2 DEF LastGlobalFallsToStaleCalls, GlobalFalls

=============================================================================
