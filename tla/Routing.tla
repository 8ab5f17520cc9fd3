------------------------------ MODULE Routing -------------------------------
(***************************************************************************)
(* EmployeeRolesService: the catalog of employee roles, who holds them,    *)
(* and who is sent a Slack message because of a role - when the assistant  *)
(* routes a request, and when an administrator broadcasts.                 *)
(*                                                                         *)
(* Every query and every post to Slack of a call is an action.  A save of  *)
(* a user's roles is two statements of one READ COMMITTED transaction: its *)
(* DELETE sees the rows there when it starts and waits for other saves to  *)
(* let go of them; what those commit meanwhile stays.                      *)
(***************************************************************************)
EXTENDS Naturals, FiniteSets

CONSTANTS
    Users,
    Tags,         \* ids of EmployeeRole rows
    Names,        \* names a role may have
    NoName,       \* no row yet
    Gone,         \* a deleted row
    NoOne,
    Calls,
    Ops,          \* the operations of this instance
    InitName,     \* the name of each role at the start, or NoName
    InitPerson,   \* the User rows at the start
    InitHolds,    \* UserEmployeeRole rows at the start
    MaxOpen,      \* calls that may overlap
    MaxChanges    \* bound on the single writes around the calls

Person == [admin : BOOLEAN, reachable : BOOLEAN, onLeave : BOOLEAN,
           formal : BOOLEAN, lead : Users \cup {NoOne}]

ASSUME NamesType == {NoName, Gone} \cap Names = {} /\ NoOne \notin Users
ASSUME UsersFinite == IsFiniteSet(Users)
ASSUME InitType ==
    /\ InitName \in [Tags -> Names \cup {NoName}]
    /\ InitPerson \in [Users -> Person]
    /\ \A u \in Users : InitPerson[u].lead # u
    /\ InitHolds \subseteq Users \X {t \in Tags : InitName[t] # NoName}
ASSUME BoundsType == MaxOpen \in Nat \ {0} /\ MaxChanges \in Nat

VARIABLES
    name,       \* EmployeeRole.name, by id
    person,     \* User rows: administrator, active with a Slack identity,
                \* isOnLeave, an approved leave request that covers today, lead
    holds,      \* UserEmployeeRole rows
    record,     \* the RoleBroadcast row of each call
    job,        \* what each call was asked to do
    pc,         \* where each call is
    role,       \* the rows of roles a call has read
    target,     \* users a call has chosen
    sent,       \* those of them Slack took a post to
    refused,    \* those of them Slack answered a post to with ok: false
    surely,     \* users available as holders ever since the call began (history)
    standby,    \* administrators reachable ever since (history)
    away,       \* ways in which users were away ever since (history)
    promised,   \* roles a promotion of each user is to leave them with (history)
    changes     \* single writes left (a bound)

directory == <<name, person, holds>>
posts     == <<sent, refused>>
locals    == <<job, role, target, posts>>
history   == <<surely, standby, away, promised>>
vars      == <<directory, record, locals, history, pc, changes>>

-----------------------------------------------------------------------------

Job == [op : {"notify"}, by : Users, name : Names] \cup
       [op : {"tellLead"}, by : Users] \cup
       [op : {"broadcast"}, by : Users, tags : SUBSET Tags, admins : BOOLEAN] \cup
       [op : {"save"}, on : Users, tags : SUBSET Tags] \cup
       [op : {"promote"}, on : Users]

NoJob    == [op |-> "none"]
NoRecord == [count |-> 0, forwarded |-> FALSE]

(* pcs of a call between its choice of the recipients and its end *)
Delivering == {"posting", "forwarding", "recording", "recordingForward"}

TypeOK ==
    /\ name \in [Tags -> Names \cup {NoName, Gone}]
    /\ person \in [Users -> Person]
    /\ \A u \in Users : person[u].lead # u
    /\ holds \subseteq Users \X {t \in Tags : name[t] \in Names}
    /\ record \in [Calls -> [count : 0..Cardinality(Users), forwarded : BOOLEAN]]
    /\ job \in [Calls -> Job \cup {NoJob}]
    /\ pc \in [Calls -> Delivering \cup {"idle", "finding", "choosing", "excluding",
                          "falling", "deleting", "inserting", "promoted", "covering",
                          "over", "failed"}]
    /\ role \in [Calls -> SUBSET Tags]
    /\ target \in [Calls -> SUBSET Users]
    /\ sent \in [Calls -> SUBSET Users]
    /\ refused \in [Calls -> SUBSET Users]
    /\ surely \in [Calls -> SUBSET Users]
    /\ standby \in [Calls -> SUBSET Users]
    /\ away \in [Calls -> SUBSET (Users \X {"onLeave", "formal"})]
    /\ promised \in [Users -> SUBSET Tags]
    /\ changes \in 0..MaxChanges

Init ==
    /\ name = InitName
    /\ person = InitPerson
    /\ holds = InitHolds
    /\ record = [c \in Calls |-> NoRecord]
    /\ job = [c \in Calls |-> NoJob]
    /\ pc = [c \in Calls |-> "idle"]
    /\ role = [c \in Calls |-> {}]
    /\ target = [c \in Calls |-> {}]
    /\ sent = [c \in Calls |-> {}]
    /\ refused = [c \in Calls |-> {}]
    /\ surely = [c \in Calls |-> {}]
    /\ standby = [c \in Calls |-> {}]
    /\ away = [c \in Calls |-> {}]
    /\ promised = [u \in Users |-> {}]
    /\ changes = MaxChanges

RolesThere   == {t \in Tags : name[t] \in Names}
CalledBy(n)  == {t \in Tags : name[t] = n}
TagsOf(u)    == {t \in Tags : <<u, t>> \in holds}
HoldersOf(T) == {u \in Users : TagsOf(u) \cap T # {}}
Reachable    == {u \in Users : person[u].reachable}
Admins       == {u \in Users : person[u].admin}
IsOp(c, ops) == job[c].op \in ops

(* Users a request of u for the role called n may be routed to now. *)
Available(n, u) ==
    {v \in HoldersOf(CalledBy(n)) \cap Reachable :
        v # u /\ ~person[v].onLeave /\ ~person[v].formal}

Goto(c, p) == pc' = [pc EXCEPT ![c] = p]

(* The call is answered; its locals go. *)
End(c, p) ==
    /\ Goto(c, p)
    /\ job' = [job EXCEPT ![c] = NoJob]
    /\ role' = [role EXCEPT ![c] = {}]
    /\ target' = [target EXCEPT ![c] = {}]
    /\ sent' = [sent EXCEPT ![c] = {}]
    /\ refused' = [refused EXCEPT ![c] = {}]

Away == {u \in Users : person[u].onLeave} \X {"onLeave"} \cup
        {u \in Users : person[u].formal} \X {"formal"}

(* What was so ever since a notice began, until it has chosen its recipients. *)
SoFar(c, places, old, now) ==
    IF job'[c].op # "notify" THEN {}
    ELSE IF pc'[c] \notin places THEN old
    ELSE IF pc[c] = "idle" THEN now ELSE old \cap now

ObserveNotices ==
    LET looking == {"finding", "choosing", "excluding"}
    IN  /\ surely' = [c \in Calls |->
              SoFar(c, looking, surely[c], Available(job[c].name, job[c].by)')]
        /\ away' = [c \in Calls |-> SoFar(c, looking, away[c], Away')]
        /\ standby' = [c \in Calls |->
              SoFar(c, looking \cup {"falling"}, standby[c], (Admins \cap Reachable)')]

(* A promotion promises the roles there are when it reads the catalog.  It *)
(* is void when one of them is deleted before the insert, and a save takes *)
(* back what it deletes and does not insert again.                         *)
Leaves(c, u, p) == pc[c] = p /\ pc'[c] # p /\ job[c].on = u

Voids(c, u) ==
    pc[c] = "covering" /\ job[c].on = u /\ role[c] \cap (RolesThere \ RolesThere') # {}

ObservePromotions ==
    promised' = [u \in Users |->
        IF \E c \in Calls : Leaves(c, u, "promoted") THEN RolesThere
        ELSE IF \E c \in Calls : Leaves(c, u, "inserting") /\ pc'[c] = "over"
        THEN {t \in promised[u] : \A c \in Calls :
                 Leaves(c, u, "inserting") => t \notin role[c] \ job[c].tags}
        ELSE IF name' # name /\ \E c \in Calls : Voids(c, u) THEN {}
        ELSE promised[u] \cap RolesThere']

Observe == ObserveNotices /\ ObservePromotions

-----------------------------------------------------------------------------
(* Single writes around the calls *)

Change ==
    /\ changes > 0
    /\ changes' = changes - 1
    /\ UNCHANGED <<record, locals, pc>>

(* create: the name must be free, as the unique index also says. *)
CreateTag(t, n) ==
    /\ Change
    /\ name[t] = NoName
    /\ CalledBy(n) = {}
    /\ name' = [name EXCEPT ![t] = n]
    /\ UNCHANGED <<person, holds>>

(* update *)
RenameTag(t, n) ==
    /\ Change
    /\ t \in RolesThere
    /\ CalledBy(n) = {}
    /\ name' = [name EXCEPT ![t] = n]
    /\ UNCHANGED <<person, holds>>

(* Rows that a save has deleted and not yet committed. *)
Locked(u) == UNION {role[d] : d \in {d \in Calls : pc[d] = "inserting" /\ job[d].on = u}}

(* remove: the memberships go with the role. *)
DeleteTag(t) ==
    /\ Change
    /\ t \in RolesThere
    /\ \A u \in Users : t \notin Locked(u)
    /\ name' = [name EXCEPT ![t] = Gone]
    /\ holds' = {h \in holds : h[2] # t}
    /\ UNCHANGED person

(* setOnLeave; a leave request that is approved, begins or ends; an        *)
(* account that is blocked, unblocked, linked to or unlinked from Slack;   *)
(* updateRole to a role other than administrator.                          *)
Toggle(u, what) ==
    /\ Change
    /\ what = "admin" => person[u].admin
    /\ person' = [person EXCEPT ![u][what] = ~@]
    /\ UNCHANGED <<name, holds>>

\* Mutant: no look at who is to lead.
AnyoneLeads(u, v) == TRUE

(* Nobody leads themselves. *)
MayLead(u, v) == v # u

(* setTeamLead *)
SetTeamLead(u, v) ==
    /\ Change
    /\ MayLead(u, v)
    /\ person' = [person EXCEPT ![u].lead = v]
    /\ UNCHANGED <<name, holds>>

-----------------------------------------------------------------------------
(* Calls *)

(* broadcast is for administrators and picks at least one target; the      *)
(* roles a save or a broadcast names are looked up before anything else.   *)
Acceptable(j) ==
    /\ j.op \in {"save", "broadcast"} => j.tags \subseteq RolesThere
    /\ j.op = "broadcast" => person[j.by].admin /\ (j.tags # {} \/ j.admins)
    /\ j.op = "promote" => ~person[j.on].admin

FirstStep(op) ==
    CASE op = "notify"    -> "finding"
      [] op = "save"      -> "finding"
      [] op = "promote"   -> "finding"
      [] op = "tellLead"  -> "choosing"
      [] op = "broadcast" -> "choosing"

Start(c) ==
    /\ pc[c] = "idle"
    /\ Cardinality({d \in Calls : pc[d] \notin {"idle", "over", "failed"}}) < MaxOpen
    /\ \E j \in Job :
         /\ j.op \in Ops
         /\ Acceptable(j)
         /\ job' = [job EXCEPT ![c] = j]
         /\ Goto(c, FirstStep(j.op))
    /\ UNCHANGED <<directory, record, role, target, posts, changes>>

-----------------------------------------------------------------------------
(* notifyRoleForRequest, broadcast, notifyTeamLead: whom to send to *)

(* The role a request is routed to is looked up by its name. *)
FindRole(c) ==
    /\ pc[c] = "finding"
    /\ IsOp(c, {"notify"})
    /\ IF CalledBy(job[c].name) = {}
       THEN End(c, "over")
       ELSE /\ role' = [role EXCEPT ![c] = CalledBy(job[c].name)]
            /\ Goto(c, "choosing")
            /\ UNCHANGED <<job, target, posts>>
    /\ UNCHANGED <<directory, record, changes>>

Choose(c, us, p) ==
    /\ target' = [target EXCEPT ![c] = us]
    /\ Goto(c, p)
    /\ UNCHANGED <<job, role, posts>>

(* The reachable holders of the role, with their isOnLeave. *)
ReadHolders(c) ==
    /\ pc[c] = "choosing"
    /\ IsOp(c, {"notify"})
    /\ Choose(c, {u \in HoldersOf(role[c]) \cap Reachable : ~person[u].onLeave},
              "excluding")
    /\ UNCHANGED <<directory, record, changes>>

\* Mutant: only the isOnLeave flag counts.
UnavailableByFlag(us) == {}

(* getUnavailableUserIds: leave requests that cover today. *)
Unavailable(us) == {u \in us : person[u].formal}

ExcludeUnavailable(c) ==
    /\ pc[c] = "excluding"
    /\ LET rest == target[c] \ (Unavailable(target[c]) \cup {job[c].by})
       IN  Choose(c, rest, IF rest # {} THEN "posting" ELSE "falling")
    /\ UNCHANGED <<directory, record, changes>>

(* broadcast: by employee role or by access role. *)
ReadRecipients(c) ==
    /\ pc[c] = "choosing"
    /\ IsOp(c, {"broadcast"})
    /\ LET us == Reachable \cap (HoldersOf(job[c].tags) \cup
                                 IF job[c].admins THEN Admins ELSE {})
       IN  Choose(c, us, IF us # {} THEN "posting" ELSE "falling")
    /\ UNCHANGED <<directory, record, changes>>

(* Nobody to send to: the administrators instead, if one is reachable. *)
FallBack(c) ==
    /\ pc[c] = "falling"
    /\ IF Admins \cap Reachable = {} THEN End(c, "over")
       ELSE Choose(c, Admins \cap Reachable, "forwarding")
    /\ UNCHANGED <<directory, record, changes>>

ReadLead(c) ==
    /\ pc[c] = "choosing"
    /\ IsOp(c, {"tellLead"})
    /\ LET lead == {person[job[c].by].lead} \cap Reachable
       IN  IF lead = {} THEN End(c, "over") ELSE Choose(c, lead, "posting")
    /\ UNCHANGED <<directory, record, changes>>

-----------------------------------------------------------------------------
(* deliverToAll and the RoleBroadcast row *)

Posted(c) == sent[c] \cup refused[c]

(* One post after the other.  Slack answers 200 with ok: true or ok: false, *)
(* and nobody looks which.  A message to a lead leaves no row.              *)
Post(c) ==
    /\ pc[c] \in {"posting", "forwarding"}
    /\ \E u \in target[c] \ Posted(c) :
         LET last == Posted(c) \cup {u} = target[c]
         IN  IF last /\ IsOp(c, {"tellLead"}) THEN End(c, "over")
             ELSE /\ \/ sent' = [sent EXCEPT ![c] = @ \cup {u}] /\ UNCHANGED refused
                     \/ refused' = [refused EXCEPT ![c] = @ \cup {u}] /\ UNCHANGED sent
                  /\ Goto(c, IF ~last THEN pc[c]
                             ELSE IF pc[c] = "posting" THEN "recording" ELSE "recordingForward")
                  /\ UNCHANGED <<job, role, target>>
    /\ UNCHANGED <<directory, record, changes>>

\* Mutant: the exception is swallowed, and all are recorded.
FailPostRecorded(c) ==
    /\ pc[c] \in {"posting", "forwarding"}
    /\ ~IsOp(c, {"tellLead"})
    /\ Goto(c, IF pc[c] = "posting" THEN "recording" ELSE "recordingForward")
    /\ UNCHANGED <<directory, record, locals, changes>>

(* A post that ends in an exception - Slack cannot be reached, or answers   *)
(* with an HTTP error - ends the call: nothing is recorded of the messages  *)
(* that are out already.                                                    *)
FailPost(c) ==
    /\ pc[c] \in {"posting", "forwarding"}
    /\ End(c, "failed")
    /\ UNCHANGED <<directory, record, changes>>

(* The row refers to the roles it was sent to, which must still exist.     *)
Record(c) ==
    /\ pc[c] \in {"recording", "recordingForward"}
    /\ LET refers == IF IsOp(c, {"notify"}) THEN role[c] ELSE job[c].tags
       IN  IF refers \subseteq RolesThere
           THEN /\ record' = [record EXCEPT ![c] =
                       [count |-> Cardinality(target[c]),
                        forwarded |-> pc[c] = "recordingForward"]]
                /\ End(c, "over")
           ELSE End(c, "failed") /\ UNCHANGED record
    /\ UNCHANGED <<directory, changes>>

-----------------------------------------------------------------------------
(* setUserRoles *)

(* DELETE starts: role is the rows it sees. *)
SeeMemberships(c) ==
    /\ pc[c] = "finding"
    /\ IsOp(c, {"save"})
    /\ role' = [role EXCEPT ![c] = TagsOf(job[c].on)]
    /\ Goto(c, "deleting")
    /\ UNCHANGED <<directory, record, job, target, posts, changes>>

(* DELETE ends: nobody else holds a lock on a row it saw. *)
DeleteMemberships(c) ==
    /\ pc[c] = "deleting"
    /\ role[c] \cap Locked(job[c].on) = {}
    /\ Goto(c, "inserting")
    /\ UNCHANGED <<directory, record, locals, changes>>

(* INSERT and COMMIT.  Who waits for the rows deleted here will find them  *)
(* gone, and skips them.                                                   *)
InsertMemberships(c) ==
    /\ pc[c] = "inserting"
    /\ LET u == job[c].on
           kept == TagsOf(u) \ role[c]
           waits(d) == pc[d] = "deleting" /\ job[d].on = u
       IN  /\ job[c].tags \subseteq RolesThere \ kept
           /\ holds' = {h \in holds : h[1] # u} \cup {u} \X (kept \cup job[c].tags)
           /\ role' = [d \in Calls |-> IF d = c THEN {}
                                      ELSE IF waits(d) THEN role[d] \ role[c] ELSE role[d]]
    /\ Goto(c, "over")
    /\ job' = [job EXCEPT ![c] = NoJob]
    /\ UNCHANGED <<name, person, record, target, posts, changes>>

(* A duplicate row or a deleted role rolls everything back. *)
RollBack(c) ==
    /\ pc[c] = "inserting"
    /\ ~(job[c].tags \subseteq RolesThere \ (TagsOf(job[c].on) \ role[c]))
    /\ End(c, "failed")
    /\ UNCHANGED <<directory, record, changes>>

-----------------------------------------------------------------------------
(* updateRole to administrator, then assignAllRolesIfAdmin *)

Promote(c) ==
    /\ pc[c] = "finding"
    /\ IsOp(c, {"promote"})
    /\ person' = [person EXCEPT ![job[c].on].admin = TRUE]
    /\ Goto(c, "promoted")
    /\ UNCHANGED <<name, holds, record, locals, changes>>

ReadCatalog(c) ==
    /\ pc[c] = "promoted"
    /\ IF RolesThere = {} THEN End(c, "over")
       ELSE /\ role' = [role EXCEPT ![c] = RolesThere]
            /\ Goto(c, "covering")
            /\ UNCHANGED <<job, target, posts>>
    /\ UNCHANGED <<directory, record, changes>>

\* Mutant: rows that are there already fail the insert.
CoveredUnlessHeld(u, T) == T \subseteq RolesThere \ TagsOf(u)

(* createMany skips duplicates; one deleted role fails all rows. *)
Covered(u, T) == T \subseteq RolesThere

CoverAllTags(c) ==
    /\ pc[c] = "covering"
    /\ role[c] \cap Locked(job[c].on) = {}
    /\ LET u == job[c].on
       IN  IF Covered(u, role[c])
           THEN holds' = holds \cup {u} \X role[c] /\ End(c, "over")
           ELSE End(c, "failed") /\ UNCHANGED holds
    /\ UNCHANGED <<name, person, record, changes>>

-----------------------------------------------------------------------------

Administer ==
    \/ \E t \in Tags : DeleteTag(t) \/ \E n \in Names : CreateTag(t, n) \/ RenameTag(t, n)
    \/ \E u \in Users :
         \/ \E what \in {"admin", "reachable", "onLeave", "formal"} : Toggle(u, what)
         \/ \E v \in Users \cup {NoOne} : SetTeamLead(u, v)

CallStep(c) ==
    \/ Start(c)
    \/ FindRole(c) \/ ReadHolders(c) \/ ExcludeUnavailable(c) \/ ReadRecipients(c)
    \/ FallBack(c) \/ ReadLead(c) \/ Post(c) \/ FailPost(c) \/ Record(c)
    \/ SeeMemberships(c) \/ DeleteMemberships(c) \/ InsertMemberships(c) \/ RollBack(c)
    \/ Promote(c) \/ ReadCatalog(c) \/ CoverAllTags(c)

(* Every call of the instance is over. *)
AllServed == (\A c \in Calls : pc[c] \in {"over", "failed"}) /\ UNCHANGED vars

Next == \/ (Administer \/ \E c \in Calls : CallStep(c)) /\ Observe
        \/ AllServed

Spec == Init /\ [][Next]_vars

-----------------------------------------------------------------------------
(* Properties *)

(* Whom a routed request reaches, however roles, leave and accounts change *)
(* while it is being routed.  Sent to the role, it reaches everyone who    *)
(* could take it all along, nobody who was away all along, and never the   *)
(* requester.  It is forwarded only when nobody could take it all along,   *)
(* and then to every administrator there was all along: the requester and  *)
(* those who are away are not left out of these                            *)
(* (employee-roles.service.ts:381-411).                                    *)
PagesThosePresent ==
    \A c \in Calls : IsOp(c, {"notify"}) =>
        /\ pc[c] \in {"posting", "recording"} =>
             /\ surely[c] \subseteq target[c]
             /\ job[c].by \notin target[c]
             /\ \A u \in target[c] : away[c] \cap ({u} \X {"onLeave", "formal"}) = {}
        /\ pc[c] \in {"forwarding", "recordingForward"} =>
             /\ surely[c] = {}
             /\ standby[c] \subseteq target[c]

(* The history of broadcasts counts posts, not deliveries: a row is made   *)
(* only when Slack was asked once for every recipient it counts, though    *)
(* people leave and roles change meanwhile and posts fail; it claims more  *)
(* than was delivered by exactly those Slack answered with ok: false       *)
(* (employee-roles.service.ts:424-441, 531-546).                           *)
RecordedWasPosted ==
    [][\A c \in Calls : record'[c] # record[c] =>
         /\ sent[c] \cap refused[c] = {}
         /\ record'[c].count = Cardinality(sent[c]) + Cardinality(refused[c])]_vars

(* What the two statements of a promotion leave out, saves and other       *)
(* promotions of the same user among them: a role created after the        *)
(* catalog was read, and every role, if one of those read is deleted       *)
(* before the insert.  All others the new administrator holds, until a     *)
(* save takes them away (users.service.ts:381-399).                        *)
PromotedHoldTheCatalog ==
    \A u \in Users :
        (\A c \in Calls : pc[c] = "covering" => job[c].on # u) => promised[u] \subseteq TagsOf(u)

=============================================================================
