------------------------------ MODULE Console ------------------------------
(***************************************************************************)
(* The pages on which people administer a tenant or the platform: Team &   *)
(* Messaging, tenants, platform admins, a tenant's users, finance,         *)
(* delegations, policies, the two profiles and the detail of a request.    *)
(* Each fetches rows when it opens and from then on patches its copy from  *)
(* the answers to its own calls; some calls make it fetch again.           *)
(*                                                                         *)
(* A page is one function from cells (a row and a field of it) to values,  *)
(* the database another.  Calls are served and answered in any order,      *)
(* refused, or carried out without the answer getting back.                *)
(***************************************************************************)
EXTENDS Naturals, Sequences, FiniteSets, SequencesExt

CONSTANTS
    Pages,      \* the pages to look at
    Rows,       \* ids of users, tenants, admins, budgets, delegations, requests
    InitRows,   \* those that exist at the start
    NoRow,
    Tags,       \* ids of EmployeeRole rows
    InitTags,   \* those that exist at the start
    MaxCalls,   \* nobody clicks while so many calls are in flight (bound)
    MaxEvents,  \* clicks and changes made from elsewhere, per page (bound)
    Touched     \* fields changed from elsewhere (bound)

ASSUME RowsType == NoRow \notin Rows /\ InitRows \subseteq Rows /\ IsFiniteSet(Rows)
ASSUME TagsType == InitTags \subseteq Tags /\ Tags \cap (Rows \cup {NoRow}) = {}
ASSUME BoundsType == MaxCalls \in Nat /\ MaxEvents \in [Pages -> Nat]

VARIABLES
    page,    \* the page that is open
    stored,  \* the rows in the database
    born,    \* ids given out so far
    shown,   \* the page's copy
    loaded,  \* it has had its first answer
    option,  \* the picker has the department's name: loaded when it opened, or not
    busy,    \* pending flags that are up
    calls,   \* REST calls in flight
    behind,  \* cells the page has been left without news of (history)
    events   \* clicks and changes from elsewhere left (bound)

server == <<stored, born>>
view   == <<shown, loaded, option, busy>>
vars   == <<page, server, view, calls, behind, events>>

-----------------------------------------------------------------------------
(* Rows, cells and what they may hold *)

FieldsOf ==
    [team        |-> {"role", "department", "teamLead", "isOnLeave", "isActive", "tags"},
     tenants     |-> {"isActive"},
     admins      |-> {"isActive"},
     tenantUsers |-> {"isActive"},
     finance     |-> {"name", "allocatedAmount"},
     delegations |-> {"isActive"},
     policies    |-> {},
     profile     |-> {"name", "isOnLeave", "hasPassword", "slackUserId", "tags"},
     account     |-> {"name"},
     request     |-> {"status", "steps"}]

ASSUME PagesType == Pages \subseteq DOMAIN FieldsOf

(* Fields that are set as a whole have two values here. *)
Values(f) == CASE f = "there"    -> 0..2
               [] f = "role"     -> {"EMPLOYEE", "SYSTEM_ADMIN"}
               [] f = "teamLead" -> Rows \cup {NoRow}
               [] f = "tags"     -> SUBSET Tags
               [] f = "members"  -> 0..Cardinality(Rows)
               [] f \in {"status", "steps"} -> 0..2
               [] OTHER          -> BOOLEAN

Blank(f) == CASE f = "role"     -> "EMPLOYEE"
              [] f = "teamLead" -> NoRow
              [] f = "tags"     -> {}
              [] f \in {"there", "members", "status", "steps"} -> 0
              [] OTHER          -> FALSE

(* A row as it is created. *)
New(f) == CASE f = "there" -> 1
            [] f \in {"isActive", "slackUserId"} -> TRUE
            [] OTHER -> Blank(f)

RowCells(r)  == {r} \X ({"there"} \cup FieldsOf[page])
UserCells    == UNION {RowCells(r) : r \in Rows}
CatalogCells == IF page = "team" THEN Tags \X {"there", "members"} ELSE {}
Cells        == UserCells \cup CatalogCells

RowsIn(S)  == {r \in Rows : S[<<r, "there">>] > 0}
TagsIn(S)  == IF page = "team" THEN {t \in Tags : S[<<t, "there">>] > 0} ELSE InitTags
Holding(S, t) == {r \in Rows : t \in S[<<r, "tags">>]}

(* memberCount is counted when the catalog is read. *)
Counted(S) == [k \in Cells |-> IF k[2] = "members" THEN Cardinality(Holding(S, k[1])) ELSE S[k]]
Truth      == Counted(stored)

Fetches == {"load", "catalog"}
Ops == Fetches \cup
       {"role", "department", "teamLead", "isOnLeave", "isActive", "tags", "remove", "create",
        "createRole", "editRole", "deleteRole", "send", "pool", "name", "hasPassword",
        "slackUserId", "allocatedAmount", "decide", "proof"}

\* on: the row; arg: what is sent; live: the component that asked is mounted;
\* answer: the cells read for the answer; late: those changed since;
\* due: cells it changed that the page has yet to be told of;
\* clean: the page was told of all changes to the row's tags when it was clicked,
\*   and they have not changed since
Call(op, x, v) == [op |-> op, on |-> x, arg |-> v, live |-> TRUE, state |-> "asked",
                   answer |-> <<>>, late |-> {}, due |-> {}, clean |-> TRUE]

TypeOK ==
    /\ page \in Pages
    /\ DOMAIN stored = Cells /\ DOMAIN shown = Cells
    /\ \A k \in Cells : stored[k] \in Values(k[2]) /\ shown[k] \in Values(k[2])
    /\ \A r \in Rows : stored[<<r, "there">>] \in {0, 1}
    /\ page = "team" => \A r \in Rows :  \* foreign keys
         /\ stored[<<r, "tags">>] \subseteq TagsIn(stored)
         /\ stored[<<r, "teamLead">>] \in RowsIn(stored) \cup {NoRow}
    /\ born \subseteq Rows \cup Tags
    /\ {loaded, option} \subseteq BOOLEAN
    /\ busy \subseteq Ops \X (Rows \cup Tags \cup {NoRow})
    /\ behind \subseteq Cells
    /\ \A i \in DOMAIN calls :
         /\ calls[i].op \in Ops
         /\ calls[i].state \in {"asked", "served", "refused"}
         /\ calls[i].late \cup calls[i].due \subseteq Cells
         /\ \A k \in DOMAIN calls[i].answer : calls[i].answer[k] \in Values(k[2])

Empty == [k \in Cells |-> Blank(k[2])]

Init ==
    /\ page \in Pages
    /\ \E me \in InitRows :
         LET there == IF page \in {"profile", "account", "request"} THEN {me} ELSE InitRows
         IN  stored = [k \in Cells |-> IF k[1] \in there \cup InitTags
                                       THEN New(k[2]) ELSE Blank(k[2])]
    /\ born = InitRows \cup InitTags
    /\ shown = Empty /\ loaded = FALSE
    /\ option \in {FALSE, page = "team"}
    /\ busy = {} /\ behind = {}
    /\ calls = <<Call("load", NoRow, FALSE)>>
    /\ events = MaxEvents[page]

-----------------------------------------------------------------------------
(* Pending flags: one for the page, one id for all rows, or one per row.   *)

OneId  == {"department", "teamLead", "isOnLeave", "tags"}
PerRow == {"editRole", "deleteRole", "name", "pool"}

Flag(op, x)   == <<op, IF op \in OneId \cup PerRow THEN x ELSE NoRow>>
Enabled(op, x) == Flag(op, x) \notin busy

(* Another row's save takes over the id that is pending ...                *)
Raised(op, x) == {Flag(op, x)} \cup
                 IF op \in OneId THEN {b \in busy : b[1] # op} ELSE busy

\* Mutant: the flag is not lowered after an error.
LoweredIfServed(c) ==
    IF ~c.live \/ c.op \in Fetches \/ c.state = "refused" THEN busy
    ELSE IF c.op \in OneId THEN {b \in busy : b[1] # c.op}
    ELSE busy \ {Flag(c.op, c.on)}

(* ... and whichever save ends first clears it.                            *)
Lowered(c) == IF ~c.live \/ c.op \in Fetches THEN busy
              ELSE IF c.op \in OneId THEN {b \in busy : b[1] # c.op}
              ELSE busy \ {Flag(c.op, c.on)}

Event == events > 0 /\ events' = events - 1

Ask(c) ==
    /\ Event
    /\ Len(calls) < MaxCalls
    /\ calls' = Append(calls, c)
    /\ busy' = IF c.op \in Fetches THEN busy ELSE Raised(c.op, c.on)
    /\ UNCHANGED <<page, server, shown, loaded, option, behind>>

Save(op, x, v) == Enabled(op, x) /\ Ask(Call(op, x, v))

Team == page = "team" /\ loaded

On(p, r) == page = p /\ shown[<<r, "there">>] > 0
Flipped(r, f) == ~shown[<<r, f>>]

-----------------------------------------------------------------------------
(* Team & Messaging: employees *)

ApplyRoleChange(r, v) ==
    On("team", r) /\ v # shown[<<r, "role">>] /\ Save("role", r, v)

(* A department is offered if it is the row's own or in the list of names. *)
Offered(r) == option \/ shown[<<r, "department">>]

ApplyDepartmentChange(r) ==
    On("team", r) /\ Offered(r) /\ Save("department", r, Flipped(r, "department"))

ApplyTeamLeadChange(r, l) ==
    /\ On("team", r)
    /\ l # r /\ l \in RowsIn(shown) \cup {NoRow} /\ l # shown[<<r, "teamLead">>]
    /\ Save("teamLead", r, l)

ApplyLeaveChange(r) ==
    On("team", r) /\ Save("isOnLeave", r, Flipped(r, "isOnLeave"))

(* Of each change to the row's tags the page has had the answer. *)
UpToDate(r) == /\ <<r, "tags">> \notin behind
               /\ \A i \in DOMAIN calls : <<r, "tags">> \notin calls[i].due

ChangeTags(r, t, ids) ==
    Ask([Call("tags", r, [tag |-> t, ids |-> ids]) EXCEPT !.clean = UpToDate(r)])

(* The list of tags to add is never disabled, ... *)
AddTag(r, t) ==
    /\ On("team", r)
    /\ t \in TagsIn(shown) \ shown[<<r, "tags">>]
    /\ ChangeTags(r, t, shown[<<r, "tags">>] \cup {t})

Without(T, t) == T \ {t}

(* ... the crosses are while the row's tags are being saved. *)
RemoveTag(r, t) ==
    /\ On("team", r)
    /\ t \in shown[<<r, "tags">>]
    /\ Enabled("tags", r)
    /\ ChangeTags(r, t, Without(shown[<<r, "tags">>], t))

ConfirmBlockToggle(r) ==
    On("team", r) /\ Save("isActive", r, Flipped(r, "isActive"))

ConfirmRemove(r) == On("team", r) /\ Save("remove", r, TRUE)

HandleCreate(v) == Team /\ Save("create", NoRow, v)

(* A new name typed into the picker registers a department first. *)
RegisterDepartment(r) == On("team", r) /\ ~Offered(r) /\ Save("pool", r, TRUE)

(* Team & Messaging: the catalog and broadcasts *)

CreateRole    == Team /\ Save("createRole", NoRow, TRUE)
EditRole(t)   == Team /\ t \in TagsIn(shown) /\ Save("editRole", t, TRUE)
DeleteRole(t) == Team /\ t \in TagsIn(shown) /\ Save("deleteRole", t, TRUE)
SendBroadcast == Team /\ Save("send", NoRow, TRUE)

(* Another tab of the page: its flags go, its calls and the rows stay. *)
SelectView ==
    /\ Team
    /\ Event
    /\ busy' = {}
    /\ calls' = [i \in DOMAIN calls |-> [calls[i] EXCEPT !.live = calls[i].op \in Fetches]]
    /\ UNCHANGED <<page, server, shown, loaded, option, behind>>

TeamClick ==
    \/ \E r \in Rows :
         \/ \E v \in Values("role") : ApplyRoleChange(r, v)
         \/ ApplyDepartmentChange(r)
         \/ \E l \in Values("teamLead") : ApplyTeamLeadChange(r, l)
         \/ ApplyLeaveChange(r)
         \/ \E t \in Tags : AddTag(r, t) \/ RemoveTag(r, t)
         \/ ConfirmBlockToggle(r)
         \/ ConfirmRemove(r)
         \/ RegisterDepartment(r)
    \/ \E v \in Values("role") : HandleCreate(v)
    \/ CreateRole \/ \E t \in Tags : EditRole(t) \/ DeleteRole(t)
    \/ SendBroadcast
    \/ SelectView

-----------------------------------------------------------------------------
(* The platform's console *)

ToggleActive(r) == Save("isActive", r, Flipped(r, "isActive"))

ToggleTenant(r) == On("tenants", r) /\ ToggleActive(r)
DeleteTenant(r) == On("tenants", r) /\ Save("remove", r, TRUE)
CreateTenant    == page = "tenants" /\ Save("create", NoRow, "EMPLOYEE")

ToggleAdmin(r) == On("admins", r) /\ ToggleActive(r)
DeleteAdmin(r) == On("admins", r) /\ Save("remove", r, TRUE)
CreateAdmin    == page = "admins" /\ Save("create", NoRow, "EMPLOYEE")

ToggleTenantUser(r)  == On("tenantUsers", r) /\ ToggleActive(r)
RemoveTenantAdmin(r) == On("tenantUsers", r) /\ Save("remove", r, TRUE)
CreateTenantAdmin    == page = "tenantUsers" /\ Save("create", NoRow, "SYSTEM_ADMIN")

SaveAccount(r) == On("account", r) /\ Save("name", r, Flipped(r, "name"))

PlatformClick ==
    \/ \E r \in Rows : \/ ToggleTenant(r) \/ DeleteTenant(r)
                       \/ ToggleAdmin(r) \/ DeleteAdmin(r)
                       \/ ToggleTenantUser(r) \/ RemoveTenantAdmin(r)
                       \/ SaveAccount(r)
    \/ CreateTenant \/ CreateAdmin \/ CreateTenantAdmin

-----------------------------------------------------------------------------
(* Finance, delegations and policies *)

UpsertBudget(r) ==
    page = "finance" /\ Save("allocatedAmount", r, Flipped(r, "allocatedAmount"))
RenameBudget(r) == On("finance", r) /\ Save("name", r, Flipped(r, "name"))
DeleteBudget(r) == On("finance", r) /\ Save("remove", r, TRUE)

GrantDelegation     == page = "delegations" /\ Save("create", NoRow, "EMPLOYEE")
RevokeDelegation(r) == On("delegations", r) /\ shown[<<r, "isActive">>]
                       /\ Save("isActive", r, FALSE)

UploadPolicy == page = "policies" /\ Save("create", NoRow, "EMPLOYEE")

(* The profile of whoever is signed in *)

SaveDetails(r)        == On("profile", r) /\ Save("name", r, Flipped(r, "name"))
ToggleAvailability(r) == On("profile", r) /\ Save("isOnLeave", r, Flipped(r, "isOnLeave"))
ChangePassword(r)     == On("profile", r) /\ Save("hasPassword", r, TRUE)
UnlinkSlack(r)        == On("profile", r) /\ shown[<<r, "slackUserId">>] /\ Save("slackUserId", r, FALSE)

(* The detail of a request: 0 waits for a decision, 1 for a proof, 2 is settled. *)

Decide(r)      == On("request", r) /\ shown[<<r, "status">>] = 0 /\ Save("decide", r, 1)
AttachProof(r) == On("request", r) /\ shown[<<r, "status">>] = 1 /\ Save("proof", r, 2)
RequestChanged == page = "request" /\ Ask(Call("load", NoRow, FALSE))

OtherClick ==
    \/ \E r \in Rows : \/ UpsertBudget(r) \/ RenameBudget(r) \/ DeleteBudget(r)
                       \/ RevokeDelegation(r)
                       \/ SaveDetails(r) \/ ToggleAvailability(r)
                       \/ ChangePassword(r) \/ UnlinkSlack(r)
                       \/ Decide(r) \/ AttachProof(r)
    \/ GrantDelegation \/ UploadPolicy \/ RequestChanged

-----------------------------------------------------------------------------
(* The server.  Each call is one transaction here. *)

RolesOf(S, r) == IF S[<<r, "role">>] = "SYSTEM_ADMIN" THEN TagsIn(S) ELSE {}

(* A SYSTEM_ADMIN is given every tag of the catalog. *)
Assigned(S, r) ==
    IF page = "team" THEN [S EXCEPT ![<<r, "tags">>] = @ \cup RolesOf(S, r)] ELSE S

Set(k, v) == [stored EXCEPT ![k] = v]

RoleSet(r, v) == Assigned(Set(<<r, "role">>, v), r)

\* Mutant: those it leads keep their reference.
RemovedAlone(r) == [k \in Cells |-> IF k[1] = r THEN Blank(k[2]) ELSE stored[k]]

(* The references of a deleted user are set to null, its tags cascade. *)
Removed(r) ==
    [k \in Cells |-> IF k[1] = r THEN Blank(k[2])
                     ELSE IF k[2] = "teamLead" /\ stored[k] = r THEN NoRow ELSE stored[k]]

Created(r, v) ==
    LET S == [k \in Cells |-> IF k[1] = r THEN New(k[2]) ELSE stored[k]]
    IN  IF page = "team" THEN Assigned([S EXCEPT ![<<r, "role">>] = v], r) ELSE S

TagRemoved(S, t) ==
    [k \in Cells |-> IF k[1] = t THEN Blank(k[2])
                     ELSE IF k[2] = "tags" THEN Without(S[k], t) ELSE S[k]]

Stamped(r, v) == [stored EXCEPT ![<<r, "status">>] = v, ![<<r, "steps">>] = v]

There(x) == stored[<<x, "there">>] = 1

(* What the services refuse: rows that are gone, tags that are, unlinking  *)
(* Slack without a password, a decision or a proof out of turn.            *)
Accepts(c) ==
    CASE c.op \in {"send", "create", "createRole", "pool", "allocatedAmount"} -> TRUE
      [] c.op = "tags"        -> There(c.on) /\ c.arg.ids \subseteq TagsIn(stored)
      [] c.op = "teamLead"    -> There(c.on) /\ c.arg \in {NoRow} \cup RowsIn(stored)
      [] c.op = "slackUserId" -> stored[<<c.on, "hasPassword">>]
      [] c.op = "decide"      -> stored[<<c.on, "status">>] = 0
      [] c.op = "proof"       -> stored[<<c.on, "status">>] = 1
      [] OTHER                -> There(c.on)

(* The database after the call; x is the id of a row it creates. *)
After(c, x) ==
    CASE c.op = "tags"            -> Set(<<c.on, "tags">>, c.arg.ids)
      [] c.op = "role"            -> RoleSet(c.on, c.arg)
      [] c.op = "remove"          -> Removed(c.on)
      [] c.op = "create"          -> Created(x, c.arg)
      [] c.op = "createRole"      -> Set(<<x, "there">>, 1)
      [] c.op = "deleteRole"      -> TagRemoved(stored, c.on)
      [] c.op = "allocatedAmount" -> [stored EXCEPT ![<<c.on, "there">>] = 1, ![<<c.on, "allocatedAmount">>] = c.arg]
      [] c.op \in {"decide", "proof"}            -> Stamped(c.on, c.arg)
      [] c.op \in {"send", "pool", "editRole"}   -> stored
      [] OTHER                    -> Set(<<c.on, c.op>>, c.arg)

-----------------------------------------------------------------------------
(* What a page takes from an answer *)

TeamReads(c, x) ==
    CASE c.op = "create"     -> RowCells(x)
      [] c.op = "createRole" -> {x} \X {"there", "members"}
      [] c.op = "editRole"   -> {<<c.on, "members">>}
      [] c.op \in {"send", "pool"} -> {}
      [] c.op = "remove"     -> RowCells(c.on)
      [] c.op = "deleteRole" -> {c.on} \X {"there", "members"}
      [] OTHER               -> {<<c.on, c.op>>}

(* The platform's pages and the profile replace the row. *)
PlatformReads(c, x) ==
    CASE c.op = "create" -> RowCells(x)
      [] c.op = "remove" -> RowCells(c.on)
      [] OTHER           -> {c.on} \X FieldsOf[page]

ProfileReads(c) == {c.on} \X (IF c.op = "hasPassword" THEN {"hasPassword"} ELSE FieldsOf[page])

DelegationReads(c, x) == IF c.op = "create" THEN RowCells(x) ELSE {<<c.on, "isActive">>}

Reads(c, x) ==
    CASE page = "team"                                 -> TeamReads(c, x)
      [] page \in {"tenants", "admins", "tenantUsers", "policies"} -> PlatformReads(c, x)
      [] page = "profile"                              -> ProfileReads(c)
      [] page = "delegations"                          -> DelegationReads(c, x)
      [] page = "request"                              -> {c.on} \X FieldsOf[page]
      [] OTHER                                         -> {}

(* updateProfile, setOnLeave and unlinkSlack answer without employeeRoles, *)
(* decide and attachProof without executionSteps, and create with the row  *)
(* as it was before a SYSTEM_ADMIN was given its tags.                     *)
LeftOut == {"tags", "steps"}

Narrow(c) ==
    IF \/ page \in {"profile", "request"} /\ c.op \notin Fetches
       \/ page = "team" /\ c.op = "create" /\ c.arg = "SYSTEM_ADMIN"
    THEN Rows \X LeftOut ELSE {}

Answered(c, S, K) == [k \in K |-> IF k \in Narrow(c) THEN Blank(k[2]) ELSE Counted(S)[k]]

\* Mutant: a role that is changed or given brings no tags.
RefetchTagsOnly(c) ==
    CASE page = "team" /\ c.op \in {"tags", "send"} -> <<"catalog">>
      [] page \in {"finance", "account", "request"} /\ c.op \notin Fetches -> <<"load">>
      [] OTHER -> <<>>

(* What it fetches again afterwards. *)
Refetch(c) ==
    CASE page = "team" /\ c.op \in {"tags", "send"} -> <<"catalog">>
      [] page = "team" /\ c.op \in {"role", "create"} /\ c.arg = "SYSTEM_ADMIN" -> <<"load">>
      [] page \in {"finance", "account", "request"} /\ c.op \notin Fetches -> <<"load">>
      [] OTHER -> <<>>

(* Changes it is told of by nobody: whose lead has gone, how many a tag of *)
(* someone removed still has, the tags a role's new name would not change. *)
Untold(c) == IF c.op = "remove" THEN ((Rows \ {c.on}) \X {"teamLead"}) \cup CatalogCells ELSE {}

-----------------------------------------------------------------------------
(* Calls on their way *)

Changed(S) == {k \in Cells : Counted(S)[k] # Truth[k]}

(* What others have in hand is that much older. *)
Aged(K, i) ==
    [j \in DOMAIN calls |->
       IF j = i THEN calls[j]
       ELSE [calls[j] EXCEPT
               !.late  = @ \cup (K \cap DOMAIN calls[j].answer),
               !.clean = @ /\ ~(calls[j].op = "tags" /\ calls[j].state = "asked"
                                /\ <<calls[j].on, "tags">> \in K)]]

Serve(i) ==
    LET c == calls[i] IN
    /\ c.state = "asked" /\ c.op \notin Fetches /\ Accepts(c)
    /\ \E x \in CASE c.op = "create"     -> Rows \ born
                  [] c.op = "createRole" -> Tags \ born
                  [] OTHER               -> {c.on} :
         LET S == After(c, x)
             K == Reads(c, x)
         IN  /\ stored' = S
             /\ born' = IF c.op \in {"create", "createRole"} THEN born \cup {x} ELSE born
             /\ behind' = behind \cup (Changed(S) \cap (Untold(c) \ K))
             /\ calls' = [Aged(Changed(S), i) EXCEPT ![i] =
                  [c EXCEPT !.state = "served", !.on = x, !.answer = Answered(c, S, K),
                            !.due = Changed(S) \ Untold(c)]]
    /\ UNCHANGED <<page, view, events>>

(* A page that opens with several GETs waits for all of them. *)
Parts(c) == (IF c.op = "load" THEN {UserCells} ELSE {}) \cup
            (IF page = "team" THEN {CatalogCells} ELSE {})

ServeFetch(i) ==
    LET c == calls[i] IN
    /\ c.state = "asked" /\ c.op \in Fetches
    /\ \E K \in Parts(c) :
         /\ ~ K \subseteq DOMAIN c.answer
         /\ LET read == K \cup DOMAIN c.answer
            IN  calls' = [calls EXCEPT ![i] =
                  [c EXCEPT !.answer = [k \in read |-> IF k \in K THEN Truth[k] ELSE c.answer[k]],
                            !.state  = IF read = UNION Parts(c) THEN "served" ELSE @]]
    /\ UNCHANGED <<page, server, view, behind, events>>

(* Refused, failed on the way, or carried out and the answer lost. *)
Refuse(i) ==
    /\ calls[i].state # "refused"
    /\ calls' = [calls EXCEPT ![i] = [Call(@.op, @.on, FALSE) EXCEPT
                    !.live = calls[i].live, !.due = calls[i].due, !.state = "refused"]]
    /\ UNCHANGED <<page, server, view, behind, events>>

Appends(c) == c.op \in {"create", "createRole"}

(* Rows are looked up by id: what is not shown is not patched. *)
Written(c) ==
    {k \in DOMAIN c.answer :
       \/ c.op \in Fetches \cup {"remove", "deleteRole"} \/ Appends(c)
       \/ shown[<<k[1], "there">>] > 0}

Patched(c) ==
    LET S == [k \in Cells |->
                IF k \notin Written(c) THEN shown[k]
                ELSE IF Appends(c) /\ k[2] = "there" THEN shown[k] + 1
                ELSE c.answer[k]]
    IN  IF c.op = "deleteRole" THEN TagRemoved(S, c.on) ELSE S

(* A row that a list already had is now shown twice. *)
Twice(c) == IF Appends(c) /\ shown[<<c.on, "there">>] > 0 THEN {<<c.on, "there">>} ELSE {}

Fetch(op, due) == [Call(op, NoRow, FALSE) EXCEPT !.due = due]

(* What was left out is shown blank.  The profile leaves it at that, the   *)
(* others fetch it with what the answer did not bring.                     *)
Blanked(c) == Written(c) \cap Narrow(c)

Forgone(c) == IF page = "profile" THEN Blanked(c) ELSE {}

Wanted(c) == (c.due \ Written(c)) \cup Blanked(c)

(* Registering a department goes on to assign it. *)
Follow(c) ==
    IF c.op = "pool" THEN <<[Call("department", c.on, TRUE) EXCEPT !.live = c.live]>>
    ELSE [j \in DOMAIN Refetch(c) |-> Fetch(Refetch(c)[j], Wanted(c))]

Arrive(i) ==
    LET c == calls[i] IN
    /\ c.state = "served"
    /\ shown' = Patched(c)
    /\ loaded' = (loaded \/ c.op = "load")
    /\ option' = (option \/ c.op = "pool")
    /\ behind' = (behind \ Written(c)) \cup
                 (DOMAIN c.answer \cap c.late) \cup Forgone(c) \cup
                 (DOMAIN c.answer \ Written(c)) \cup Twice(c)
    /\ busy' = IF c.op = "pool" /\ c.live
               THEN {b \in Lowered(c) : b[1] # "department"} \cup {<<"department", c.on>>}
               ELSE Lowered(c)
    /\ calls' = RemoveAt(calls, i) \o Follow(c)
    /\ UNCHANGED <<page, server, events>>

Fail(i) ==
    LET c == calls[i] IN
    /\ c.state = "refused"
    /\ busy' = Lowered(c)
    /\ behind' = behind \cup c.due
    /\ calls' = RemoveAt(calls, i)
    /\ UNCHANGED <<page, server, shown, loaded, option, events>>

-----------------------------------------------------------------------------
(* Changes from other pages, other people and the bot *)

Elsewhere(S) ==
    /\ Event
    /\ S # stored
    /\ stored' = S
    /\ behind' = behind \cup Changed(S)
    /\ calls' = Aged(Changed(S), 0)
    /\ UNCHANGED <<page, born, view>>

Settable(r, f) == CASE f = "tags"     -> SUBSET TagsIn(stored)
                    [] f = "teamLead" -> ({NoRow} \cup RowsIn(stored)) \ {r}
                    [] OTHER          -> Values(f)

FieldChanged(r) ==
    \E f \in FieldsOf[page] \cap Touched :
      \E v \in Settable(r, f) : Elsewhere(Set(<<r, f>>, v))

RoleChanged(r) ==
    page = "team" /\ \E v \in Values("role") : Elsewhere(RoleSet(r, v))

RequestMoved(r) ==
    page = "request" /\ \E v \in 1..2 : v > stored[<<r, "status">>] /\ Elsewhere(Stamped(r, v))

Others == \E r \in Rows : There(r) /\ (FieldChanged(r) \/ RoleChanged(r) \/ RequestMoved(r))

Transport == \E i \in DOMAIN calls :
    Serve(i) \/ ServeFetch(i) \/ Refuse(i) \/ Arrive(i) \/ Fail(i)

Next == TeamClick \/ PlatformClick \/ OtherClick \/ Transport \/ Others

Spec == Init /\ [][Next]_vars

-----------------------------------------------------------------------------
(* Properties *)

(* When nothing is in flight a page that has loaded shows what is stored,  *)
(* except where an answer was overtaken or lost, the fetch after it failed, *)
(* the profile's answer left a field out, or somebody else made the change. *)
(* The tags of a SYSTEM_ADMIN just created, which the answer does not hold, *)
(* and the steps of a request just decided are there after the fetch.      *)
QuietPageIsTrue ==
    loaded /\ calls = <<>> => \A k \in Cells \ behind : shown[k] = Truth[k]

(* A pending flag is up exactly while its call runs: no form stays locked  *)
(* after a failure, and a flag for the whole page admits one call.         *)
Running(op) == {i \in DOMAIN calls : calls[i].op = op /\ calls[i].live}

FlagsMatchCalls ==
    /\ \A op \in Ops \ (OneId \cup PerRow \cup Fetches) :
         Cardinality(Running(op)) = IF <<op, NoRow>> \in busy THEN 1 ELSE 0
    /\ \A b \in busy : b[1] \in OneId \cup PerRow =>
         \E i \in Running(b[1]) : calls[i].on = b[2]

(* Saving an employee's tags replaces the whole set, and two saves of one  *)
(* row may overlap.  A save takes a tag other than the one clicked only if *)
(* the row's tags changed between the click and the save, or the page had  *)
(* not had the answer to an earlier change: by another save still out, by  *)
(* one whose answer or fetch was lost, or by somebody else.  It is not the *)
(* page's own patches that go wrong.                                       *)
TagsFallToOverlapsOnly ==
    [][\A i \in DOMAIN calls \cap DOMAIN calls' :
         LET c == calls[i] IN
         c.op = "tags" /\ c.clean /\ c.state = "asked" /\ calls'[i].state = "served" =>
           stored[<<c.on, "tags">>] \ stored'[<<c.on, "tags">>] \subseteq {c.arg.tag}]_vars

=============================================================================
