-------------------------------- MODULE Desk --------------------------------
(***************************************************************************)
(* What an open page of the web application knows: the token in the        *)
(* browser's storage, the Socket.IO connection that follows it, the list   *)
(* of requests that is fetched again on every signal, and the bell of      *)
(* notifications.  RealtimeGateway, RealtimeService and                    *)
(* NotificationsService are the server's side of it.                       *)
(*                                                                         *)
(* One tab is modelled in full; other tabs of the same browser only write  *)
(* the token.  REST calls are served and answered in any order.  Socket.IO *)
(* delivers in order while a connection lasts and nothing across a gap.    *)
(***************************************************************************)
EXTENDS Naturals, Sequences, FiniteSets, Functions

CONSTANTS
    Users,
    NoOne,        \* no account, no token
    InitStaff,    \* users with a role of STAFF_ROLES at the start
    InitHolders,  \* users who hold the role that requests are routed to
    Notes,        \* ids of Notification rows
    Requests,     \* requests, each of which changes once
    Routed,       \* those that are routed to the role
    RequesterOf,  \* who filed them
    RecipientOf,  \* whom each notification is for
    MaxCalls,     \* no page is opened and no call made while so many are in flight (bound)
    MaxMoves      \* bound on what people and the network do to the tab

ASSUME UsersType == NoOne \notin Users /\ InitStaff \cup InitHolders \subseteq Users
ASSUME RowsType ==
    /\ Routed \subseteq Requests
    /\ RequesterOf \in [Requests -> Users] /\ RecipientOf \in [Notes -> Users]
    /\ "changed" \notin Notes
ASSUME BoundsType == {MaxCalls, MaxMoves} \subseteq Nat

VARIABLES
    account,    \* User rows: isActive, whether the role is of STAFF_ROLES, and
                \* whether the user holds the role requests are routed to
    rows,       \* requests that have changed
    unsent,     \* those whose change is committed but not yet signalled
    note,       \* Notification rows
    unpushed,   \* those that are inserted but not yet emitted
    token,      \* whose token is in localStorage
    nudge,      \* a storage event is on its way to the tab
    home,       \* the protected pages are mounted
    wired,      \* wireRealtimeAuth has run in this document
    socket,     \* the connection of the tab
    wire,       \* events on their way to it
    calls,      \* REST calls in flight
    list,       \* RequestsList
    orphans,    \* timers of lists that are gone
    bell,       \* NotificationBell
    excuse,     \* why the list may be old (history)
    unseen,     \* notifications that never got into the bell (history)
    moves       \* moves left (a bound)

server  == <<account, rows, unsent, note, unpushed>>
storage == <<token, nudge>>
line    == <<socket, wire>>
page    == <<home, wired, list, orphans, bell>>
history == <<excuse, unseen>>
vars    == <<server, storage, line, page, history, calls, moves>>

-----------------------------------------------------------------------------

Someone == Users \cup {NoOne}

Socket == [state : {"off", "opening", "joining", "joined"}, as : Someone,
           staff : BOOLEAN, crossed : BOOLEAN]
NoSocket == [state |-> "off", as |-> NoOne, staff |-> FALSE, crossed |-> FALSE]
Opening  == [NoSocket EXCEPT !.state = "opening"]

ListViews == SUBSET Requests
BellViews == [Notes -> {"absent", "unread", "read"}]

\* live: the component that called is still mounted; on: what is marked as read
Kinds == {"list", "bell", "refresh", "mark"}

\* late: a list served later is on its way, or has arrived
Call == [kind : Kinds, by : Someone, live : BOOLEAN, late : BOOLEAN,
         state : {"asked", "served", "refused"},
         shown : ListViews, items : BellViews, on : SUBSET Notes]

Excuses == {"missed", "unsignalled", "overtaken", "failed", "switched"}

EmptyList == [shown |-> {}, timer |-> FALSE]
EmptyBell == [items |-> [n \in Notes |-> "absent"], loaded |-> FALSE]

TypeOK ==
    /\ account \in [Users -> [active : BOOLEAN, staff : BOOLEAN, holds : BOOLEAN]]
    /\ unsent \subseteq rows /\ rows \subseteq Requests
    /\ note \in [Notes -> {"free", "unread", "read"}]
    /\ unpushed \subseteq Notes
    /\ token \in Someone
    /\ {nudge, home, wired} \subseteq BOOLEAN
    /\ socket \in Socket
    /\ wire \in Seq({"changed"} \cup Notes)
    /\ calls \in Seq(Call)
    /\ list \in [shown : ListViews, timer : BOOLEAN]
    /\ orphans \in Nat
    /\ bell \in [items : BellViews, loaded : BOOLEAN]
    /\ excuse \subseteq Excuses
    /\ unseen \subseteq Notes
    /\ moves \in 0..MaxMoves

Init ==
    /\ account = [u \in Users |->
          [active |-> TRUE, staff |-> u \in InitStaff, holds |-> u \in InitHolders]]
    /\ rows = {} /\ unsent = {}
    /\ note = [n \in Notes |-> "free"]
    /\ unpushed = {}
    /\ token \in Someone /\ nudge = FALSE
    /\ home = FALSE /\ wired = FALSE
    /\ socket = NoSocket /\ wire = <<>>
    /\ calls = <<>>
    /\ list = EmptyList /\ orphans = 0
    /\ bell = EmptyBell
    /\ excuse = {} /\ unseen = {}
    /\ moves = MaxMoves

Move == moves > 0 /\ moves' = moves - 1

NotesOf(u) == {n \in Notes : note[n] # "free" /\ RecipientOf[n] = u}

-----------------------------------------------------------------------------
(* The server *)

(* Staff see every request of the tenant, an employee their own and those  *)
(* routed to a role they hold.                                             *)
Visible(u) ==
    {r \in rows : \/ account[u].staff
                  \/ RequesterOf[r] = u
                  \/ r \in Routed /\ account[u].holds}

(* A change of a request is committed ...                                  *)
Change(r) ==
    /\ r \notin rows
    /\ rows' = rows \cup {r}
    /\ unsent' = unsent \cup {r}
    /\ UNCHANGED <<account, note, unpushed, storage, line, page, history, calls, moves>>

(* Rooms are fixed when a connection joins. *)
InStaffRoom     == socket.state = "joined" /\ socket.staff
InUserRoom(u)   == socket.state = "joined" /\ socket.as = u
JoinedAsIs(u)   == InUserRoom(u) /\ socket.staff = account[u].staff

(* getRoleHolderIds *)
HoldersOf(r) == {u \in Users : r \in Routed /\ account[u].holds /\ account[u].active}

(* Besides the staff: the requester; and the holders of the role, when a   *)
(* decision of the money approves what is routed to them as well.          *)
Addressed(r, decided) == {RequesterOf[r]} \cup IF decided THEN HoldersOf(r) ELSE {}

(* What everyone who watches the queues of the tenant gets. *)
SignalToStaff(r) == IF InStaffRoom THEN <<"changed">> ELSE <<>>

(* To the staff room, then to the rooms of those addressed. *)
Signal(r, U) ==
    SignalToStaff(r) \o (IF \E u \in U : InUserRoom(u) THEN <<"changed">> ELSE <<>>)

(* The account on the page sees r, and is not among those told of it.      *)
Untold(r, U) ==
    IF token \in Users /\ r \in Visible(token) /\ ~account[token].staff /\ token \notin U
    THEN {"unsignalled"} ELSE {}

(* ... and signalled.                                                      *)
EmitRequestChanged(r) ==
    /\ r \in unsent
    /\ unsent' = unsent \ {r}
    /\ \E decided \in BOOLEAN :
         LET U == Addressed(r, decided)
         IN  /\ wire' = wire \o Signal(r, U)
             /\ excuse' = excuse \cup Untold(r, U)
                   \cup (IF token = NoOne \/ JoinedAsIs(token) THEN {} ELSE {"missed"})
    /\ UNCHANGED <<account, rows, note, unpushed, storage, socket, page, unseen, calls, moves>>

(* addReporterToRequest tells nobody, nor does a call that fails after it  *)
(* has written.                                                            *)
KeepQuiet(r) ==
    /\ r \in unsent
    /\ unsent' = unsent \ {r}
    /\ excuse' = excuse \cup
          IF token \in Users /\ r \in Visible(token) THEN {"unsignalled"} ELSE {}
    /\ UNCHANGED <<account, rows, note, unpushed, storage, line, page, unseen, calls, moves>>

(* NotificationsService.create: the row ...                                *)
CreateNote(n) ==
    /\ note[n] = "free"
    /\ note' = [note EXCEPT ![n] = "unread"]
    /\ unpushed' = unpushed \cup {n}
    /\ UNCHANGED <<account, rows, unsent, storage, line, page, history, calls, moves>>

(* ... and its emission to the room of the user.                           *)
EmitNote(n) ==
    /\ n \in unpushed
    /\ unpushed' = unpushed \ {n}
    /\ IF InUserRoom(RecipientOf[n])
       THEN wire' = Append(wire, n) /\ UNCHANGED unseen
       ELSE unseen' = unseen \cup {n} /\ UNCHANGED wire
    /\ UNCHANGED <<account, rows, unsent, note, storage, socket, page, excuse, calls, moves>>

(* An account is blocked or unblocked, promoted or demoted, or gets or     *)
(* loses the role.                                                         *)
ChangeAccount(u) ==
    /\ Move
    /\ \/ account' = [account EXCEPT ![u].active = ~@]
       \/ account' = [account EXCEPT ![u].staff = ~@]
       \/ account' = [account EXCEPT ![u].holds = ~@]
    /\ excuse' = excuse \cup {"switched"}
    /\ UNCHANGED <<rows, unsent, note, unpushed, storage, line, page, unseen, calls>>

(* handleConnection reads the account and the tenant once.                 *)
Join ==
    /\ socket.state = "joining"
    /\ socket' = IF socket.as # NoOne /\ account[socket.as].active
                 THEN [socket EXCEPT !.state = "joined", !.staff = account[socket.as].staff]
                 ELSE NoSocket
    /\ UNCHANGED <<server, storage, wire, page, history, calls, moves>>

-----------------------------------------------------------------------------
(* The token and the connection *)

(* The handshake carries the token of that moment. *)
Handshake ==
    /\ socket.state = "opening"
    /\ socket' = [socket EXCEPT !.state = "joining", !.as = token]
    /\ UNCHANGED <<server, storage, wire, page, history, calls, moves>>

(* The token is now that of t: what is mounted stays and loads nothing.    *)
Switched(t)   == IF t = token THEN {} ELSE {"switched"}
Unfetched(t)  == IF t = token THEN {} ELSE NotesOf(t)

(* What is on its way does not arrive any more. *)
LoseWire(t) ==
    /\ wire' = <<>>
    /\ excuse' = excuse \cup Switched(t)
                        \cup (IF "changed" \in Range(wire) THEN {"missed"} ELSE {})
    /\ unseen' = unseen \cup Unfetched(t) \cup (Range(wire) \cap Notes)

(* The network drops the connection; it is opened again by itself.         *)
DropSocket ==
    /\ Move
    /\ socket.state = "joined"
    /\ socket' = Opening
    /\ LoseWire(token)
    /\ UNCHANGED <<server, storage, page, calls>>

\* Mutant: a connection that is up is kept.
ResyncIfOff(t) ==
    socket' = IF t = NoOne THEN NoSocket ELSE IF socket.state = "off" THEN Opening ELSE socket

(* resync: a connection is closed and opened again; without a token it is  *)
(* closed.  What is still connecting is connected anew; a handshake on its *)
(* way may still be the one that counts.                                   *)
Resync(t) ==
    IF t = NoOne THEN socket' = NoSocket
    ELSE \/ socket' = Opening
         \/ /\ socket.state = "joining"
            /\ socket' = [socket EXCEPT !.crossed = TRUE]

(* A write of the token in this tab dispatches AUTH_CHANGE_EVENT.          *)
WriteToken(t) ==
    /\ token' = t
    /\ IF wired THEN Resync(t) ELSE UNCHANGED socket

(* The login page, or the callback of a sign-in with Slack. *)
SignIn(u) ==
    /\ ~home /\ token = NoOne
    /\ account[u].active
    /\ WriteToken(u)
    /\ wire' = <<>>
    /\ UNCHANGED <<server, nudge, page, history, calls, moves>>

Asked(kind) == [kind |-> kind, by |-> token, live |-> TRUE, late |-> FALSE, state |-> "asked",
                shown |-> {}, items |-> EmptyBell.items, on |-> {}]

(* The protected pages are mounted: RequireAuth renews the token, the list *)
(* and the bell load, RealtimeBridge connects.                             *)
Open ==
    /\ ~home /\ token # NoOne
    /\ Len(calls) < MaxCalls
    /\ home' = TRUE /\ wired' = TRUE
    /\ socket' = IF socket.state = "off" THEN Opening ELSE socket
    /\ calls' = calls \o <<Asked("refresh"), Asked("list"), Asked("bell")>>
    /\ excuse' = {} /\ unseen' = {}
    /\ UNCHANGED <<server, storage, wire, list, orphans, bell, moves>>

(* Calls in flight outlive their component, and so does the timer, which   *)
(* nothing clears; of the answers only that of a refresh, and a refusal,   *)
(* still do something.                                                     *)
Unmount ==
    /\ home' = FALSE
    /\ orphans' = orphans + (IF list.timer THEN 1 ELSE 0)
    /\ calls' = [i \in DOMAIN calls |-> [calls[i] EXCEPT !.live = FALSE]]
    /\ list' = EmptyList /\ bell' = EmptyBell /\ excuse' = {} /\ unseen' = {}

(* clearAuthToken, and to the login page. *)
SignOut ==
    /\ Move
    /\ home
    /\ WriteToken(NoOne)
    /\ wire' = <<>>
    /\ Unmount
    /\ UNCHANGED <<server, nudge, wired>>

(* Another tab signs in or out. *)
WriteElsewhere(t) ==
    /\ Move
    /\ t # token
    /\ t # NoOne => account[t].active
    /\ token' = t /\ nudge' = TRUE
    /\ excuse' = excuse \cup Switched(t)
    /\ unseen' = unseen \cup Unfetched(t)
    /\ UNCHANGED <<server, line, page, calls>>

StorageEvent ==
    /\ nudge
    /\ nudge' = FALSE
    /\ IF wired THEN Resync(token) ELSE UNCHANGED socket
    /\ IF home /\ token = NoOne
       THEN Unmount /\ wire' = <<>>
       ELSE LoseWire(token) /\ UNCHANGED <<home, list, orphans, bell, calls>>
    /\ UNCHANGED <<server, token, wired, moves>>

(* A new document: nothing of the old one is left. *)
NewDocument ==
    /\ home' = FALSE /\ wired' = FALSE /\ nudge' = FALSE
    /\ socket' = NoSocket /\ wire' = <<>>
    /\ calls' = <<>>
    /\ list' = EmptyList /\ orphans' = 0 /\ bell' = EmptyBell /\ excuse' = {} /\ unseen' = {}

Reload == Move /\ home /\ NewDocument /\ UNCHANGED <<server, token>>

-----------------------------------------------------------------------------
(* Events that arrive *)

\* Mutant: no second load while one is under way.
HeardUnlessLoading ==
    list.timer \/ ~\E i \in DOMAIN calls : calls[i].kind = "list"

(* Every signal starts the 300 ms anew. *)
Heard == TRUE

(* A notification is shown once (of fewer than 30). *)
Pushed(items, n) == [items EXCEPT ![n] = IF @ = "absent" THEN "unread" ELSE @]

Receive ==
    /\ wire # <<>>
    /\ wire' = Tail(wire)
    /\ list' = IF Head(wire) = "changed" /\ home THEN [list EXCEPT !.timer = Heard] ELSE list
    /\ bell' = IF Head(wire) # "changed" /\ home
               THEN [bell EXCEPT !.items = Pushed(@, Head(wire))] ELSE bell
    /\ UNCHANGED <<server, storage, socket, home, wired, orphans, history, calls, moves>>

(* reload, after the debounce *)
FireTimer ==
    /\ list.timer
    /\ Len(calls) < MaxCalls
    /\ list' = [list EXCEPT !.timer = FALSE]
    /\ excuse' = {}
    /\ calls' = Append(calls, Asked("list"))
    /\ UNCHANGED <<server, storage, line, home, wired, orphans, bell, unseen, moves>>

(* The timer of a list that is gone fires: with the token of whoever has   *)
(* signed in by now, or with none.                                         *)
FireOrphan ==
    /\ orphans > 0
    /\ Len(calls) < MaxCalls
    /\ orphans' = orphans - 1
    /\ calls' = Append(calls, [Asked("list") EXCEPT !.live = FALSE])
    /\ UNCHANGED <<server, storage, line, home, wired, list, bell, history, moves>>

(* markAll or openItem: shown as read at once, best effort on the server.  *)
Mark ==
    /\ home /\ Len(calls) < MaxCalls
    /\ \E N \in {Notes} \cup {{n} : n \in Notes} :
         /\ \E n \in N : bell.items[n] = "unread"
         /\ bell' = [bell EXCEPT !.items = [n \in Notes |->
                        IF n \in N /\ @[n] = "unread" THEN "read" ELSE @[n]]]
         /\ calls' = Append(calls, [Asked("mark") EXCEPT !.on = N])
    /\ UNCHANGED <<server, storage, line, home, wired, list, orphans, history, moves>>

-----------------------------------------------------------------------------
(* REST calls *)

\* Mutant: what was read is not listed.
FeedUnread(u) ==
    [n \in Notes |-> IF n \in NotesOf(u) /\ note[n] = "unread" THEN "unread" ELSE "absent"]

(* The newest notifications of the account. *)
Feed(u) == [n \in Notes |-> IF n \in NotesOf(u) THEN note[n] ELSE "absent"]

\* Mutant: a blocked account is let through.
LetInWithAnyToken(u) == u # NoOne

LetIn(u) == u # NoOne /\ account[u].active

Without(i) == SubSeq(calls, 1, i - 1) \o SubSeq(calls, i + 1, Len(calls))

Asking(i, kinds) == i \in DOMAIN calls /\ calls[i].state = "asked" /\ calls[i].kind \in kinds

(* JwtAuthGuard answers 401 or 403 ...                                     *)
Refuse(i) ==
    /\ Asking(i, Kinds)
    /\ ~LetIn(calls[i].by)
    /\ calls' = [calls EXCEPT ![i].state = "refused"]
    /\ UNCHANGED <<server, storage, line, page, history, moves>>

(* Somebody waits for the answer; what nobody waits for is never seen.     *)
Heeded(c) == c.live \/ c.kind = "refresh"

Overtakes(c, d) == c.kind = "list" /\ d.kind = "list" /\ d.state = "served"

(* ... or the handler runs.  An answer served before this one is late now. *)
Serve(i) ==
    /\ Asking(i, {"list", "bell", "refresh"})
    /\ LetIn(calls[i].by)
    /\ LET c == calls[i]
           served == [c EXCEPT !.state = "served",
                        !.shown = IF c.kind = "list" THEN Visible(c.by) ELSE @,
                        !.items = IF c.kind = "bell" THEN Feed(c.by) ELSE @]
       IN  calls' = IF ~Heeded(c) THEN Without(i) ELSE
               [j \in DOMAIN calls |->
                   IF j = i THEN served
                   ELSE [calls[j] EXCEPT !.late = @ \/ Overtakes(c, calls[j])]]
    /\ UNCHANGED <<server, storage, line, page, history, moves>>

(* markRead, markAllRead; nobody waits for the answer. *)
ServeMark(i) ==
    /\ Asking(i, {"mark"})
    /\ LetIn(calls[i].by)
    /\ calls' = Without(i)
    /\ note' = [n \in Notes |-> IF n \in calls[i].on \cap NotesOf(calls[i].by)
                                THEN "read" ELSE note[n]]
    /\ UNCHANGED <<account, rows, unsent, unpushed, storage, line, page, history, moves>>

Answered(i, kind) ==
    /\ i \in DOMAIN calls
    /\ calls[i].state = "served" /\ calls[i].kind = kind /\ Heeded(calls[i])

(* setRequests or setItems of a component that is gone. *)
Ignore(i) ==
    /\ i \in DOMAIN calls /\ calls[i].state = "served" /\ ~Heeded(calls[i])
    /\ calls' = Without(i)
    /\ UNCHANGED <<server, storage, line, page, history, moves>>

(* setRequests: the last answer wins. *)
ShowList(i) ==
    /\ Answered(i, "list")
    /\ calls' = Without(i)
    /\ list' = [list EXCEPT !.shown = calls[i].shown]
    /\ excuse' = (excuse \ {"overtaken"}) \cup (IF calls[i].late THEN {"overtaken"} ELSE {})
                                           \cup Switched(calls[i].by)
    /\ UNCHANGED <<server, storage, line, home, wired, orphans, bell, unseen, moves>>

(* setItems: what was pushed before is overwritten. *)
ShowBell(i) ==
    /\ Answered(i, "bell")
    /\ calls' = Without(i)
    /\ bell' = [items |-> calls[i].items, loaded |-> TRUE]
    /\ unseen' = {n \in Notes : /\ n \in unseen \/ bell.items[n] # "absent"
                                /\ calls[i].items[n] = "absent"}
    /\ UNCHANGED <<server, storage, line, home, wired, list, orphans, excuse, moves>>

\* Mutant: a field the answer does not have.
RenewedAs(c) == "undefined"

(* setAuthToken(result.accessToken) *)
Renewed(c) == c.by

(* The renewed token is stored whatever has happened to the old one        *)
(* meanwhile.                                                              *)
StoreRenewed(i) ==
    /\ Answered(i, "refresh")
    /\ calls' = Without(i)
    /\ WriteToken(Renewed(calls[i]))
    /\ LoseWire(Renewed(calls[i]))
    /\ UNCHANGED <<server, nudge, page, moves>>

(* The interceptor: the token goes, whosever it is by now, and so does the *)
(* document.                                                               *)
LogOut(i) ==
    /\ i \in DOMAIN calls /\ calls[i].state = "refused"
    /\ token' = NoOne
    /\ NewDocument
    /\ UNCHANGED <<server, moves>>

(* A call that fails otherwise: the list keeps what it shows. *)
FailCall(i) ==
    /\ Move
    /\ i \in DOMAIN calls
    /\ calls' = Without(i)
    /\ excuse' = excuse \cup (IF calls[i].kind = "list" /\ calls[i].live THEN {"failed"} ELSE {})
    /\ UNCHANGED <<server, storage, line, page, unseen>>

-----------------------------------------------------------------------------

ServerStep ==
    \/ \E r \in Requests : Change(r) \/ EmitRequestChanged(r) \/ KeepQuiet(r)
    \/ \E u \in Users : ChangeAccount(u)
    \/ \E n \in Notes : CreateNote(n) \/ EmitNote(n)
    \/ Join

AuthStep ==
    \/ \E u \in Users : SignIn(u)
    \/ \E t \in Someone : WriteElsewhere(t)
    \/ Open \/ SignOut \/ StorageEvent \/ Reload

AnswerStep(i) ==
    \/ Refuse(i) \/ Serve(i) \/ ServeMark(i)
    \/ Ignore(i) \/ ShowList(i) \/ ShowBell(i) \/ StoreRenewed(i) \/ LogOut(i)

PageStep ==
    \/ Handshake \/ DropSocket \/ Receive \/ FireTimer \/ FireOrphan \/ Mark
    \/ \E i \in DOMAIN calls : AnswerStep(i) \/ FailCall(i)

(* Nobody does anything any more. *)
Quiet ==
    /\ calls = <<>> /\ wire = <<>> /\ ~list.timer /\ orphans = 0 /\ ~nudge
    /\ unpushed = {} /\ unsent = {}

AllServed == Quiet /\ moves = 0 /\ UNCHANGED vars

Next == ServerStep \/ AuthStep \/ PageStep \/ AllServed

Spec == Init /\ [][Next]_vars

(* The event loop delivers, timers fire, REST calls are answered.          *)
FairSpec ==
    /\ Spec
    /\ WF_vars(Handshake) /\ WF_vars(Join) /\ WF_vars(Receive)
    /\ WF_vars(FireTimer) /\ WF_vars(FireOrphan) /\ WF_vars(StorageEvent)
    /\ WF_vars(\E i \in DOMAIN calls : AnswerStep(i))

-----------------------------------------------------------------------------
(* Properties *)

(* Once everything has settled, the list shows what the server would show, *)
(* except after a signal that met no connection, a change the account was  *)
(* not told of, an answer that overtook a later one, a call that failed or *)
(* a change of account or role since the last load.  Those not told are    *)
(* everybody when a reporter joins, and the holders of the role whenever   *)
(* it is not the money that is approved (RequestsList.tsx:44-62,           *)
(* realtime.service.ts:21-43, requests.service.ts:191-209, 331-335,        *)
(* 458-471, 757-781).                                                      *)
QuietMeansFresh ==
    home /\ Quiet /\ token # NoOne /\ excuse = {} => list.shown = Visible(token)

(* Every notification of the account is in the bell, except those emitted  *)
(* while no connection had joined, overwritten by the first answer, or     *)
(* older than a change of account (NotificationBell.tsx:27-36,             *)
(* notifications.service.ts:25-43).                                        *)
BellMissesOnlyGaps ==
    home /\ Quiet /\ token # NoOne /\ bell.loaded =>
        \A n \in NotesOf(token) : bell.items[n] # "absent" \/ n \in unseen

(* The connection belongs to the account whose token is stored, until the  *)
(* event about a new one arrives; a handshake that was on its way when the *)
(* token changed is the one exception (realtime.ts:49-69).                 *)
SocketFollowsTheToken ==
    ~nudge /\ socket.state \in {"joining", "joined"} /\ ~socket.crossed => socket.as = token

(* A page that hears of a change while its account is blocked is signed    *)
(* out, unless the call it makes fails or the page is closed first         *)
(* (client.ts:38-57, jwt-auth.guard.ts:83-109).                            *)
Blocked == token \in Users /\ ~account[token].active

BlockedIsSignedOut ==
    Blocked /\ list.timer ~> ~Blocked \/ ~home \/ "failed" \in excuse

=============================================================================
