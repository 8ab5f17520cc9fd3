----------------------------- MODULE DeskProofs -----------------------------
(***************************************************************************)
(* Proofs about an open page of the web application, for every number of   *)
(* users, requests and notifications.                                      *)
(***************************************************************************)
EXTENDS Desk, SequenceTheorems, TLAPS

USE UsersType, RowsType, BoundsType

InFlight == Range(calls)

LiveLists == {c \in InFlight : c.kind = "list" /\ c.live}
LiveBells == {c \in InFlight : c.kind = "bell" /\ c.live}

-----------------------------------------------------------------------------
(* Sequences of calls and of events *)

(* What a sequence ranges over.                                            *)
LEMMA EntriesOf ==
    ASSUME NEW S, NEW s \in Seq(S)
    PROVE  /\ DOMAIN s = 1..Len(s) /\ Len(s) \in Nat
           /\ Range(s) = {s[i] : i \in 1..Len(s)}
           /\ Range(s) \subseteq S
BY DEF Range

(* A call that is added ...                                                *)
LEMMA EntryAdded ==
    ASSUME NEW S, NEW s \in Seq(S), NEW e \in S
    PROVE  Append(s, e) \in Seq(S) /\ Range(Append(s, e)) = Range(s) \cup {e}
<1> DEFINE t == Append(s, e)
<1>1. t \in Seq(S) /\ Len(t) = Len(s) + 1 /\ Len(s) \in Nat
  OBVIOUS
<1>2. t[Len(s) + 1] = e /\ \A i \in 1..Len(s) : t[i] = s[i]
  OBVIOUS
<1>3. Range(t) = {t[i] : i \in 1..Len(t)} /\ Range(s) = {s[i] : i \in 1..Len(s)}
  <2> HIDE DEF t
  <2> QED BY <1>1, EntriesOf
<1>4. 1..Len(t) = 1..Len(s) \cup {Len(s) + 1}
  BY <1>1
<1> HIDE DEF t
<1>5. Range(t) = Range(s) \cup {e}
  <2>1. Range(t) \subseteq Range(s) \cup {e}
    BY <1>2, <1>3, <1>4
  <2>2. ASSUME NEW i \in 1..Len(s) PROVE s[i] \in Range(t)
    BY <1>2, <1>3, <1>4
  <2>3. e \in Range(t)
    BY <1>1, <1>2, <1>3, <1>4
  <2> QED BY <1>3, <2>1, <2>2, <2>3
<1> QED BY <1>1, <1>5 DEF t

(* ... and one that is taken out.                                          *)
LEMMA CallTaken ==
    ASSUME calls \in Seq(Call), NEW i \in DOMAIN calls
    PROVE  /\ Without(i) \in Seq(Call)
           /\ Range(Without(i)) \subseteq InFlight
           /\ \A c \in InFlight : c # calls[i] => c \in Range(Without(i))
<1> DEFINE s == SubSeq(calls, 1, i - 1)
           t == SubSeq(calls, i + 1, Len(calls))
<1>1. i \in 1..Len(calls) /\ Len(calls) \in Nat /\ \A j \in 1..Len(calls) : calls[j] \in Call
  OBVIOUS
<1>2. /\ s \in Seq(Call) /\ Len(s) = i - 1
      /\ \A j \in 1..i-1 : s[j] = calls[j]
  <2>1. 1 \in Int /\ i - 1 \in Int /\ \A j \in 1..i-1 : calls[j] \in Call
    BY <1>1
  <2>2. /\ s \in Seq(Call)
        /\ Len(s) = IF 1 <= i - 1 THEN (i - 1) - 1 + 1 ELSE 0
        /\ \A j \in 1..(i-1)-1+1 : s[j] = calls[1+j-1]
    BY <2>1, SubSeqProperties
  <2> HIDE DEF s
  <2> QED BY <1>1, <2>2
<1>3. /\ t \in Seq(Call) /\ Len(t) = Len(calls) - i
      /\ \A j \in 1..Len(calls)-i : t[j] = calls[i+j]
  <2>1. i + 1 \in Int /\ Len(calls) \in Int /\ \A j \in i+1..Len(calls) : calls[j] \in Call
    BY <1>1
  <2>2. /\ t \in Seq(Call)
        /\ Len(t) = IF i + 1 <= Len(calls) THEN Len(calls) - (i + 1) + 1 ELSE 0
        /\ \A j \in 1..Len(calls)-(i+1)+1 : t[j] = calls[(i+1)+j-1]
    BY <2>1, SubSeqProperties
  <2> HIDE DEF t
  <2> QED BY <1>1, <2>2
<1>4. Without(i) \in Seq(Call) /\ Range(Without(i)) = Range(s) \cup Range(t)
  <2>1. s \o t \in Seq(Call)
    BY <1>2, <1>3
  <2>2. Range(s \o t) = Range(s) \cup Range(t)
    <3> HIDE DEF s, t
    <3> QED BY <1>2, <1>3, RangeConcatenation
  <2> QED BY <2>1, <2>2 DEF Without
<1>5. /\ Range(s) = {s[j] : j \in 1..Len(s)} /\ Range(t) = {t[j] : j \in 1..Len(t)}
      /\ InFlight = {calls[j] : j \in 1..Len(calls)}
  <2> HIDE DEF s, t
  <2> QED BY <1>2, <1>3, EntriesOf DEF InFlight
<1> HIDE DEF s, t
<1>6. Range(s) \cup Range(t) \subseteq InFlight
  <2>1. ASSUME NEW j \in 1..Len(s) PROVE s[j] \in InFlight
    BY <1>1, <1>2, <1>5
  <2>2. ASSUME NEW j \in 1..Len(t) PROVE t[j] \in InFlight
    <3>1. i + j \in 1..Len(calls)
      BY <1>1, <1>3
    <3> QED BY <1>3, <1>5, <3>1
  <2> QED BY <1>5, <2>1, <2>2
<1>7. ASSUME NEW j \in 1..Len(calls), j # i PROVE calls[j] \in Range(s) \cup Range(t)
  <2>1. CASE j < i
    BY <1>1, <1>2, <1>5, <2>1
  <2>2. CASE j > i
    <3>1. j - i \in 1..Len(calls)-i /\ i + (j - i) = j
      BY <1>1, <2>2
    <3> QED BY <1>3, <1>5, <3>1
  <2> QED BY <1>1, <1>7, <2>1, <2>2
<1> QED BY <1>4, <1>5, <1>6, <1>7


-----------------------------------------------------------------------------
(* Calls and connections are well formed *)

LEMMA NewCall ==
    ASSUME token \in Someone, NEW kind \in Kinds
    PROVE  Asked(kind) \in Call
<1>1. EmptyBell.items \in BellViews
  BY DEF EmptyBell, BellViews
<1> QED BY <1>1 DEF Asked, Call, ListViews

LEMMA MarkCall ==
    ASSUME token \in Someone, NEW N \in SUBSET Notes
    PROVE  [Asked("mark") EXCEPT !.on = N] \in Call
<1>1. Asked("mark") \in Call
  BY NewCall DEF Kinds
<1> QED BY <1>1 DEF Call

LEMMA CallOrphaned == \A c \in Call : [c EXCEPT !.live = FALSE] \in Call
BY DEF Call

LEMMA CallRefused == \A c \in Call : [c EXCEPT !.state = "refused"] \in Call
BY DEF Call

LEMMA CallOlder ==
    ASSUME NEW c \in Call, NEW b \in BOOLEAN PROVE [c EXCEPT !.late = b] \in Call
BY DEF Call

ServedAs(c) == [c EXCEPT !.state = "served",
                         !.shown = IF c.kind = "list" THEN Visible(c.by) ELSE @,
                         !.items = IF c.kind = "bell" THEN Feed(c.by) ELSE @]

LEMMA ViewsTyped ==
    ASSUME TypeOK, NEW u
    PROVE  Visible(u) \in ListViews /\ Feed(u) \in BellViews
<1>1. Visible(u) \in ListViews
  BY DEF TypeOK, Visible, ListViews
<1>2. \A n \in NotesOf(u) : note[n] \in {"absent", "unread", "read"}
  BY DEF TypeOK, NotesOf
<1>3. Feed(u) \in BellViews
  BY <1>2 DEF Feed, BellViews
<1> QED BY <1>1, <1>3

LEMMA CallServed ==
    ASSUME TypeOK, NEW c \in Call
    PROVE  ServedAs(c) \in Call
<1>1. Visible(c.by) \in ListViews /\ Feed(c.by) \in BellViews
  BY ViewsTyped
<1> QED BY <1>1 DEF ServedAs, Call

LEMMA NoConnection == NoSocket \in Socket /\ Opening \in Socket
<1>1. NoSocket \in Socket
  BY DEF NoSocket, Socket, Someone
<1>2. Opening \in Socket
  BY <1>1 DEF Opening, Socket
<1> QED BY <1>1, <1>2

LEMMA Crossed == \A s \in Socket : [s EXCEPT !.crossed = TRUE] \in Socket
BY DEF Socket

LEMMA ShakesHands ==
    \A s \in Socket : \A t \in Someone : [s EXCEPT !.state = "joining", !.as = t] \in Socket
BY DEF Socket

LEMMA Joins ==
    ASSUME NEW s \in Socket, NEW b \in BOOLEAN
    PROVE  [s EXCEPT !.state = "joined", !.staff = b] \in Socket
BY DEF Socket

LEMMA Resynced ==
    ASSUME socket \in Socket, NEW t \in Someone, Resync(t)
    PROVE  socket' \in Socket
<1>1. CASE socket' = NoSocket
  BY <1>1, NoConnection
<1>2. CASE socket' = Opening
  BY <1>2, NoConnection
<1>3. CASE socket' = [socket EXCEPT !.crossed = TRUE]
  BY <1>3, Crossed
<1> QED BY <1>1, <1>2, <1>3 DEF Resync


LEMMA EmptyViews == EmptyList \in [shown : ListViews, timer : BOOLEAN]
                    /\ EmptyBell \in [items : BellViews, loaded : BOOLEAN]
<1>1. EmptyList \in [shown : ListViews, timer : BOOLEAN]
  BY DEF EmptyList, ListViews
<1>2. EmptyBell \in [items : BellViews, loaded : BOOLEAN]
  BY DEF EmptyBell, BellViews
<1> QED BY <1>1, <1>2

(* What the pages lose keeps its form. *)
LEMMA WireLost ==
    ASSUME TypeOK, NEW t, LoseWire(t)
    PROVE  /\ wire' \in Seq({"changed"} \cup Notes)
           /\ excuse' \subseteq Excuses /\ unseen' \subseteq Notes
<1>1. Unfetched(t) \subseteq Notes /\ Switched(t) \subseteq Excuses
  BY DEF Unfetched, NotesOf, Switched, Excuses
<1>2. wire' = <<>> /\ excuse' \subseteq Excuses
  BY <1>1 DEF LoseWire, TypeOK, Excuses
<1> QED BY <1>1, <1>2 DEF LoseWire, TypeOK

LEMMA CallsOrphaned ==
    ASSUME calls \in Seq(Call)
    PROVE  [i \in DOMAIN calls |-> [calls[i] EXCEPT !.live = FALSE]] \in Seq(Call)
<1>1. \A i \in DOMAIN calls : [calls[i] EXCEPT !.live = FALSE] \in Call
  BY CallOrphaned
<1> DEFINE f(i) == [calls[i] EXCEPT !.live = FALSE]
<1>2. \A i \in 1..Len(calls) : f(i) \in Call
  BY <1>1
<1>3. DOMAIN calls = 1..Len(calls) /\ Len(calls) \in Nat
  OBVIOUS
<1> HIDE DEF f
<1>4. [i \in 1..Len(calls) |-> f(i)] \in Seq(Call)
  BY <1>2, <1>3
<1> QED BY <1>3, <1>4 DEF f

LEMMA Unmounted ==
    ASSUME TypeOK, Unmount
    PROVE  /\ home' \in BOOLEAN /\ calls' \in Seq(Call)
           /\ list' \in [shown : ListViews, timer : BOOLEAN]
           /\ bell' \in [items : BellViews, loaded : BOOLEAN]
           /\ orphans' \in Nat
           /\ excuse' = {} /\ unseen' = {}
<1>1. orphans' \in Nat
  BY DEF Unmount, TypeOK
<1>2. calls \in Seq(Call)
  BY DEF TypeOK
<1> QED BY <1>1, <1>2, EmptyViews, CallsOrphaned DEF Unmount

LEMMA DocumentReplaced ==
    ASSUME NewDocument
    PROVE  /\ home' = FALSE /\ wired' = FALSE /\ nudge' = FALSE
           /\ socket' \in Socket
           /\ wire' \in Seq({"changed"} \cup Notes) /\ calls' \in Seq(Call)
           /\ list' \in [shown : ListViews, timer : BOOLEAN]
           /\ bell' \in [items : BellViews, loaded : BOOLEAN]
           /\ orphans' \in Nat
           /\ excuse' = {} /\ unseen' = {}
<1>1. socket' \in Socket
  BY NoConnection DEF NewDocument
<1>2. list' \in [shown : ListViews, timer : BOOLEAN] /\ bell' \in [items : BellViews, loaded : BOOLEAN]
  BY EmptyViews DEF NewDocument
<1> QED BY <1>1, <1>2 DEF NewDocument

LEMMA SignalTyped ==
    ASSUME NEW r, NEW U PROVE Signal(r, U) \in Seq({"changed"} \cup Notes)
<1>1. <<"changed">> \in Seq({"changed"} \cup Notes) /\ <<>> \in Seq({"changed"} \cup Notes)
  OBVIOUS
<1>2. SignalToStaff(r) \in Seq({"changed"} \cup Notes)
  BY <1>1 DEF SignalToStaff
<1> DEFINE t == IF \E u \in U : InUserRoom(u) THEN <<"changed">> ELSE <<>>
<1>3. t \in Seq({"changed"} \cup Notes)
  BY <1>1
<1>4. SignalToStaff(r) \o t \in Seq({"changed"} \cup Notes)
  <2> HIDE DEF t
  <2> QED BY <1>2, <1>3
<1> QED BY <1>4 DEF Signal

AccountRows == [active : BOOLEAN, staff : BOOLEAN, holds : BOOLEAN]

LEMMA AccountFlipped ==
    \A a \in AccountRows :
        /\ [a EXCEPT !.active = ~@] \in AccountRows
        /\ [a EXCEPT !.staff = ~@] \in AccountRows
        /\ [a EXCEPT !.holds = ~@] \in AccountRows
BY DEF AccountRows

LEMMA AccountsFlipped ==
    ASSUME NEW a \in [Users -> AccountRows], NEW u \in Users
    PROVE  /\ [a EXCEPT ![u].active = ~@] \in [Users -> AccountRows]
           /\ [a EXCEPT ![u].staff = ~@] \in [Users -> AccountRows]
           /\ [a EXCEPT ![u].holds = ~@] \in [Users -> AccountRows]
<1> DEFINE x == [a[u] EXCEPT !.active = ~@]
           y == [a[u] EXCEPT !.staff = ~@]
           z == [a[u] EXCEPT !.holds = ~@]
<1>1. x \in AccountRows /\ y \in AccountRows /\ z \in AccountRows
  <2>1. a[u] \in AccountRows
    OBVIOUS
  <2> QED BY <2>1, AccountFlipped
<1>2. /\ [a EXCEPT ![u] = x] \in [Users -> AccountRows]
      /\ [a EXCEPT ![u] = y] \in [Users -> AccountRows]
      /\ [a EXCEPT ![u] = z] \in [Users -> AccountRows]
  <2> HIDE DEF x, y, z
  <2> QED BY <1>1
<1> QED BY <1>2, Zenon

LEMMA TypeServer ==
    ASSUME TypeOK, ServerStep
    PROVE  TypeOK'
<1> USE DEF server, storage, line, page, history
<1>1. ASSUME NEW r \in Requests, Change(r) PROVE TypeOK'
  BY <1>1 DEF Change, TypeOK
<1>2. ASSUME NEW r \in Requests, EmitRequestChanged(r) PROVE TypeOK'
  <2>1. PICK U : /\ wire' = wire \o Signal(r, U)
                 /\ excuse' = excuse \cup Untold(r, U)
                       \cup (IF token = NoOne \/ JoinedAsIs(token) THEN {} ELSE {"missed"})
    BY <1>2 DEF EmitRequestChanged
  <2>2. wire' \in Seq({"changed"} \cup Notes)
    <3>1. Signal(r, U) \in Seq({"changed"} \cup Notes) /\ wire \in Seq({"changed"} \cup Notes)
      BY SignalTyped DEF TypeOK
    <3> QED BY <2>1, <3>1
  <2>3. excuse' \subseteq Excuses
    BY <2>1 DEF Untold, Excuses, TypeOK
  <2> QED BY <1>2, <2>2, <2>3 DEF EmitRequestChanged, TypeOK
<1>7. ASSUME NEW r \in Requests, KeepQuiet(r) PROVE TypeOK'
  <2>1. excuse' \subseteq Excuses
    BY <1>7 DEF KeepQuiet, Excuses, TypeOK
  <2> QED BY <1>7, <2>1 DEF KeepQuiet, TypeOK
<1>3. ASSUME NEW u \in Users, ChangeAccount(u) PROVE TypeOK'
  <2>1. account' \in [Users -> AccountRows]
    <3>1. account \in [Users -> AccountRows]
      BY DEF TypeOK, AccountRows
    <3>2. /\ [account EXCEPT ![u].active = ~@] \in [Users -> AccountRows]
          /\ [account EXCEPT ![u].staff = ~@] \in [Users -> AccountRows]
          /\ [account EXCEPT ![u].holds = ~@] \in [Users -> AccountRows]
      BY <3>1, AccountsFlipped
    <3> QED BY <1>3, <3>2 DEF ChangeAccount
  <2>2. moves' \in 0..MaxMoves /\ excuse' \subseteq Excuses
    BY <1>3 DEF ChangeAccount, Move, Excuses, TypeOK
  <2> QED BY <1>3, <2>1, <2>2 DEF ChangeAccount, TypeOK, AccountRows
<1>4. ASSUME NEW n \in Notes, CreateNote(n) PROVE TypeOK'
  BY <1>4 DEF CreateNote, TypeOK
<1>5. ASSUME NEW n \in Notes, EmitNote(n) PROVE TypeOK'
  <2>1. wire' \in Seq({"changed"} \cup Notes)
    <3>1. wire \in Seq({"changed"} \cup Notes)
      BY DEF TypeOK
    <3>2. Append(wire, n) \in Seq({"changed"} \cup Notes)
      BY <3>1
    <3> QED BY <1>5, <3>1, <3>2 DEF EmitNote
  <2>2. unseen' \subseteq Notes
    BY <1>5 DEF EmitNote, TypeOK
  <2> QED BY <1>5, <2>1, <2>2 DEF EmitNote, TypeOK
<1>6. CASE Join
  <2>1. socket \in Socket /\ account \in [Users -> AccountRows]
    BY DEF TypeOK, AccountRows
  <2>2. CASE socket.as # NoOne /\ account[socket.as].active
    <3>1. socket.as \in Users
      BY <2>1, <2>2 DEF Socket, Someone
    <3>2. account[socket.as].staff \in BOOLEAN
      BY <2>1, <3>1 DEF AccountRows
    <3>3. [socket EXCEPT !.state = "joined", !.staff = account[socket.as].staff] \in Socket
      BY <2>1, <3>2, Joins
    <3>4. socket' \in Socket
      BY <1>6, <2>2, <3>3 DEF Join
    <3> QED BY <1>6, <3>4 DEF Join, TypeOK
  <2>3. CASE ~(socket.as # NoOne /\ account[socket.as].active)
    <3>1. socket' \in Socket
      BY <1>6, <2>3, NoConnection DEF Join
    <3> QED BY <1>6, <3>1 DEF Join, TypeOK
  <2> QED BY <2>2, <2>3
<1> QED BY <1>1, <1>2, <1>3, <1>4, <1>5, <1>6, <1>7 DEF ServerStep

LEMMA TypeAuth ==
    ASSUME TypeOK, AuthStep
    PROVE  TypeOK'
<1> USE DEF TypeOK, server, storage, line, page, history
<1>1. ASSUME NEW u \in Users, SignIn(u) PROVE TypeOK'
  <2>1. socket' \in Socket /\ token' \in Someone
    BY <1>1, Resynced DEF SignIn, WriteToken, Someone
  <2> QED BY <1>1, <2>1 DEF SignIn
<1>2. ASSUME NEW t \in Someone, WriteElsewhere(t) PROVE TypeOK'
  <2>1. excuse' \subseteq Excuses /\ unseen' \subseteq Notes
    BY <1>2 DEF WriteElsewhere, Switched, Unfetched, NotesOf, Excuses
  <2>2. moves' \in 0..MaxMoves
    BY <1>2 DEF WriteElsewhere, Move
  <2> QED BY <1>2, <2>1, <2>2 DEF WriteElsewhere
<1>3. CASE Open
  <2>1. socket' \in Socket
    BY <1>3, NoConnection DEF Open
  <2>2. <<Asked("refresh"), Asked("list"), Asked("bell")>> \in Seq(Call)
    BY NewCall DEF Kinds
  <2>3. calls' \in Seq(Call)
    BY <1>3, <2>2 DEF Open
  <2> QED BY <1>3, <2>1, <2>3 DEF Open
<1>4. CASE SignOut
  <2>1. socket' \in Socket /\ token' \in Someone
    BY <1>4, Resynced DEF SignOut, WriteToken, Someone
  <2>2. moves' \in 0..MaxMoves
    BY <1>4 DEF SignOut, Move
  <2>3. Unmount
    BY <1>4 DEF SignOut
  <2> HIDE DEF TypeOK
  <2>4. /\ home' \in BOOLEAN /\ calls' \in Seq(Call)
        /\ list' \in [shown : ListViews, timer : BOOLEAN]
        /\ bell' \in [items : BellViews, loaded : BOOLEAN]
        /\ orphans' \in Nat
        /\ excuse' = {} /\ unseen' = {}
    BY <2>3, Unmounted
  <2> QED BY <1>4, <2>1, <2>2, <2>4 DEF SignOut, TypeOK
<1>5. CASE StorageEvent
  <2>1. socket' \in Socket
    BY <1>5, Resynced DEF StorageEvent
  <2>2. CASE home /\ token = NoOne
    <3>1. Unmount /\ wire' = <<>>
      BY <1>5, <2>2 DEF StorageEvent
    <3> HIDE DEF TypeOK
    <3>2. /\ home' \in BOOLEAN /\ calls' \in Seq(Call)
          /\ list' \in [shown : ListViews, timer : BOOLEAN]
          /\ bell' \in [items : BellViews, loaded : BOOLEAN]
          /\ orphans' \in Nat
          /\ excuse' = {} /\ unseen' = {}
      BY <3>1, Unmounted
    <3>3. /\ nudge' = FALSE
          /\ UNCHANGED <<account, rows, unsent, note, unpushed, token, wired, moves>>
      BY <1>5 DEF StorageEvent
    <3>4. wire' \in Seq({"changed"} \cup Notes)
      BY <3>1
    <3> QED BY <2>1, <3>2, <3>3, <3>4 DEF TypeOK
  <2>3. CASE ~(home /\ token = NoOne)
    <3>1. LoseWire(token) /\ UNCHANGED <<home, list, orphans, bell, calls>>
      BY <1>5, <2>3 DEF StorageEvent
    <3> HIDE DEF TypeOK
    <3>2. /\ wire' \in Seq({"changed"} \cup Notes)
          /\ excuse' \subseteq Excuses /\ unseen' \subseteq Notes
      BY <3>1, WireLost
    <3>3. /\ nudge' = FALSE
          /\ UNCHANGED <<account, rows, unsent, note, unpushed, token, wired, moves>>
          /\ UNCHANGED <<home, list, orphans, bell, calls>>
      BY <1>5, <3>1 DEF StorageEvent
    <3>4. /\ list' \in [shown : ListViews, timer : BOOLEAN]
          /\ bell' \in [items : BellViews, loaded : BOOLEAN]
          /\ calls' \in Seq(Call) /\ home' \in BOOLEAN /\ orphans' \in Nat
      BY <3>3 DEF TypeOK
    <3> QED BY <2>1, <3>2, <3>3, <3>4 DEF TypeOK
  <2> QED BY <2>2, <2>3
<1>6. CASE Reload
  <2>1. moves' \in 0..MaxMoves
    BY <1>6 DEF Reload, Move
  <2>2. NewDocument /\ UNCHANGED <<account, rows, unsent, note, unpushed, token>>
    BY <1>6 DEF Reload
  <2> HIDE DEF TypeOK
  <2>3. /\ home' = FALSE /\ wired' = FALSE /\ nudge' = FALSE
        /\ socket' \in Socket
        /\ wire' \in Seq({"changed"} \cup Notes) /\ calls' \in Seq(Call)
        /\ list' \in [shown : ListViews, timer : BOOLEAN]
        /\ bell' \in [items : BellViews, loaded : BOOLEAN]
        /\ orphans' \in Nat
        /\ excuse' = {} /\ unseen' = {}
    BY <2>2, DocumentReplaced
  <2> QED BY <2>1, <2>2, <2>3 DEF TypeOK
<1> QED BY <1>1, <1>2, <1>3, <1>4, <1>5, <1>6 DEF AuthStep


LEMMA TypePage ==
    ASSUME TypeOK, Handshake \/ DropSocket \/ Receive \/ FireTimer \/ FireOrphan \/ Mark
    PROVE  TypeOK'
<1> USE DEF TypeOK, server, storage, line, page, history
<1>1. CASE Handshake
  <2>1. socket' \in Socket
    BY <1>1, ShakesHands DEF Handshake
  <2> QED BY <1>1, <2>1 DEF Handshake
<1>2. CASE DropSocket
  <2>1. socket' \in Socket /\ moves' \in 0..MaxMoves /\ LoseWire(token)
    BY <1>2, NoConnection DEF DropSocket, Move
  <2> HIDE DEF TypeOK
  <2>2. /\ wire' \in Seq({"changed"} \cup Notes)
        /\ excuse' \subseteq Excuses /\ unseen' \subseteq Notes
    BY <2>1, WireLost
  <2> QED BY <1>2, <2>1, <2>2 DEF DropSocket, TypeOK
<1>3. CASE Receive
  <2>1. /\ wire' \in Seq({"changed"} \cup Notes)
        /\ Head(wire) \in {"changed"} \cup Notes
    BY <1>3 DEF Receive
  <2>2. list' \in [shown : ListViews, timer : BOOLEAN]
    <3>1. [list EXCEPT !.timer = TRUE] \in [shown : ListViews, timer : BOOLEAN]
      OBVIOUS
    <3> QED BY <1>3, <3>1 DEF Receive, Heard
  <2>3. bell' \in [items : BellViews, loaded : BOOLEAN]
    <3>1. Pushed(bell.items, Head(wire)) \in BellViews
      BY <2>1 DEF Pushed, BellViews
    <3>2. [bell EXCEPT !.items = Pushed(@, Head(wire))] \in [items : BellViews, loaded : BOOLEAN]
      BY <3>1
    <3> QED BY <1>3, <3>2 DEF Receive
  <2> QED BY <1>3, <2>1, <2>2, <2>3 DEF Receive
<1>4. CASE FireTimer
  <2>1. calls' \in Seq(Call)
    BY <1>4, NewCall DEF FireTimer, Kinds
  <2>2. list' \in [shown : ListViews, timer : BOOLEAN]
    BY <1>4 DEF FireTimer
  <2> QED BY <1>4, <2>1, <2>2 DEF FireTimer
<1>5. CASE Mark
  <2>1. PICK N \in {Notes} \cup {{n} : n \in Notes} :
          /\ bell' = [bell EXCEPT !.items = [n \in Notes |->
                        IF n \in N /\ @[n] = "unread" THEN "read" ELSE @[n]]]
          /\ calls' = Append(calls, [Asked("mark") EXCEPT !.on = N])
    BY <1>5 DEF Mark
  <2>2. N \in SUBSET Notes
    OBVIOUS
  <2>3. calls' \in Seq(Call)
    <3>1. [Asked("mark") EXCEPT !.on = N] \in Call
      BY <2>2, MarkCall
    <3> QED BY <2>1, <3>1
  <2>4. [n \in Notes |-> IF n \in N /\ bell.items[n] = "unread" THEN "read" ELSE bell.items[n]]
          \in BellViews
    BY DEF BellViews
  <2>5. bell' \in [items : BellViews, loaded : BOOLEAN]
    BY <2>1, <2>4
  <2> QED BY <1>5, <2>3, <2>5 DEF Mark
<1>6. CASE FireOrphan
  <2>1. calls' \in Seq(Call)
    <3>1. [Asked("list") EXCEPT !.live = FALSE] \in Call
      BY NewCall, CallOrphaned DEF Kinds
    <3> QED BY <1>6, <3>1 DEF FireOrphan
  <2>2. orphans' \in Nat
    BY <1>6 DEF FireOrphan
  <2> QED BY <1>6, <2>1, <2>2 DEF FireOrphan
<1> QED BY <1>1, <1>2, <1>3, <1>4, <1>5, <1>6

LEMMA ServedCalls ==
    ASSUME TypeOK, NEW i \in DOMAIN calls, Serve(i)
    PROVE  /\ calls' \in Seq(Call)
           /\ IF Heeded(calls[i])
              THEN calls' = [j \in DOMAIN calls |->
                               IF j = i THEN ServedAs(calls[i])
                               ELSE [calls[j] EXCEPT !.late = @ \/ Overtakes(calls[i], calls[j])]]
              ELSE calls' = Without(i)
<1>1. calls \in Seq(Call)
  BY DEF TypeOK
<1>2. IF Heeded(calls[i])
      THEN calls' = [j \in DOMAIN calls |->
                       IF j = i THEN ServedAs(calls[i])
                       ELSE [calls[j] EXCEPT !.late = @ \/ Overtakes(calls[i], calls[j])]]
      ELSE calls' = Without(i)
  BY DEF Serve, ServedAs
<1>3. CASE ~Heeded(calls[i])
  BY <1>1, <1>2, <1>3, CallTaken
<1>4. CASE Heeded(calls[i])
  <2> DEFINE f(j) == IF j = i THEN ServedAs(calls[i])
                     ELSE [calls[j] EXCEPT !.late = @ \/ Overtakes(calls[i], calls[j])]
  <2>1. DOMAIN calls = 1..Len(calls) /\ Len(calls) \in Nat /\ \A j \in 1..Len(calls) : calls[j] \in Call
    BY <1>1
  <2>2. ASSUME NEW j \in 1..Len(calls) PROVE f(j) \in Call
    <3>1. ServedAs(calls[i]) \in Call
      BY <2>1, CallServed
    <3>2. (calls[j].late \/ Overtakes(calls[i], calls[j])) \in BOOLEAN
      BY DEF Overtakes
    <3> DEFINE b == calls[j].late \/ Overtakes(calls[i], calls[j])
    <3>3. [calls[j] EXCEPT !.late = b] \in Call
      <4> HIDE DEF b
      <4> QED BY <2>1, <3>2, CallOlder DEF b
    <3> QED BY <3>1, <3>3
  <2>3. calls' = [j \in 1..Len(calls) |-> f(j)]
    BY <1>2, <1>4, <2>1
  <2> HIDE DEF f
  <2>4. calls' \in Seq(Call)
    BY <2>1, <2>2, <2>3
  <2> QED BY <1>2, <2>4
<1> QED BY <1>3, <1>4

LEMMA TypeAnswer ==
    ASSUME TypeOK, NEW i \in DOMAIN calls, AnswerStep(i) \/ FailCall(i)
    PROVE  TypeOK'
<1> USE DEF server, storage, line, page, history
<1>1. calls \in Seq(Call) /\ calls[i] \in Call /\ Without(i) \in Seq(Call)
  BY CallTaken DEF TypeOK
<1>2. CASE Refuse(i)
  <2>1. calls' \in Seq(Call)
    BY <1>1, <1>2, CallRefused DEF Refuse
  <2> QED BY <1>2, <2>1 DEF Refuse, TypeOK
<1>3. CASE Serve(i)
  <2>1. calls' \in Seq(Call)
    BY <1>3, ServedCalls
  <2> QED BY <1>3, <2>1 DEF Serve, TypeOK
<1>4. CASE ServeMark(i)
  <2>1. note' \in [Notes -> {"free", "unread", "read"}]
    BY <1>4 DEF ServeMark, TypeOK
  <2> QED BY <1>1, <1>4, <2>1 DEF ServeMark, TypeOK
<1>5. CASE Ignore(i)
  BY <1>1, <1>5 DEF Ignore, TypeOK
<1>6. CASE ShowList(i)
  <2>1. list' \in [shown : ListViews, timer : BOOLEAN]
    BY <1>1, <1>6 DEF ShowList, TypeOK, Call
  <2>2. excuse' \subseteq Excuses
    BY <1>6 DEF ShowList, TypeOK, Switched, Excuses
  <2> QED BY <1>1, <1>6, <2>1, <2>2 DEF ShowList, TypeOK
<1>7. CASE ShowBell(i)
  <2>1. bell' \in [items : BellViews, loaded : BOOLEAN]
    BY <1>1, <1>7 DEF ShowBell, TypeOK, Call
  <2> QED BY <1>1, <1>7, <2>1 DEF ShowBell, TypeOK
<1>8. CASE StoreRenewed(i)
  <2>1. Renewed(calls[i]) \in Someone
    BY <1>1 DEF Renewed, Call
  <2>2. socket' \in Socket /\ token' \in Someone
    BY <1>8, <2>1, Resynced DEF StoreRenewed, WriteToken, TypeOK
  <2>3. /\ wire' \in Seq({"changed"} \cup Notes)
        /\ excuse' \subseteq Excuses /\ unseen' \subseteq Notes
    BY <1>8, WireLost DEF StoreRenewed
  <2> QED BY <1>1, <1>8, <2>2, <2>3 DEF StoreRenewed, TypeOK
<1>9. CASE LogOut(i)
  <2>1. NewDocument /\ token' = NoOne /\ UNCHANGED <<account, rows, unsent, note, unpushed, moves>>
    BY <1>9 DEF LogOut
  <2>2. /\ home' = FALSE /\ wired' = FALSE /\ nudge' = FALSE
        /\ socket' \in Socket
        /\ wire' \in Seq({"changed"} \cup Notes) /\ calls' \in Seq(Call)
        /\ list' \in [shown : ListViews, timer : BOOLEAN]
        /\ bell' \in [items : BellViews, loaded : BOOLEAN]
        /\ orphans' \in Nat
        /\ excuse' = {} /\ unseen' = {}
    BY <2>1, DocumentReplaced
  <2> QED BY <2>1, <2>2 DEF TypeOK, Someone
<1>10. CASE FailCall(i)
  <2>1. excuse' \subseteq Excuses /\ moves' \in 0..MaxMoves
    BY <1>10 DEF FailCall, Move, TypeOK, Excuses
  <2> QED BY <1>1, <1>10, <2>1 DEF FailCall, TypeOK
<1> QED BY <1>2, <1>3, <1>4, <1>5, <1>6, <1>7, <1>8, <1>9, <1>10 DEF AnswerStep

LEMMA TypeInit == Init => TypeOK
<1> SUFFICES ASSUME Init PROVE TypeOK
  OBVIOUS
<1>1. account \in [Users -> [active : BOOLEAN, staff : BOOLEAN, holds : BOOLEAN]]
  BY DEF Init
<1>2. NoSocket \in Socket
  BY NoConnection
<1>3. note \in [Notes -> {"free", "unread", "read"}]
  BY DEF Init
<1>4. list \in [shown : ListViews, timer : BOOLEAN] /\ bell \in [items : BellViews, loaded : BOOLEAN]
  BY EmptyViews DEF Init
<1>5. socket \in Socket
  BY <1>2 DEF Init
<1>6. /\ rows = {} /\ unsent = {} /\ unpushed = {} /\ token \in Someone
      /\ nudge = FALSE /\ home = FALSE /\ wired = FALSE
      /\ wire = <<>> /\ calls = <<>> /\ orphans = 0
      /\ excuse = {} /\ unseen = {} /\ moves = MaxMoves
  BY DEF Init
<1>7. wire \in Seq({"changed"} \cup Notes) /\ calls \in Seq(Call) /\ moves \in 0..MaxMoves
  BY <1>6
<1> QED BY <1>1, <1>3, <1>4, <1>5, <1>6, <1>7 DEF TypeOK

LEMMA TypeNext == TypeOK /\ [Next]_vars => TypeOK'
<1> SUFFICES ASSUME TypeOK, [Next]_vars PROVE TypeOK'
  OBVIOUS
<1>1. CASE UNCHANGED vars
  <2>1. /\ UNCHANGED <<account, rows, unsent, note, unpushed, token, nudge>>
        /\ UNCHANGED <<home, wired, socket, wire, calls, list, orphans, bell, excuse, unseen, moves>>
    BY <1>1 DEF vars, server, storage, line, page, history
  <2> QED BY <2>1 DEF TypeOK
<1>2. CASE ServerStep
  BY <1>2, TypeServer
<1>3. CASE AuthStep
  BY <1>3, TypeAuth
<1>4. CASE PageStep
  BY <1>4, TypePage, TypeAnswer DEF PageStep
<1> QED BY <1>1, <1>2, <1>3, <1>4 DEF Next, AllServed

(* Every reachable state of a page is well formed.                         *)
THEOREM TypeCorrect == Spec => []TypeOK
BY TypeInit, TypeNext, PTL DEF Spec


-----------------------------------------------------------------------------
(* What a step does to the calls in flight *)

LEMMA SameCalls ==
    ASSUME calls' = calls
    PROVE  InFlight' = InFlight /\ LiveLists' = LiveLists /\ LiveBells' = LiveBells
BY DEF InFlight, LiveLists, LiveBells

LEMMA CallsTyped == TypeOK => calls \in Seq(Call) /\ InFlight \subseteq Call
BY EntriesOf DEF TypeOK, InFlight

LEMMA CallAdded ==
    ASSUME TypeOK, NEW c \in Call, calls' = Append(calls, c)
    PROVE  InFlight' = InFlight \cup {c}
BY EntryAdded, CallsTyped DEF InFlight

LEMMA CallGone ==
    ASSUME TypeOK, NEW i \in DOMAIN calls, calls' = Without(i)
    PROVE  /\ calls[i] \in InFlight
           /\ InFlight' \subseteq InFlight
           /\ \A c \in InFlight : c # calls[i] => c \in InFlight'
           /\ calls[i] \notin LiveLists => LiveLists' = LiveLists
           /\ calls[i] \notin LiveBells => LiveBells' = LiveBells
<1>1. calls[i] \in InFlight
  BY DEF InFlight, Range
<1>2. /\ InFlight' \subseteq InFlight
      /\ \A c \in InFlight : c # calls[i] => c \in InFlight'
  BY CallTaken, CallsTyped DEF InFlight
<1> QED BY <1>1, <1>2 DEF LiveLists, LiveBells

(* Every call goes over into one that differs from it in a given way.      *)
LEMMA CallsMapped ==
    ASSUME TypeOK, DOMAIN calls' = DOMAIN calls
    PROVE  /\ \A c \in InFlight' : \E j \in DOMAIN calls : c = calls'[j] /\ calls[j] \in InFlight
           /\ \A j \in DOMAIN calls : calls[j] \in InFlight /\ calls'[j] \in InFlight'
BY DEF InFlight, Range

LEMMA AllOrphaned ==
    ASSUME TypeOK, Unmount
    PROVE  \A c \in InFlight' : ~c.live
<1>1. DOMAIN calls' = DOMAIN calls /\ \A j \in DOMAIN calls : calls'[j] = [calls[j] EXCEPT !.live = FALSE]
  BY DEF Unmount
<1>2. \A c \in InFlight' : \E j \in DOMAIN calls : c = calls'[j] /\ calls[j] \in InFlight
  BY <1>1, CallsMapped
<1>3. \A d \in Call : ~[d EXCEPT !.live = FALSE].live
  BY DEF Call
<1>4. ASSUME NEW c \in InFlight' PROVE ~c.live
  <2>1. PICK j \in DOMAIN calls : c = calls'[j] /\ calls[j] \in InFlight
    BY <1>2
  <2>2. c = [calls[j] EXCEPT !.live = FALSE] /\ calls[j] \in Call
    BY <1>1, <2>1, CallsTyped
  <2> QED BY <1>3, <2>2
<1> QED BY <1>4

LEMMA RefusedCall ==
    ASSUME TypeOK, NEW i \in DOMAIN calls, Refuse(i)
    PROVE  /\ DOMAIN calls' = DOMAIN calls
           /\ calls'[i] = [calls[i] EXCEPT !.state = "refused"]
           /\ \A j \in DOMAIN calls : j # i => calls'[j] = calls[j]
BY CallsTyped DEF Refuse

LEMMA HeededCalls ==
    ASSUME TypeOK, NEW i \in DOMAIN calls, Serve(i), Heeded(calls[i])
    PROVE  /\ DOMAIN calls' = DOMAIN calls
           /\ calls'[i] = ServedAs(calls[i])
           /\ \A j \in DOMAIN calls : j # i =>
                calls'[j] = [calls[j] EXCEPT !.late = @ \/ Overtakes(calls[i], calls[j])]
BY ServedCalls

(* What an answer and an overtaking leave as it is. *)
LEMMA ServedFields ==
    ASSUME NEW c \in Call
    PROVE  /\ ServedAs(c).kind = c.kind /\ ServedAs(c).by = c.by /\ ServedAs(c).live = c.live
           /\ ServedAs(c).state = "served" /\ ServedAs(c).late = c.late
           /\ c.kind = "list" => ServedAs(c).shown = Visible(c.by)
           /\ c.kind = "bell" => ServedAs(c).items = Feed(c.by)
BY DEF ServedAs, Call

LEMMA OlderFields ==
    ASSUME NEW c \in Call, NEW b
    PROVE  /\ [c EXCEPT !.late = b].kind = c.kind /\ [c EXCEPT !.late = b].by = c.by
           /\ [c EXCEPT !.late = b].live = c.live /\ [c EXCEPT !.late = b].state = c.state
           /\ [c EXCEPT !.late = b].shown = c.shown /\ [c EXCEPT !.late = b].items = c.items
           /\ [c EXCEPT !.late = b].late = b
BY DEF Call

LEMMA RefusedFields ==
    ASSUME NEW c \in Call
    PROVE  LET d == [c EXCEPT !.state = "refused"]
           IN  d.kind = c.kind /\ d.by = c.by /\ d.live = c.live /\ d.state = "refused"
BY DEF Call

LEMMA AskedFields ==
    ASSUME NEW kind
    PROVE  /\ Asked(kind).kind = kind /\ Asked(kind).by = token
           /\ Asked(kind).live /\ Asked(kind).state = "asked"
BY DEF Asked

LEMMA MarkFields ==
    ASSUME NEW N
    PROVE  [Asked("mark") EXCEPT !.on = N].kind = "mark"
BY DEF Asked

(* The three calls of a page that opens. *)
LEMMA PageOpened ==
    ASSUME TypeOK, Open
    PROVE  InFlight' = InFlight \cup {Asked("refresh"), Asked("list"), Asked("bell")}
<1> DEFINE s == <<Asked("refresh"), Asked("list"), Asked("bell")>>
<1>1. s \in Seq(Call)
  BY NewCall DEF TypeOK, Kinds
<1>2. Range(s) = {Asked("refresh"), Asked("list"), Asked("bell")}
  <2>1. DOMAIN s = 1..3
    OBVIOUS
  <2>2. 1..3 = {1, 2, 3}
    OBVIOUS
  <2> QED BY <2>1, <2>2 DEF Range
<1>3. calls' = calls \o s
  BY DEF Open
<1> HIDE DEF s
<1>4. Range(calls \o s) = Range(calls) \cup Range(s)
  BY <1>1, CallsTyped, RangeConcatenation
<1> QED BY <1>2, <1>3, <1>4 DEF InFlight

LEMMA NobodyWaits ==
    ASSUME NewDocument PROVE InFlight' = {}
BY DEF NewDocument, InFlight, Range

LEMMA TimerFired ==
    ASSUME TypeOK, FireTimer
    PROVE  InFlight' = InFlight \cup {Asked("list")}
BY NewCall, CallAdded DEF FireTimer, TypeOK, Kinds

(* A call that nobody waits for. *)
LEMMA OrphanFired ==
    ASSUME TypeOK, FireOrphan
    PROVE  /\ \A c \in InFlight' : c \in InFlight \/ ~c.live
           /\ LiveLists' = LiveLists /\ LiveBells' = LiveBells
<1> DEFINE e == [Asked("list") EXCEPT !.live = FALSE]
<1>1. e \in Call /\ ~e.live
  <2>1. Asked("list") \in Call
    BY NewCall DEF TypeOK, Kinds
  <2> QED BY <2>1, CallOrphaned DEF Call
<1>2. calls' = Append(calls, e)
  BY DEF FireOrphan
<1> HIDE DEF e
<1>3. InFlight' = InFlight \cup {e}
  BY <1>1, <1>2, CallAdded
<1> QED BY <1>1, <1>3 DEF LiveLists, LiveBells

LEMMA MarkAsked ==
    ASSUME TypeOK, Mark
    PROVE  LiveLists' = LiveLists /\ LiveBells' = LiveBells
<1>1. PICK N \in {Notes} \cup {{n} : n \in Notes} :
        calls' = Append(calls, [Asked("mark") EXCEPT !.on = N])
  BY DEF Mark
<1>2. [Asked("mark") EXCEPT !.on = N] \in Call
  <2>1. token \in Someone /\ N \in SUBSET Notes
    BY DEF TypeOK
  <2> QED BY <2>1, MarkCall
<1>3. InFlight' = InFlight \cup {[Asked("mark") EXCEPT !.on = N]}
  BY <1>1, <1>2, CallAdded
<1> QED BY <1>3, MarkFields DEF LiveLists, LiveBells


-----------------------------------------------------------------------------
(* What keeps a page fresh *)

(* Without pages nothing is shown, no timer runs and nobody waits.         *)
MountInv ==
    /\ ~home => list = EmptyList /\ bell = EmptyBell /\ \A c \in InFlight : ~c.live
    /\ home => wired
    /\ ~wired => socket = NoSocket

(* The list will be fetched again.                                         *)
Reloading == list.timer \/ "changed" \in Range(wire)

(* What the list would show if it were fetched now, as far as it has been  *)
(* told of it.                                                             *)
Current(S) == Visible(token) \ unsent \subseteq S /\ S \subseteq Visible(token)

(* An answer that is not late is current, or the list is fetched again; a  *)
(* late one on its way does not count, for it leaves an excuse behind.     *)
FreshInv ==
    home /\ token # NoOne =>
      /\ excuse \subseteq {"overtaken"} =>
           \A c \in LiveLists : c.state = "served" /\ ~c.late /\ c.by = token =>
             Current(c.shown) \/ Reloading \/ \E d \in LiveLists : d.state # "served"
      /\ excuse = {} => Current(list.shown) \/ Reloading \/ LiveLists # {}

(* Where a notification can be: not emitted yet, on the wire, in the bell, *)
(* or among those the page will never be told of.                          *)
Accounted(n) ==
    n \in unpushed \/ n \in Range(wire) \/ bell.items[n] # "absent" \/ n \in unseen

(* An answer that is still to be shown has what the bell lacks; one that   *)
(* is still to be given will have it if it is given to the account that is *)
(* signed in.                                                              *)
BellInv ==
    home /\ token # NoOne =>
      \A n \in NotesOf(token) :
        /\ bell.loaded => Accounted(n)
        /\ \A c \in LiveBells :
             /\ c.state = "served" => Accounted(n) \/ c.items[n] # "absent"
             /\ c.state = "asked" /\ c.by # token => Accounted(n)

DeskInv == TypeOK /\ MountInv /\ SocketFollowsTheToken /\ FreshInv /\ BellInv


-----------------------------------------------------------------------------
(* Pages and connections *)

(* Nobody comes to wait for an answer that was given up.                   *)
LEMMA NotRevived ==
    ASSUME TypeOK, NEW i \in DOMAIN calls, AnswerStep(i) \/ FailCall(i), ~LogOut(i)
    PROVE  \A c \in InFlight' : c.live => \E d \in InFlight : d.live
<1>1. CASE Refuse(i)
  <2> SUFFICES ASSUME NEW c \in InFlight', c.live PROVE \E d \in InFlight : d.live
    OBVIOUS
  <2>1. DOMAIN calls' = DOMAIN calls
    BY <1>1, RefusedCall
  <2>2. PICK j \in DOMAIN calls : c = calls'[j] /\ calls[j] \in InFlight
    BY <2>1, CallsMapped
  <2>3. c = calls[j] \/ c = [calls[j] EXCEPT !.state = "refused"]
    BY <1>1, <2>2, RefusedCall
  <2>4. calls[j].live
    BY <2>2, <2>3, RefusedFields, CallsTyped
  <2> QED BY <2>2, <2>4
<1>2. CASE Serve(i) /\ Heeded(calls[i])
  <2> SUFFICES ASSUME NEW c \in InFlight', c.live PROVE \E d \in InFlight : d.live
    OBVIOUS
  <2>1. DOMAIN calls' = DOMAIN calls
    BY <1>2, HeededCalls
  <2>2. PICK j \in DOMAIN calls : c = calls'[j] /\ calls[j] \in InFlight
    BY <2>1, CallsMapped
  <2>3. CASE j = i
    <3>1. c = ServedAs(calls[j]) /\ calls[j] \in Call
      BY <1>2, <2>2, <2>3, HeededCalls, CallsTyped
    <3> QED BY <2>2, <3>1, ServedFields
  <2>4. CASE j # i
    <3> DEFINE b == calls[j].late \/ Overtakes(calls[i], calls[j])
    <3>1. c = [calls[j] EXCEPT !.late = b] /\ calls[j] \in Call
      BY <1>2, <2>2, <2>4, HeededCalls, CallsTyped
    <3> HIDE DEF b
    <3> QED BY <2>2, <3>1, OlderFields
  <2> QED BY <2>3, <2>4
<1>3. CASE calls' = Without(i)
  BY <1>3, CallGone
<1>4. CASE Serve(i) /\ ~Heeded(calls[i])
  BY <1>3, <1>4, ServedCalls
<1> QED BY <1>1, <1>2, <1>3, <1>4
        DEF AnswerStep, ServeMark, Ignore, ShowList, ShowBell, StoreRenewed, FailCall

LEMMA MountKept ==
    ASSUME MountInv, UNCHANGED <<home, wired, list, bell>>,
           \A c \in InFlight' : c.live => \E d \in InFlight : d.live,
           ~wired => socket' = socket
    PROVE  MountInv'
BY DEF MountInv

LEMMA MountGone ==
    ASSUME TypeOK, MountInv, Unmount, wired' = wired, ~wired => socket' = NoSocket
    PROVE  MountInv'
BY AllOrphaned DEF MountInv, Unmount, EmptyList, EmptyBell

LEMMA MountReplaced ==
    ASSUME NewDocument PROVE MountInv'
BY NobodyWaits DEF NewDocument, MountInv, EmptyList, EmptyBell, NoSocket

LEMMA MountNext ==
    ASSUME TypeOK, MountInv, [Next]_vars
    PROVE  MountInv'
<1> USE DEF server, storage, line, page, history
<1>1. CASE ServerStep \/ UNCHANGED vars \/ Handshake \/ DropSocket
  <2>1. UNCHANGED <<home, wired, list, bell, calls>>
    BY <1>1 DEF vars, ServerStep, Change, EmitRequestChanged, KeepQuiet, ChangeAccount, CreateNote, EmitNote,
                Join, Handshake, DropSocket
  <2>2. ~wired => socket' = socket
    BY <1>1 DEF vars, ServerStep, Change, EmitRequestChanged, KeepQuiet, ChangeAccount, CreateNote, EmitNote,
                Join, Handshake, DropSocket, MountInv, NoSocket
  <2> QED BY <2>1, <2>2, SameCalls, MountKept
<1>2. ASSUME NEW u \in Users, SignIn(u) PROVE MountInv'
  <2>1. UNCHANGED <<home, wired, list, bell, calls>> /\ (~wired => socket' = socket)
    BY <1>2 DEF SignIn, WriteToken
  <2> QED BY <2>1, SameCalls, MountKept
<1>3. ASSUME NEW t \in Someone, WriteElsewhere(t) PROVE MountInv'
  <2>1. UNCHANGED <<home, wired, list, bell, calls>> /\ (~wired => socket' = socket)
    BY <1>3 DEF WriteElsewhere
  <2> QED BY <2>1, SameCalls, MountKept
<1>4. CASE Open
  BY <1>4 DEF Open, MountInv
<1>5. CASE SignOut
  <2>1. Unmount /\ wired' = wired /\ (~wired => socket' = NoSocket)
    BY <1>5 DEF SignOut, WriteToken, MountInv
  <2> QED BY <2>1, MountGone
<1>6. CASE StorageEvent
  <2>1. wired' = wired /\ (~wired => socket' = socket)
    BY <1>6 DEF StorageEvent
  <2>2. CASE home /\ token = NoOne
    BY <1>6, <2>1, <2>2, MountGone DEF StorageEvent, MountInv
  <2>3. CASE ~(home /\ token = NoOne)
    <3>1. UNCHANGED <<home, list, bell, calls>>
      BY <1>6, <2>3 DEF StorageEvent
    <3> QED BY <2>1, <3>1, SameCalls, MountKept
  <2> QED BY <2>2, <2>3
<1>7. CASE Reload
  BY <1>7, MountReplaced DEF Reload
<1>8. CASE Receive
  <2>1. UNCHANGED <<home, wired, socket, calls>> /\ (~home => list' = list /\ bell' = bell)
    BY <1>8 DEF Receive
  <2>2. InFlight' = InFlight
    BY <2>1, SameCalls
  <2> QED BY <2>1, <2>2 DEF MountInv, EmptyList, EmptyBell
<1>9. CASE FireTimer
  <2>1. home
    BY <1>9 DEF FireTimer, MountInv, EmptyList
  <2> QED BY <1>9, <2>1 DEF FireTimer, MountInv
<1>10. CASE Mark
  BY <1>10 DEF Mark, MountInv
<1>11. ASSUME NEW i \in DOMAIN calls, AnswerStep(i) \/ FailCall(i) PROVE MountInv'
  <2>1. CASE LogOut(i)
    BY <2>1, MountReplaced DEF LogOut
  <2>2. CASE ~LogOut(i)
    <3>1. \A c \in InFlight' : c.live => \E d \in InFlight : d.live
      BY <1>11, <2>2, NotRevived
    <3>2. calls[i] \in InFlight
      BY DEF InFlight, Range
    <3>3. CASE ShowList(i) \/ ShowBell(i)
      <4>1. home
        BY <3>2, <3>3 DEF ShowList, ShowBell, Answered, Heeded, MountInv
      <4> QED BY <3>3, <4>1 DEF ShowList, ShowBell, MountInv
    <3>4. CASE ~(ShowList(i) \/ ShowBell(i))
      <4>1. UNCHANGED <<home, wired, list, bell>> /\ (~wired => socket' = socket)
        BY <1>11, <2>2, <3>4 DEF AnswerStep, Refuse, Serve, ServeMark, Ignore, StoreRenewed, FailCall, WriteToken
      <4> QED BY <3>1, <4>1, MountKept
    <3> QED BY <3>3, <3>4
  <2> QED BY <2>1, <2>2
<1>12. CASE FireOrphan
  <2>1. UNCHANGED <<home, wired, list, bell, socket>>
    BY <1>12 DEF FireOrphan
  <2>2. \A c \in InFlight' : c.live => \E d \in InFlight : d.live
    BY <1>12, OrphanFired
  <2> QED BY <2>1, <2>2, MountKept
<1> QED BY <1>1, <1>2, <1>3, <1>4, <1>5, <1>6, <1>7, <1>8, <1>9, <1>10, <1>11, <1>12
        DEF Next, AllServed, AuthStep, PageStep

LEMMA MountInit == Init => MountInv
BY DEF Init, MountInv, EmptyList, EmptyBell, InFlight, Range

(* A resync leaves no connection of an older account that counts.          *)
LEMMA ResyncedAs ==
    ASSUME TypeOK, NEW t, Resync(t), socket'.state \in {"joining", "joined"}
    PROVE  socket'.crossed
<1>1. NoSocket.state = "off" /\ Opening.state = "opening"
  BY DEF NoSocket, Opening
<1>2. socket' = [socket EXCEPT !.crossed = TRUE]
  BY <1>1 DEF Resync
<1> QED BY <1>2 DEF TypeOK, Socket

LEMMA SocketNext ==
    ASSUME TypeOK, MountInv, SocketFollowsTheToken, [Next]_vars
    PROVE  SocketFollowsTheToken'
<1> USE DEF server, storage, line, page, history
<1>1. NoSocket.state = "off" /\ Opening.state = "opening"
  BY DEF NoSocket, Opening
<1>2. CASE UNCHANGED <<socket, token, nudge>>
  BY <1>2 DEF SocketFollowsTheToken
<1>3. CASE Join
  <2>1. CASE socket.as # NoOne /\ account[socket.as].active
    <3>1. socket' = [socket EXCEPT !.state = "joined", !.staff = account[socket.as].staff]
      BY <1>3, <2>1 DEF Join
    <3>2. socket'.as = socket.as /\ socket'.crossed = socket.crossed
      BY <3>1 DEF TypeOK, Socket
    <3> QED BY <1>3, <3>2 DEF Join, SocketFollowsTheToken
  <2>2. CASE ~(socket.as # NoOne /\ account[socket.as].active)
    BY <1>1, <1>3, <2>2 DEF Join, SocketFollowsTheToken
  <2> QED BY <2>1, <2>2
<1>4. CASE Handshake
  <2>1. socket'.as = token
    BY <1>4 DEF Handshake, TypeOK, Socket
  <2> QED BY <1>4, <2>1 DEF Handshake, SocketFollowsTheToken
<1>5. CASE DropSocket
  BY <1>1, <1>5 DEF DropSocket, SocketFollowsTheToken
<1>6. ASSUME NEW t, WriteToken(t) PROVE SocketFollowsTheToken'
  <2>1. CASE wired
    BY <1>6, <2>1, ResyncedAs DEF WriteToken, SocketFollowsTheToken
  <2>2. CASE ~wired
    BY <1>1, <1>6, <2>2 DEF WriteToken, SocketFollowsTheToken, MountInv
  <2> QED BY <2>1, <2>2
<1>7. CASE StorageEvent
  <2>1. CASE wired
    BY <1>7, <2>1, ResyncedAs DEF StorageEvent, SocketFollowsTheToken
  <2>2. CASE ~wired
    BY <1>1, <1>7, <2>2 DEF StorageEvent, SocketFollowsTheToken, MountInv
  <2> QED BY <2>1, <2>2
<1>8. CASE Open
  BY <1>1, <1>8 DEF Open, SocketFollowsTheToken
<1>9. CASE NewDocument
  BY <1>1, <1>9 DEF NewDocument, SocketFollowsTheToken
<1>10. ASSUME NEW t, WriteElsewhere(t) PROVE SocketFollowsTheToken'
  BY <1>10 DEF WriteElsewhere, SocketFollowsTheToken
<1>11. CASE ServerStep \/ UNCHANGED vars
  BY <1>2, <1>3, <1>11
     DEF vars, ServerStep, Change, EmitRequestChanged, KeepQuiet, ChangeAccount, CreateNote, EmitNote
<1>12. CASE AuthStep
  BY <1>6, <1>7, <1>8, <1>9, <1>10, <1>12 DEF AuthStep, SignIn, SignOut, Reload
<1>13. CASE Receive \/ FireTimer \/ FireOrphan \/ Mark
  BY <1>2, <1>13 DEF Receive, FireTimer, FireOrphan, Mark
<1>14. ASSUME NEW i \in DOMAIN calls, AnswerStep(i) \/ FailCall(i) PROVE SocketFollowsTheToken'
  BY <1>2, <1>6, <1>9, <1>14
     DEF AnswerStep, Refuse, Serve, ServeMark, Ignore, ShowList, ShowBell, StoreRenewed, LogOut, FailCall
<1> QED BY <1>4, <1>5, <1>11, <1>12, <1>13, <1>14 DEF Next, AllServed, PageStep

LEMMA SocketInit == Init => SocketFollowsTheToken
BY DEF Init, SocketFollowsTheToken, NoSocket

(* The connection of a page belongs to the account whose token is stored.  *)
THEOREM SocketProved == Spec => []SocketFollowsTheToken
<1>1. Init => TypeOK /\ MountInv /\ SocketFollowsTheToken
  BY TypeInit, MountInit, SocketInit
<1>2. TypeOK /\ MountInv /\ SocketFollowsTheToken /\ [Next]_vars
        => (TypeOK /\ MountInv /\ SocketFollowsTheToken)'
  BY TypeNext, MountNext, SocketNext
<1> QED BY <1>1, <1>2, PTL DEF Spec


-----------------------------------------------------------------------------
(* The list *)

LEMMA FreshKept ==
    ASSUME FreshInv, home' => home, UNCHANGED <<token, account, rows, unsent>>,
           home' => list'.shown = list.shown,
           excuse \subseteq excuse',
           excuse' \subseteq {"overtaken"} /\ Reloading => Reloading',
           LiveLists' = LiveLists
    PROVE  FreshInv'
<1>1. Visible(token)' = Visible(token)
  BY DEF Visible
<1>2. \A S : Current(S)' <=> Current(S)
  BY <1>1 DEF Current
<1> QED BY <1>2 DEF FreshInv

LEMMA FreshExcused ==
    ASSUME home' /\ token' # NoOne => ~(excuse' \subseteq {"overtaken"})
    PROVE  FreshInv'
BY DEF FreshInv

(* A connection that is cut takes its signals with it.                     *)
LEMMA SignalsLost ==
    ASSUME NEW t, LoseWire(t)
    PROVE  /\ excuse \subseteq excuse'
           /\ t # token => "switched" \in excuse'
           /\ excuse' \subseteq {"overtaken"} => "changed" \notin Range(wire)
BY DEF LoseWire, Switched

LEMMA RangeOfSignal ==
    ASSUME TypeOK, NEW r \in Requests, NEW U, wire' = wire \o Signal(r, U)
    PROVE  /\ Range(wire) \subseteq Range(wire')
           /\ InStaffRoom \/ (\E u \in U : InUserRoom(u)) => "changed" \in Range(wire')
<1>1. wire \in Seq({"changed"} \cup Notes) /\ Signal(r, U) \in Seq({"changed"} \cup Notes)
  BY SignalTyped DEF TypeOK
<1>2. Range(wire') = Range(wire) \cup Range(Signal(r, U))
  BY <1>1, RangeConcatenation
<1>3. ASSUME InStaffRoom \/ \E u \in U : InUserRoom(u) PROVE "changed" \in Range(Signal(r, U))
  <2> DEFINE s == SignalToStaff(r)
             t == IF \E u \in U : InUserRoom(u) THEN <<"changed">> ELSE <<>>
  <2>1. <<"changed">> \in Seq({"changed"}) /\ <<>> \in Seq({"changed"})
    OBVIOUS
  <2>2. s \in Seq({"changed"}) /\ t \in Seq({"changed"})
    BY <2>1 DEF SignalToStaff
  <2>3. s = <<"changed">> \/ t = <<"changed">>
    BY <1>3 DEF SignalToStaff
  <2>4. "changed" \in Range(<<"changed">>)
    <3>1. DOMAIN <<"changed">> = {1}
      OBVIOUS
    <3> QED BY <3>1 DEF Range
  <2>5. Signal(r, U) = s \o t
    BY DEF Signal
  <2> HIDE DEF s, t
  <2>6. Range(s \o t) = Range(s) \cup Range(t)
    BY <2>2, RangeConcatenation
  <2>7. "changed" \in Range(s) \cup Range(t)
    BY <2>3, <2>4
  <2> QED BY <2>5, <2>6, <2>7
<1> QED BY <1>2, <1>3

(* Whoever sees a request is told of its change or counts as untold, if    *)
(* the connection has joined the rooms of the account as it is.            *)
LEMMA ToldOfChange ==
    ASSUME TypeOK, token # NoOne, JoinedAsIs(token), NEW r \in Visible(token), NEW U
    PROVE  \/ InStaffRoom \/ \E u \in U : InUserRoom(u)
           \/ "unsignalled" \in Untold(r, U)
<1>1. token \in Users
  BY DEF TypeOK, Someone
<1> QED BY <1>1 DEF JoinedAsIs, InUserRoom, InStaffRoom, Untold

(* A change of what the account does not see is over.                      *)
LEMMA FreshUnseen ==
    ASSUME FreshInv, NEW r, r \notin Visible(token), UNCHANGED <<token, home, list>>,
           Visible(token)' = Visible(token), LiveLists' = LiveLists,
           unsent' = unsent \ {r}, excuse \subseteq excuse', Reloading => Reloading'
    PROVE  FreshInv'
<1>1. \A S : Current(S) => Current(S)'
  BY DEF Current
<1>2. excuse' \subseteq {"overtaken"} => excuse \subseteq {"overtaken"}
  OBVIOUS
<1>3. excuse' = {} => excuse = {}
  OBVIOUS
<1> QED BY <1>1, <1>2, <1>3 DEF FreshInv

LEMMA FreshSignalled ==
    ASSUME TypeOK, FreshInv, NEW r \in Requests, EmitRequestChanged(r)
    PROVE  FreshInv'
<1> USE DEF server, storage, line, page, history
<1>1. PICK U :
      /\ UNCHANGED <<token, account, rows, home, list, calls>> /\ unsent' = unsent \ {r}
      /\ wire' = wire \o Signal(r, U) /\ excuse \subseteq excuse' /\ Untold(r, U) \subseteq excuse'
      /\ token # NoOne /\ ~JoinedAsIs(token) => "missed" \in excuse'
  BY DEF EmitRequestChanged
<1>2. Reloading => Reloading'
  BY <1>1, RangeOfSignal DEF Reloading
<1>3. Visible(token)' = Visible(token) /\ LiveLists' = LiveLists
  BY <1>1, SameCalls DEF Visible
<1>4. CASE ~(token # NoOne) \/ ~JoinedAsIs(token)
  BY <1>1, <1>4, FreshExcused
<1>5. CASE token # NoOne /\ JoinedAsIs(token) /\ r \in Visible(token)
  <2>1. CASE "unsignalled" \in Untold(r, U)
    BY <1>1, <2>1, FreshExcused
  <2>2. CASE "unsignalled" \notin Untold(r, U)
    <3>1. Reloading'
      BY <1>1, <1>5, <2>2, ToldOfChange, RangeOfSignal DEF Reloading
    <3> QED BY <3>1 DEF FreshInv
  <2> QED BY <2>1, <2>2
<1>6. CASE r \notin Visible(token)
  BY <1>1, <1>2, <1>3, <1>6, FreshUnseen
<1> QED BY <1>4, <1>5, <1>6

LEMMA FreshKeptQuiet ==
    ASSUME TypeOK, FreshInv, NEW r \in Requests, KeepQuiet(r)
    PROVE  FreshInv'
<1> USE DEF server, storage, line, page, history
<1>1. /\ UNCHANGED <<token, account, rows, home, list, calls, wire>> /\ unsent' = unsent \ {r}
      /\ excuse' = excuse \cup
            IF token \in Users /\ r \in Visible(token) THEN {"unsignalled"} ELSE {}
  BY DEF KeepQuiet
<1>2. CASE r \in Visible(token)
  <2>1. token # NoOne => "unsignalled" \in excuse'
    BY <1>1, <1>2 DEF TypeOK, Someone
  <2> QED BY <1>1, <2>1, FreshExcused
<1>3. CASE r \notin Visible(token)
  <2>1. Visible(token)' = Visible(token) /\ LiveLists' = LiveLists
    BY <1>1, SameCalls DEF Visible
  <2>2. Reloading => Reloading'
    BY <1>1 DEF Reloading
  <2> QED BY <1>1, <1>3, <2>1, <2>2, FreshUnseen
<1> QED BY <1>2, <1>3

LEMMA FreshChanged ==
    ASSUME TypeOK, FreshInv, NEW r \in Requests, Change(r)
    PROVE  FreshInv'
<1> USE DEF server, storage, line, page, history
<1>1. /\ UNCHANGED <<token, account, home, list, wire, calls, excuse>>
      /\ unsent' = unsent \cup {r} /\ rows' = rows \cup {r}
  BY DEF Change
<1>2. Visible(token) \subseteq Visible(token)' /\ Visible(token)' \subseteq Visible(token) \cup {r}
  BY <1>1 DEF Visible
<1>3. \A S : Current(S) => Current(S)'
  BY <1>1, <1>2 DEF Current
<1>4. LiveLists' = LiveLists /\ (Reloading' <=> Reloading)
  BY <1>1, SameCalls DEF Reloading
<1> QED BY <1>1, <1>3, <1>4 DEF FreshInv

LEMMA FreshReceived ==
    ASSUME TypeOK, FreshInv, Receive
    PROVE  FreshInv'
<1> USE DEF server, storage, line, page, history
<1>1. /\ UNCHANGED <<token, account, rows, unsent, home, calls, excuse>>
      /\ wire # <<>> /\ wire' = Tail(wire)
      /\ list'.shown = list.shown /\ (list.timer => list'.timer)
      /\ Head(wire) = "changed" /\ home => list'.timer
  BY DEF Receive, Heard, TypeOK
<1>2. ASSUME home, Reloading PROVE Reloading'
  <2>1. CASE list.timer
    BY <1>1, <2>1 DEF Reloading
  <2>2. CASE "changed" \in Range(wire)
    <3>1. PICK k \in 1..Len(wire) : wire[k] = "changed"
      BY <2>2, EntriesOf DEF TypeOK
    <3>2. CASE k = 1
      <4>1. Head(wire) = "changed"
        BY <1>1, <3>1, <3>2 DEF TypeOK
      <4> QED BY <1>1, <1>2, <4>1 DEF Reloading
    <3>3. CASE k # 1
      <4>1. wire' \in Seq({"changed"} \cup Notes) /\ k - 1 \in 1..Len(wire') /\ wire'[k - 1] = wire[k]
        BY <1>1, <3>1, <3>3 DEF TypeOK
      <4>2. "changed" \in Range(wire')
        BY <3>1, <4>1, EntriesOf
      <4> QED BY <4>2 DEF Reloading
    <3> QED BY <3>2, <3>3
  <2> QED BY <1>2, <2>1, <2>2 DEF Reloading
<1>3. CASE home
  BY <1>1, <1>2, <1>3, SameCalls, FreshKept
<1>4. CASE ~home
  BY <1>1, <1>4, FreshExcused
<1> QED BY <1>3, <1>4

(* A new load is under way.                                                *)
LEMMA FreshAsked ==
    ASSUME token' = token, InFlight' = InFlight \cup {Asked("list")}
    PROVE  FreshInv'
<1>1. Asked("list") \in LiveLists' /\ Asked("list").state # "served"
  BY AskedFields DEF LiveLists
<1> QED BY <1>1 DEF FreshInv

LEMMA FreshRefused ==
    ASSUME TypeOK, FreshInv, NEW i \in DOMAIN calls, Refuse(i)
    PROVE  FreshInv'
<1> USE DEF server, storage, line, page, history
<1>1. UNCHANGED <<token, account, rows, unsent, home, list, wire, excuse>>
  BY DEF Refuse
<1>2. \A S : Current(S)' <=> Current(S)
  BY <1>1 DEF Current, Visible
<1>3. /\ DOMAIN calls' = DOMAIN calls
      /\ \A j \in DOMAIN calls : calls'[j] = calls[j] \/ calls'[j] = [calls[j] EXCEPT !.state = "refused"]
      /\ \A j \in DOMAIN calls : calls[j] \in Call
  <2>1. \A j \in DOMAIN calls : calls[j] \in InFlight
    BY DEF InFlight, Range
  <2> QED BY <2>1, RefusedCall, CallsTyped
<1>4. \A d \in LiveLists : \E e \in LiveLists' : d.state # "served" => e.state # "served"
  <2> SUFFICES ASSUME NEW d \in LiveLists
               PROVE  \E e \in LiveLists' : d.state # "served" => e.state # "served"
    OBVIOUS
  <2>1. PICK j \in DOMAIN calls : d = calls[j]
    BY DEF LiveLists, InFlight, Range
  <2>2. calls'[j] \in InFlight'
    BY <1>3, CallsMapped
  <2>3. calls'[j] \in LiveLists' /\ (d.state # "served" => calls'[j].state # "served")
    <3>1. CASE calls'[j] = d
      BY <2>1, <2>2, <3>1 DEF LiveLists
    <3>2. CASE calls'[j] = [d EXCEPT !.state = "refused"]
      <4> DEFINE e == [d EXCEPT !.state = "refused"]
      <4>1. e.kind = d.kind /\ e.live = d.live /\ e.state = "refused"
        BY <1>3, <2>1, RefusedFields
      <4> HIDE DEF e
      <4>2. calls'[j] = e
        BY <3>2 DEF e
      <4> QED BY <2>2, <4>1, <4>2 DEF LiveLists
    <3> QED BY <1>3, <2>1, <3>1, <3>2
  <2> QED BY <2>3
<1>5. \A c \in LiveLists' : c.state = "served" => c \in LiveLists
  <2> SUFFICES ASSUME NEW c \in LiveLists', c.state = "served" PROVE c \in LiveLists
    OBVIOUS
  <2>1. PICK j \in DOMAIN calls : c = calls'[j] /\ calls[j] \in InFlight
    BY <1>3, CallsMapped DEF LiveLists
  <2>2. c = calls[j]
    BY <1>3, <2>1, RefusedFields
  <2> QED BY <2>1, <2>2 DEF LiveLists
<1>6. Reloading' <=> Reloading
  BY <1>1 DEF Reloading
<1> QED BY <1>1, <1>2, <1>4, <1>5, <1>6 DEF FreshInv

LEMMA FreshServed ==
    ASSUME TypeOK, FreshInv, NEW i \in DOMAIN calls, Serve(i)
    PROVE  FreshInv'
<1> USE DEF server, storage, line, page, history
<1>1. UNCHANGED <<token, account, rows, unsent, home, list, wire, excuse>> /\ calls[i].state = "asked"
  BY DEF Serve, Asking
<1>2. (\A S : Current(S)' <=> Current(S)) /\ (Reloading' <=> Reloading)
  BY <1>1 DEF Current, Visible, Reloading
<1>3. calls[i] \in InFlight /\ InFlight \subseteq Call
  BY CallsTyped DEF InFlight, Range
<1>4. CASE ~Heeded(calls[i])
  <2>1. calls' = Without(i) /\ calls[i] \notin LiveLists
    BY <1>4, ServedCalls DEF Heeded, LiveLists
  <2> QED BY <1>1, <1>2, <2>1, CallGone, FreshKept
<1>5. CASE Heeded(calls[i])
  <2>1. /\ DOMAIN calls' = DOMAIN calls
        /\ calls'[i] = ServedAs(calls[i])
        /\ \A j \in DOMAIN calls : j # i =>
             calls'[j] = [calls[j] EXCEPT !.late = @ \/ Overtakes(calls[i], calls[j])]
    BY <1>5, HeededCalls
  <2>2. /\ \A c \in InFlight' : \E j \in DOMAIN calls : c = calls'[j] /\ calls[j] \in InFlight
        /\ \A j \in DOMAIN calls : calls[j] \in InFlight /\ calls'[j] \in InFlight'
    BY <2>1, CallsMapped
  <2>3. \A j \in DOMAIN calls : calls'[j].kind = calls[j].kind /\ calls'[j].live = calls[j].live
    <3> SUFFICES ASSUME NEW j \in DOMAIN calls
                 PROVE  calls'[j].kind = calls[j].kind /\ calls'[j].live = calls[j].live
      OBVIOUS
    <3>1. calls[j] \in Call
      BY <1>3, <2>2
    <3>2. CASE j = i
      BY <2>1, <3>1, <3>2, ServedFields
    <3>3. CASE j # i
      <4> DEFINE b == calls[j].late \/ Overtakes(calls[i], calls[j])
      <4>1. calls'[j] = [calls[j] EXCEPT !.late = b]
        BY <2>1, <3>3
      <4> HIDE DEF b
      <4> QED BY <3>1, <4>1, OlderFields
    <3> QED BY <3>2, <3>3
  <2>4. LiveLists # {} => LiveLists' # {}
    <3> SUFFICES ASSUME NEW d \in LiveLists PROVE LiveLists' # {}
      OBVIOUS
    <3>1. PICK j \in DOMAIN calls : d = calls[j]
      BY DEF LiveLists, InFlight, Range
    <3>2. calls'[j] \in LiveLists'
      BY <2>2, <2>3, <3>1 DEF LiveLists
    <3> QED BY <3>2
  <2>5. ASSUME NEW j \in DOMAIN calls, j # i
        PROVE  /\ calls'[j].state = calls[j].state /\ calls'[j].by = calls[j].by
               /\ calls'[j].shown = calls[j].shown
               /\ ~calls'[j].late => ~calls[j].late /\ ~Overtakes(calls[i], calls[j])
    <3> DEFINE b == calls[j].late \/ Overtakes(calls[i], calls[j])
    <3>1. calls'[j] = [calls[j] EXCEPT !.late = b] /\ calls[j] \in Call
      BY <1>3, <2>1, <2>2, <2>5
    <3>2. ~b => ~calls[j].late /\ ~Overtakes(calls[i], calls[j])
      OBVIOUS
    <3> HIDE DEF b
    <3> QED BY <3>1, <3>2, OlderFields
  <2>6. ASSUME NEW c \in LiveLists', c.state = "served", ~c.late, c.by = token, home, token # NoOne,
               excuse \subseteq {"overtaken"}
        PROVE  Current(c.shown) \/ Reloading \/ \E d \in LiveLists' : d.state # "served"
    <3>1. PICK j \in DOMAIN calls : c = calls'[j] /\ calls[j] \in InFlight
      BY <2>2 DEF LiveLists
    <3>2. calls[j] \in LiveLists
      BY <2>3, <2>6, <3>1 DEF LiveLists
    <3>3. CASE j = i
      <4>1. c.shown = Visible(token)
        BY <1>3, <2>1, <2>6, <3>1, <3>2, <3>3, ServedFields DEF LiveLists
      <4> QED BY <4>1 DEF Current
    <3>4. CASE j # i
      <4>1. /\ calls[j].state = "served" /\ ~calls[j].late /\ calls[j].by = token
            /\ calls[j].shown = c.shown /\ ~Overtakes(calls[i], calls[j])
        BY <2>5, <2>6, <3>1, <3>4
      <4>2. calls[i].kind # "list"
        BY <3>2, <4>1 DEF Overtakes, LiveLists
      <4>3. CASE Current(c.shown) \/ Reloading
        BY <4>3
      <4>4. CASE \E d \in LiveLists : d.state # "served"
        <5>1. PICK d \in LiveLists : d.state # "served"
          BY <4>4
        <5>2. PICK k \in DOMAIN calls : d = calls[k]
          BY DEF LiveLists, InFlight, Range
        <5>3. k # i
          BY <4>2, <5>2 DEF LiveLists
        <5>4. calls'[k] \in LiveLists' /\ calls'[k].state # "served"
          BY <2>2, <2>3, <2>5, <5>1, <5>2, <5>3 DEF LiveLists
        <5> QED BY <5>4
      <4> QED BY <2>6, <3>2, <4>1, <4>3, <4>4 DEF FreshInv
    <3> QED BY <3>3, <3>4
  <2> QED BY <1>1, <1>2, <2>4, <2>6 DEF FreshInv
<1> QED BY <1>4, <1>5

LEMMA FreshShown ==
    ASSUME TypeOK, FreshInv, NEW i \in DOMAIN calls, ShowList(i)
    PROVE  FreshInv'
<1> USE DEF server, storage, line, page, history
<1>1. /\ UNCHANGED <<token, account, rows, unsent, home, wire>> /\ calls' = Without(i)
      /\ calls[i].state = "served" /\ calls[i].kind = "list" /\ calls[i].live
      /\ list'.shown = calls[i].shown /\ list'.timer = list.timer
      /\ excuse' = (excuse \ {"overtaken"}) \cup (IF calls[i].late THEN {"overtaken"} ELSE {})
                                             \cup Switched(calls[i].by)
  BY DEF ShowList, Answered, Heeded, TypeOK
<1>2. (\A S : Current(S)' <=> Current(S)) /\ (Reloading' <=> Reloading)
  BY <1>1 DEF Current, Visible, Reloading
<1>3. /\ calls[i] \in LiveLists /\ LiveLists' \subseteq LiveLists
      /\ \A d \in LiveLists : d.state # "served" => d \in LiveLists'
  BY <1>1, CallGone DEF LiveLists
<1>4. excuse' \subseteq {"overtaken"} => excuse \subseteq {"overtaken"}
  BY <1>1
<1>5. excuse' = {} => ~calls[i].late /\ calls[i].by = token /\ excuse \subseteq {"overtaken"}
  BY <1>1 DEF Switched
<1>6. ASSUME home, token # NoOne, excuse' = {}
      PROVE  Current(list'.shown) \/ Reloading \/ LiveLists' # {}
  BY <1>1, <1>3, <1>5, <1>6 DEF FreshInv
<1>7. ASSUME home, token # NoOne, excuse' \subseteq {"overtaken"}, NEW c \in LiveLists',
             c.state = "served", ~c.late, c.by = token
      PROVE  Current(c.shown) \/ Reloading \/ \E d \in LiveLists' : d.state # "served"
  BY <1>3, <1>4, <1>7 DEF FreshInv
<1> QED BY <1>1, <1>2, <1>6, <1>7 DEF FreshInv

LEMMA FreshNext ==
    ASSUME TypeOK, MountInv, FreshInv, [Next]_vars
    PROVE  FreshInv'
<1> USE DEF server, storage, line, page, history
<1>1. CASE UNCHANGED vars
  BY <1>1, SameCalls, FreshKept DEF vars, Reloading
<1>2. ASSUME NEW u \in Users, ChangeAccount(u) PROVE FreshInv'
  BY <1>2, FreshExcused DEF ChangeAccount
<1>3. ASSUME NEW n \in Notes, CreateNote(n) PROVE FreshInv'
  BY <1>3, SameCalls, FreshKept DEF CreateNote, Reloading
<1>4. ASSUME NEW n \in Notes, EmitNote(n) PROVE FreshInv'
  <2>1. Range(wire) \subseteq Range(wire')
    <3>1. wire \in Seq({"changed"} \cup Notes)
      BY DEF TypeOK
    <3>2. Range(Append(wire, n)) = Range(wire) \cup {n}
      BY <3>1, EntryAdded
    <3> QED BY <1>4, <3>2 DEF EmitNote
  <2> QED BY <1>4, <2>1, SameCalls, FreshKept DEF EmitNote, Reloading
<1>5. CASE Join \/ Handshake
  BY <1>5, SameCalls, FreshKept DEF Join, Handshake, Reloading
<1>6. ASSUME NEW u \in Users, SignIn(u) PROVE FreshInv'
  BY <1>6, FreshExcused DEF SignIn
<1>7. ASSUME NEW t \in Someone, WriteElsewhere(t) PROVE FreshInv'
  BY <1>7, FreshExcused DEF WriteElsewhere, Switched
<1>8. CASE Open
  <2>1. Asked("list") \in LiveLists' /\ Asked("list").state # "served"
    BY <1>8, PageOpened, AskedFields DEF LiveLists
  <2> QED BY <2>1 DEF FreshInv
<1>9. CASE SignOut \/ Reload
  BY <1>9, FreshExcused DEF SignOut, Unmount, Reload, NewDocument
<1>10. CASE DropSocket
  <2>1. UNCHANGED <<token, account, rows, unsent, home, list, calls>> /\ LoseWire(token)
    BY <1>10 DEF DropSocket
  <2> QED BY <2>1, SameCalls, SignalsLost, FreshKept DEF Reloading
<1>11. CASE StorageEvent
  <2>1. CASE home /\ token = NoOne
    BY <1>11, <2>1, FreshExcused DEF StorageEvent, Unmount
  <2>2. CASE ~(home /\ token = NoOne)
    <3>1. UNCHANGED <<token, account, rows, unsent, home, list, calls>> /\ LoseWire(token)
      BY <1>11, <2>2 DEF StorageEvent
    <3> QED BY <3>1, SameCalls, SignalsLost, FreshKept DEF Reloading
  <2> QED BY <2>1, <2>2
<1>12. CASE FireTimer
  BY <1>12, TimerFired, FreshAsked DEF FireTimer
<1>13. CASE Mark
  BY <1>13, MarkAsked, FreshKept DEF Mark, Reloading
<1>14. ASSUME NEW i \in DOMAIN calls, ServeMark(i) \/ Ignore(i) \/ ShowBell(i) PROVE FreshInv'
  <2>1. calls' = Without(i) /\ calls[i] \notin LiveLists
    BY <1>14 DEF ServeMark, Asking, Ignore, ShowBell, Answered, Heeded, LiveLists
  <2> QED BY <1>14, <2>1, CallGone, FreshKept DEF ServeMark, Ignore, ShowBell, Reloading
<1>15. ASSUME NEW i \in DOMAIN calls, StoreRenewed(i) PROVE FreshInv'
  <2>1. /\ calls' = Without(i) /\ calls[i] \notin LiveLists /\ LoseWire(Renewed(calls[i]))
        /\ token' = Renewed(calls[i])
        /\ UNCHANGED <<account, rows, unsent, home, list>>
    BY <1>15 DEF StoreRenewed, Answered, LiveLists, WriteToken
  <2>2. CASE token' = token
    BY <2>1, <2>2, CallGone, SignalsLost, FreshKept DEF Reloading
  <2>3. CASE token' # token
    BY <2>1, <2>3, SignalsLost, FreshExcused
  <2> QED BY <2>2, <2>3
<1>16. ASSUME NEW i \in DOMAIN calls, LogOut(i) PROVE FreshInv'
  BY <1>16, FreshExcused DEF LogOut, NewDocument
<1>17. ASSUME NEW i \in DOMAIN calls, FailCall(i) PROVE FreshInv'
  <2>1. CASE calls[i].kind = "list" /\ calls[i].live
    BY <1>17, <2>1, FreshExcused DEF FailCall
  <2>2. CASE ~(calls[i].kind = "list" /\ calls[i].live)
    <3>1. calls' = Without(i) /\ calls[i] \notin LiveLists
      BY <1>17, <2>2 DEF FailCall, LiveLists
    <3> QED BY <1>17, <3>1, CallGone, FreshKept DEF FailCall, Reloading
  <2> QED BY <2>1, <2>2
<1>18. CASE ServerStep
  BY <1>2, <1>3, <1>4, <1>5, <1>18, FreshChanged, FreshSignalled, FreshKeptQuiet DEF ServerStep
<1>19. CASE AuthStep
  BY <1>6, <1>7, <1>8, <1>9, <1>11, <1>19 DEF AuthStep
<1>20. CASE FireOrphan
  <2>1. UNCHANGED <<token, account, rows, unsent, home, list, excuse, wire>>
    BY <1>20 DEF FireOrphan
  <2> QED BY <1>20, <2>1, OrphanFired, FreshKept DEF Reloading
<1>21. CASE PageStep
  BY <1>5, <1>10, <1>12, <1>13, <1>14, <1>15, <1>16, <1>17, <1>20, <1>21,
     FreshReceived, FreshRefused, FreshServed, FreshShown DEF PageStep, AnswerStep
<1> QED BY <1>1, <1>18, <1>19, <1>21 DEF Next, AllServed

LEMMA FreshInit == Init => FreshInv
BY DEF Init, FreshInv


-----------------------------------------------------------------------------
(* The bell *)

LEMMA BellKept ==
    ASSUME BellInv, home' => home, token' = token,
           NotesOf(token)' \subseteq NotesOf(token),
           \A n \in NotesOf(token) : Accounted(n) => Accounted(n)',
           bell'.loaded => bell.loaded,
           LiveBells' = LiveBells
    PROVE  BellInv'
BY DEF BellInv

(* A new account on a page that stays: everything is excused.              *)
LEMMA BellExcused ==
    ASSUME home' /\ token' # NoOne => \A n \in NotesOf(token)' : n \in unseen'
    PROVE  BellInv'
BY DEF BellInv, Accounted

LEMMA BellsGone ==
    ASSUME ~home' \/ token' = NoOne PROVE BellInv'
BY DEF BellInv

LEMMA NotesLost ==
    ASSUME NEW t, LoseWire(t), UNCHANGED <<note, unpushed, bell, token>>
    PROVE  \A n \in NotesOf(token) : Accounted(n) => Accounted(n)'
BY DEF LoseWire, Accounted, NotesOf

LEMMA SameNotes ==
    ASSUME note' = note, token' = token
    PROVE  NotesOf(token)' = NotesOf(token)
BY DEF NotesOf

LEMMA BellCreated ==
    ASSUME TypeOK, BellInv, NEW n \in Notes, CreateNote(n)
    PROVE  BellInv'
<1> USE DEF server, storage, line, page, history
<1>1. /\ UNCHANGED <<token, home, bell, calls, wire, unseen>>
      /\ unpushed' = unpushed \cup {n} /\ note' = [note EXCEPT ![n] = "unread"]
  BY DEF CreateNote
<1>2. \A m \in NotesOf(token)' : m \in NotesOf(token) \/ m \in unpushed'
  BY <1>1 DEF NotesOf, TypeOK
<1>3. LiveBells' = LiveBells /\ \A m \in Notes : Accounted(m) => Accounted(m)'
  BY <1>1, SameCalls DEF Accounted
<1> QED BY <1>1, <1>2, <1>3 DEF BellInv, Accounted, NotesOf

LEMMA BellEmitted ==
    ASSUME TypeOK, BellInv, NEW n \in Notes, EmitNote(n)
    PROVE  BellInv'
<1> USE DEF server, storage, line, page, history
<1>1. /\ UNCHANGED <<token, home, bell, calls, note>> /\ unpushed' = unpushed \ {n}
      /\ IF InUserRoom(RecipientOf[n])
         THEN wire' = Append(wire, n) /\ UNCHANGED unseen
         ELSE unseen' = unseen \cup {n} /\ UNCHANGED wire
  BY DEF EmitNote
<1>2. Range(wire) \subseteq Range(wire') /\ unseen \subseteq unseen'
      /\ (n \in Range(wire') \/ n \in unseen')
  <2>1. wire \in Seq({"changed"} \cup Notes)
    BY DEF TypeOK
  <2>2. Range(Append(wire, n)) = Range(wire) \cup {n}
    BY <2>1, EntryAdded
  <2> QED BY <1>1, <2>2
<1>3. \A m \in NotesOf(token) : Accounted(m) => Accounted(m)'
  BY <1>1, <1>2 DEF Accounted
<1> QED BY <1>1, <1>3, SameCalls, SameNotes, BellKept

LEMMA BellReceived ==
    ASSUME TypeOK, BellInv, Receive
    PROVE  BellInv'
<1> USE DEF server, storage, line, page, history
<1>1. /\ UNCHANGED <<token, home, calls, note, unpushed, unseen>>
      /\ wire # <<>> /\ wire' = Tail(wire)
      /\ bell' = IF Head(wire) # "changed" /\ home
                 THEN [bell EXCEPT !.items = Pushed(@, Head(wire))] ELSE bell
  BY DEF Receive
<1>2. bell'.loaded = bell.loaded
  BY <1>1 DEF TypeOK
<1>3. bell.items \in [Notes -> {"absent", "unread", "read"}]
  BY DEF TypeOK, BellViews
<1>4. \A m \in Notes : bell.items[m] # "absent" => bell'.items[m] # "absent"
  BY <1>1, <1>3 DEF Pushed, TypeOK
<1>5. ASSUME NEW m \in Notes, m \in Range(wire), home
      PROVE  m \in Range(wire') \/ bell'.items[m] # "absent"
  <2>1. PICK k \in 1..Len(wire) : wire[k] = m
    BY <1>5, EntriesOf DEF TypeOK
  <2>2. CASE k = 1
    <3>1. Head(wire) = m /\ m # "changed"
      BY <1>1, <2>1, <2>2 DEF TypeOK
    <3>2. bell' = [bell EXCEPT !.items = Pushed(@, m)]
      BY <1>1, <1>5, <3>1
    <3>3. bell'.items = Pushed(bell.items, m)
      BY <3>2 DEF TypeOK
    <3> QED BY <1>3, <3>3 DEF Pushed
  <2>3. CASE k # 1
    <3>1. wire' \in Seq({"changed"} \cup Notes) /\ k - 1 \in 1..Len(wire') /\ wire'[k - 1] = wire[k]
      BY <1>1, <2>1, <2>3 DEF TypeOK
    <3> QED BY <2>1, <3>1, EntriesOf
  <2> QED BY <2>2, <2>3
<1>6. CASE home
  <2>1. \A m \in NotesOf(token) : Accounted(m) => Accounted(m)'
    BY <1>1, <1>4, <1>5, <1>6 DEF Accounted, NotesOf
  <2> QED BY <1>1, <1>2, <2>1, SameCalls, SameNotes, BellKept
<1>7. CASE ~home
  BY <1>1, <1>7, BellsGone
<1> QED BY <1>6, <1>7

LEMMA BellOpened ==
    ASSUME TypeOK, MountInv, Open
    PROVE  BellInv'
<1> USE DEF server, storage, line, page, history
<1>1. /\ token' = token /\ bell' = EmptyBell
      /\ \A c \in InFlight : ~c.live
  BY DEF Open, MountInv
<1>2. \A c \in LiveBells' : c.state = "asked" /\ c.by = token
  <2> SUFFICES ASSUME NEW c \in LiveBells' PROVE c.state = "asked" /\ c.by = token
    OBVIOUS
  <2>1. c \in {Asked("refresh"), Asked("list"), Asked("bell")}
    BY <1>1, PageOpened DEF LiveBells
  <2> QED BY <2>1, AskedFields
<1> QED BY <1>1, <1>2 DEF BellInv, EmptyBell

LEMMA BellMarked ==
    ASSUME TypeOK, BellInv, Mark
    PROVE  BellInv'
<1> USE DEF server, storage, line, page, history
<1>1. PICK N \in {Notes} \cup {{n} : n \in Notes} :
        bell' = [bell EXCEPT !.items = [n \in Notes |->
                    IF n \in N /\ @[n] = "unread" THEN "read" ELSE @[n]]]
  BY DEF Mark
<1>2. UNCHANGED <<token, home, note, unpushed, unseen, wire>>
  BY DEF Mark
<1>3. /\ bell'.loaded = bell.loaded
      /\ \A n \in Notes : bell.items[n] # "absent" => bell'.items[n] # "absent"
  BY <1>1 DEF TypeOK, BellViews
<1>4. \A n \in NotesOf(token) : Accounted(n) => Accounted(n)'
  BY <1>2, <1>3 DEF Accounted, NotesOf
<1> QED BY <1>2, <1>3, <1>4, SameNotes, MarkAsked, BellKept

LEMMA BellRefused ==
    ASSUME TypeOK, BellInv, NEW i \in DOMAIN calls, Refuse(i)
    PROVE  BellInv'
<1> USE DEF server, storage, line, page, history
<1>1. UNCHANGED <<token, home, note, unpushed, unseen, wire, bell>>
  BY DEF Refuse
<1>2. /\ DOMAIN calls' = DOMAIN calls
      /\ \A j \in DOMAIN calls : calls'[j] = calls[j] \/ calls'[j] = [calls[j] EXCEPT !.state = "refused"]
  BY RefusedCall
<1>3. \A c \in LiveBells' : c \in LiveBells \/ c.state = "refused"
  <2> SUFFICES ASSUME NEW c \in LiveBells' PROVE c \in LiveBells \/ c.state = "refused"
    OBVIOUS
  <2>1. PICK j \in DOMAIN calls : c = calls'[j] /\ calls[j] \in InFlight
    BY <1>2, CallsMapped DEF LiveBells
  <2>2. CASE c = calls[j]
    BY <2>1, <2>2 DEF LiveBells
  <2>3. CASE c = [calls[j] EXCEPT !.state = "refused"]
    BY <2>1, <2>3, RefusedFields, CallsTyped
  <2> QED BY <1>2, <2>1, <2>2, <2>3
<1>4. NotesOf(token)' = NotesOf(token) /\ \A n \in Notes : Accounted(n)' <=> Accounted(n)
  BY <1>1, SameNotes DEF Accounted
<1> QED BY <1>1, <1>3, <1>4 DEF BellInv, NotesOf

LEMMA BellServed ==
    ASSUME TypeOK, BellInv, NEW i \in DOMAIN calls, Serve(i)
    PROVE  BellInv'
<1> USE DEF server, storage, line, page, history
<1>1. UNCHANGED <<token, home, note, unpushed, unseen, wire, bell>> /\ calls[i].state = "asked"
  BY DEF Serve, Asking
<1>2. NotesOf(token)' = NotesOf(token) /\ \A n \in Notes : Accounted(n)' <=> Accounted(n)
  BY <1>1, SameNotes DEF Accounted
<1>3. calls[i] \in InFlight /\ InFlight \subseteq Call
  BY CallsTyped DEF InFlight, Range
<1>4. CASE ~Heeded(calls[i])
  <2>1. calls' = Without(i) /\ calls[i] \notin LiveBells
    BY <1>4, ServedCalls DEF Heeded, LiveBells
  <2> QED BY <1>1, <1>2, <2>1, CallGone, BellKept DEF NotesOf
<1>5. CASE Heeded(calls[i])
  <2>1. /\ DOMAIN calls' = DOMAIN calls
        /\ calls'[i] = ServedAs(calls[i])
        /\ \A j \in DOMAIN calls : j # i =>
             calls'[j] = [calls[j] EXCEPT !.late = @ \/ Overtakes(calls[i], calls[j])]
    BY <1>5, HeededCalls
  <2>2. \A c \in InFlight' : \E j \in DOMAIN calls : c = calls'[j] /\ calls[j] \in InFlight
    BY <2>1, CallsMapped
  <2>3. ASSUME NEW c \in LiveBells', NEW n \in NotesOf(token), home, token # NoOne
        PROVE  /\ c.state = "served" => Accounted(n) \/ c.items[n] # "absent"
               /\ c.state = "asked" /\ c.by # token => Accounted(n)
    <3>1. PICK j \in DOMAIN calls : c = calls'[j] /\ calls[j] \in InFlight
      BY <2>2 DEF LiveBells
    <3>2. CASE j # i
      <4> DEFINE b == calls[j].late \/ Overtakes(calls[i], calls[j])
      <4>1. c = [calls[j] EXCEPT !.late = b] /\ calls[j] \in Call
        BY <1>3, <2>1, <3>1, <3>2
      <4> HIDE DEF b
      <4>2. /\ c.kind = calls[j].kind /\ c.live = calls[j].live /\ c.by = calls[j].by
            /\ c.state = calls[j].state /\ c.items = calls[j].items
        BY <4>1, OlderFields
      <4>3. calls[j] \in LiveBells
        BY <3>1, <4>2 DEF LiveBells
      <4> QED BY <2>3, <4>2, <4>3 DEF BellInv
    <3>3. CASE j = i
      <4>1. c = ServedAs(calls[i]) /\ calls[i] \in Call
        BY <1>3, <2>1, <3>1, <3>3
      <4>2. /\ c.kind = calls[i].kind /\ c.live = calls[i].live /\ c.by = calls[i].by
            /\ c.state = "served" /\ (calls[i].kind = "bell" => c.items = Feed(calls[i].by))
        BY <4>1, ServedFields
      <4>3. calls[i] \in LiveBells /\ c.items = Feed(c.by)
        BY <1>3, <4>2 DEF LiveBells
      <4>4. CASE c.by = token
        <5>1. note[n] # "absent" /\ n \in Notes
          BY DEF NotesOf, TypeOK
        <5>2. c.items[n] = note[n]
          BY <4>3, <4>4, <5>1 DEF Feed
        <5> QED BY <4>2, <5>1, <5>2
      <4>5. CASE c.by # token
        BY <1>1, <2>3, <4>2, <4>3, <4>5 DEF BellInv
      <4> QED BY <4>4, <4>5
    <3> QED BY <3>2, <3>3
  <2> QED BY <1>1, <1>2, <2>3 DEF BellInv, NotesOf
<1> QED BY <1>4, <1>5

LEMMA BellShown ==
    ASSUME TypeOK, BellInv, NEW i \in DOMAIN calls, ShowBell(i)
    PROVE  BellInv'
<1> USE DEF server, storage, line, page, history
<1>1. /\ UNCHANGED <<token, home, note, unpushed, wire>> /\ calls' = Without(i)
      /\ calls[i].state = "served" /\ calls[i].kind = "bell" /\ calls[i].live
      /\ bell'.items = calls[i].items
      /\ unseen' = {n \in Notes : /\ n \in unseen \/ bell.items[n] # "absent"
                                  /\ calls[i].items[n] = "absent"}
  BY DEF ShowBell, Answered, Heeded
<1>2. calls[i] \in LiveBells /\ LiveBells' \subseteq LiveBells
  BY <1>1, CallGone DEF LiveBells
<1>3. NotesOf(token)' = NotesOf(token) /\ NotesOf(token) \subseteq Notes
  BY <1>1, SameNotes DEF NotesOf
<1>4. \A n \in Notes : Accounted(n) => Accounted(n)'
  BY <1>1 DEF Accounted
<1>5. ASSUME home, token # NoOne, NEW n \in NotesOf(token) PROVE Accounted(n)'
  <2>1. Accounted(n) \/ calls[i].items[n] # "absent"
    BY <1>1, <1>2, <1>5 DEF BellInv
  <2> QED BY <1>1, <1>3, <1>4, <2>1 DEF Accounted
<1> QED BY <1>1, <1>2, <1>3, <1>5 DEF BellInv

LEMMA BellNext ==
    ASSUME TypeOK, MountInv, BellInv, [Next]_vars
    PROVE  BellInv'
<1> USE DEF server, storage, line, page, history
<1>1. ASSUME UNCHANGED <<home, token, note, unpushed, wire, bell, unseen, calls>> PROVE BellInv'
  <2>1. \A n : Accounted(n)' <=> Accounted(n)
    BY <1>1 DEF Accounted
  <2> QED BY <1>1, <2>1, SameCalls, SameNotes, BellKept
<1>2. ASSUME NEW r \in Requests, EmitRequestChanged(r) PROVE BellInv'
  <2>1. /\ UNCHANGED <<home, token, note, unpushed, bell, unseen, calls>>
        /\ Range(wire) \subseteq Range(wire')
    BY <1>2, RangeOfSignal DEF EmitRequestChanged
  <2>2. \A n : Accounted(n) => Accounted(n)'
    BY <2>1 DEF Accounted
  <2> QED BY <2>1, <2>2, SameCalls, SameNotes, BellKept
<1>3. ASSUME NEW t \in Someone, WriteElsewhere(t) PROVE BellInv'
  BY <1>3, BellExcused DEF WriteElsewhere, Unfetched, NotesOf
<1>4. CASE DropSocket
  <2>1. UNCHANGED <<home, token, note, unpushed, bell, calls>> /\ LoseWire(token)
    BY <1>4 DEF DropSocket
  <2> QED BY <2>1, SameCalls, SameNotes, NotesLost, BellKept
<1>5. CASE StorageEvent
  <2>1. CASE home /\ token = NoOne
    BY <1>5, <2>1, BellsGone DEF StorageEvent, Unmount
  <2>2. CASE ~(home /\ token = NoOne)
    <3>1. UNCHANGED <<home, token, note, unpushed, bell, calls>> /\ LoseWire(token)
      BY <1>5, <2>2 DEF StorageEvent
    <3> QED BY <3>1, SameCalls, SameNotes, NotesLost, BellKept
  <2> QED BY <2>1, <2>2
<1>6. CASE FireTimer
  <2>1. UNCHANGED <<home, token, note, unpushed, wire, bell, unseen>>
    BY <1>6 DEF FireTimer
  <2>2. LiveBells' = LiveBells
    BY <1>6, TimerFired, AskedFields DEF LiveBells
  <2>3. \A n : Accounted(n) => Accounted(n)'
    BY <2>1 DEF Accounted
  <2> QED BY <2>1, <2>2, <2>3, SameNotes, BellKept
<1>17. CASE FireOrphan
  <2>1. UNCHANGED <<home, token, note, unpushed, wire, bell, unseen>>
    BY <1>17 DEF FireOrphan
  <2>2. \A n : Accounted(n) => Accounted(n)'
    BY <2>1 DEF Accounted
  <2> QED BY <1>17, <2>1, <2>2, OrphanFired, SameNotes, BellKept
<1>7. ASSUME NEW i \in DOMAIN calls, ServeMark(i) PROVE BellInv'
  <2>1. /\ UNCHANGED <<home, token, unpushed, wire, bell, unseen>>
        /\ calls' = Without(i) /\ calls[i] \notin LiveBells
    BY <1>7 DEF ServeMark, Asking, LiveBells
  <2>2. NotesOf(token)' \subseteq NotesOf(token)
    BY <1>7 DEF ServeMark, NotesOf
  <2>3. \A n : Accounted(n) => Accounted(n)'
    BY <2>1 DEF Accounted
  <2> QED BY <2>1, <2>2, <2>3, CallGone, BellKept
<1>8. ASSUME NEW i \in DOMAIN calls, Ignore(i) \/ ShowList(i) \/ FailCall(i) PROVE BellInv'
  <2>1. /\ UNCHANGED <<home, token, note, unpushed, wire, bell, unseen>> /\ calls' = Without(i)
    BY <1>8 DEF Ignore, ShowList, FailCall
  <2>2. LiveBells' \subseteq LiveBells
    BY <2>1, CallGone DEF LiveBells
  <2>3. NotesOf(token)' = NotesOf(token) /\ \A n : Accounted(n)' <=> Accounted(n)
    BY <2>1, SameNotes DEF Accounted
  <2> QED BY <2>1, <2>2, <2>3 DEF BellInv
<1>9. ASSUME NEW i \in DOMAIN calls, StoreRenewed(i) PROVE BellInv'
  <2>1. /\ calls' = Without(i) /\ calls[i] \notin LiveBells /\ LoseWire(Renewed(calls[i]))
        /\ token' = Renewed(calls[i])
        /\ UNCHANGED <<note, unpushed, home, bell>>
    BY <1>9 DEF StoreRenewed, Answered, LiveBells, WriteToken
  <2>2. CASE token' = token
    BY <2>1, <2>2, CallGone, NotesLost, SameNotes, BellKept
  <2>3. CASE token' # token
    <3>1. \A n \in NotesOf(token)' : n \in unseen'
      BY <2>1, <2>3 DEF LoseWire, Unfetched, NotesOf
    <3> QED BY <3>1, BellExcused
  <2> QED BY <2>2, <2>3
<1>10. CASE SignOut \/ Reload
  BY <1>10, BellsGone DEF SignOut, Unmount, Reload, NewDocument
<1>11. ASSUME NEW u \in Users, SignIn(u) PROVE BellInv'
  BY <1>11, BellsGone DEF SignIn
<1>12. ASSUME NEW i \in DOMAIN calls, LogOut(i) PROVE BellInv'
  BY <1>12, BellsGone DEF LogOut, NewDocument
<1>13. CASE UNCHANGED vars \/ Join \/ Handshake
  BY <1>1, <1>13 DEF vars, Join, Handshake
<1>14. CASE ServerStep
  BY <1>1, <1>2, <1>13, <1>14, BellCreated, BellEmitted
     DEF ServerStep, Change, KeepQuiet, ChangeAccount
<1>15. CASE AuthStep
  BY <1>3, <1>5, <1>10, <1>11, <1>15, BellOpened DEF AuthStep
<1>16. CASE PageStep
  BY <1>4, <1>6, <1>7, <1>8, <1>9, <1>12, <1>13, <1>16, <1>17,
     BellReceived, BellMarked, BellRefused, BellServed, BellShown DEF PageStep, AnswerStep
<1> QED BY <1>13, <1>14, <1>15, <1>16 DEF Next, AllServed

LEMMA BellInit == Init => BellInv
BY DEF Init, BellInv

-----------------------------------------------------------------------------
(* All of it *)

LEMMA DeskInvInductive ==
    /\ Init => DeskInv
    /\ DeskInv /\ [Next]_vars => DeskInv'
<1>1. Init => DeskInv
  BY TypeInit, MountInit, SocketInit, FreshInit, BellInit DEF DeskInv
<1>2. DeskInv /\ [Next]_vars => DeskInv'
  BY TypeNext, MountNext, SocketNext, FreshNext, BellNext DEF DeskInv
<1> QED BY <1>1, <1>2

LEMMA QuietCalls ==
    ASSUME Quiet
    PROVE  InFlight = {} /\ Range(wire) = {} /\ unsent = {} /\ unpushed = {} /\ ~list.timer
BY DEF Quiet, InFlight, Range

(* A page at rest shows the list the server would give it, except after a  *)
(* signal that met no connection, a change its account was not told of     *)
(* (the holder of a role, a reporter who joins), a late answer, a failed   *)
(* call or another account: RequestsList is told or asks of everything     *)
(* else.                                                                   *)
THEOREM FreshProved == Spec => []QuietMeansFresh
<1>1. DeskInv => QuietMeansFresh
  <2> SUFFICES ASSUME DeskInv, home, Quiet, token # NoOne, excuse = {}
               PROVE  list.shown = Visible(token)
    BY DEF QuietMeansFresh
  <2>1. LiveLists = {} /\ ~Reloading
    BY QuietCalls DEF LiveLists, Reloading
  <2>2. Current(list.shown)
    BY <2>1 DEF DeskInv, FreshInv
  <2> QED BY <2>2, QuietCalls DEF Current
<1> QED BY <1>1, DeskInvInductive, PTL DEF Spec

(* A notification of the account is in the bell of a page at rest, unless  *)
(* it was emitted into a gap, overwritten or older than the account.       *)
THEOREM BellProved == Spec => []BellMissesOnlyGaps
<1>1. DeskInv => BellMissesOnlyGaps
  BY QuietCalls DEF DeskInv, BellInv, BellMissesOnlyGaps, Accounted
<1> QED BY <1>1, DeskInvInductive, PTL DEF Spec

=============================================================================
