------------------------- MODULE ConversationProofs -------------------------
(***************************************************************************)
(* What Conversation keeps for any number of users, events, calls,         *)
(* conversations and requests.                                             *)
(***************************************************************************)
EXTENDS Conversation, SequenceTheorems, FunctionTheorems, FiniteSetTheorems,
        WellFoundedInduction, TLAPS

-----------------------------------------------------------------------------
(* Sequences *)

(* A nonempty set of positions has a last one. *)
LEMMA LastPosition ==
    ASSUME NEW n \in Nat, NEW T, T \subseteq 1..n, T # {}
    PROVE  \E i \in T : \A j \in T : j <= i
<1> DEFINE U == {n - i : i \in T}
<1>1. U \subseteq Nat /\ U # {}
  <2>1. \A i \in T : n - i \in Nat
    OBVIOUS
  <2> QED BY <2>1
<1>2. PICK x \in U : \A y \in U : ~ (<<y, x>> \in OpToRel(<, Nat))
  <2> HIDE DEF U
  <2> QED BY <1>1, WFMin, NatLessThanWellFounded
<1>3. \A y \in U : ~ (y < x)
  BY <1>1, <1>2 DEF OpToRel
<1>4. PICK i \in T : x = n - i
  OBVIOUS
<1>5. ASSUME NEW j \in T PROVE j <= i
  <2>1. n - j \in U
    OBVIOUS
  <2>2. ~ (n - j < n - i)
    BY <1>3, <1>4, <2>1
  <2>3. i \in 1..n /\ j \in 1..n
    OBVIOUS
  <2> HIDE DEF U
  <2> QED BY <2>2, <2>3
<1> QED BY <1>5

(* The most recent conversation of some is one of them. *)
LEMMA LatestOfThem ==
    ASSUME recency \in Seq(Convs), NEW V, V # {}, V \subseteq RangeOf(recency)
    PROVE  Latest(V) \in V
<1> DEFINE T == {i \in DOMAIN recency : recency[i] \in V}
<1>1. DOMAIN recency = 1..Len(recency) /\ Len(recency) \in Nat
  OBVIOUS
<1>2. T \subseteq 1..Len(recency) /\ T # {}
  BY <1>1 DEF RangeOf
<1>3. \E i \in T : \A j \in T : j <= i
  <2> HIDE DEF T
  <2> QED BY <1>1, <1>2, LastPosition
<1>4. \E i \in DOMAIN recency :
        recency[i] \in V /\ \A j \in DOMAIN recency : recency[j] \in V => j <= i
  BY <1>3
<1> QED BY <1>4 DEF Latest

LEMMA MovedToTheEnd ==
    ASSUME NEW S, NEW s \in Seq(S), NEW v \in RangeOf(s)
    PROVE  /\ ToTheEnd(s, v) \in Seq(S)
           /\ RangeOf(s) \subseteq RangeOf(ToTheEnd(s, v))
<1> DEFINE k == CHOOSE i \in DOMAIN s : s[i] = v
           d == [i \in 1..Len(s) |-> IF i < k THEN s[i] ELSE IF i < Len(s) THEN s[i + 1] ELSE v]
<1>1. DOMAIN s = 1..Len(s) /\ Len(s) \in Nat /\ \A i \in 1..Len(s) : s[i] \in S
  OBVIOUS
<1>2. k \in 1..Len(s) /\ s[k] = v
  BY <1>1 DEF RangeOf
<1>3. d = ToTheEnd(s, v)
  BY <1>1 DEF ToTheEnd
<1> HIDE DEF k
<1>4. d \in Seq(S) /\ DOMAIN d = 1..Len(s)
  BY <1>1, <1>2
<1>5. ASSUME NEW i \in 1..Len(s) PROVE \E j \in 1..Len(s) : d[j] = s[i]
  <2>1. CASE i < k
    BY <1>1, <1>2, <2>1
  <2>2. CASE i = k
    <3>1. d[Len(s)] = v
      BY <1>1, <1>2
    <3> QED BY <1>1, <1>2, <2>2, <3>1
  <2>3. CASE i > k
    <3>1. i - 1 \in 1..Len(s) /\ ~(i - 1 < k) /\ i - 1 < Len(s) /\ (i - 1) + 1 = i
      BY <1>1, <1>2, <2>3
    <3>2. d[i - 1] = s[i]
      BY <3>1
    <3> QED BY <3>1, <3>2
  <2> QED BY <1>1, <1>2, <2>1, <2>2, <2>3
<1> HIDE DEF d
<1>6. ASSUME NEW x \in RangeOf(s) PROVE x \in RangeOf(d)
  <2>1. PICK i \in 1..Len(s) : x = s[i]
    BY <1>1 DEF RangeOf
  <2>2. PICK j \in 1..Len(s) : d[j] = x
    BY <1>5, <2>1
  <2> QED BY <1>4, <2>2 DEF RangeOf
<1> QED BY <1>3, <1>4, <1>6

-----------------------------------------------------------------------------
(* Types *)

Places == Open \cup {"idle", "over", "failed", "lost"}

SlackOK ==
    /\ recent \in Seq(Events) /\ Len(recent) <= MaxRemembered
    /\ DOMAIN since \subseteq Events /\ \A e \in DOMAIN since : since[e] \subseteq Events

ChatOK ==
    /\ conv \in [Convs -> Conv]
    /\ recency \in Seq(Convs)
    /\ message \in [Calls -> Message]

StoreOK ==
    /\ request \in [Requests -> Request]
    /\ reporters \in [Requests -> SUBSET Users]

LocalsOK ==
    /\ job \in [Calls -> Job]
    /\ pc \in [Calls -> Places]
    /\ loop \in [Calls -> Loop]
    /\ copy \in [Calls -> Copy]
    /\ missed \in [Calls -> SUBSET Users]

LEMMA TypeParts ==
    TypeOK <=> SlackOK /\ ChatOK /\ StoreOK /\ LocalsOK /\ restarts \in 0..MaxRestarts
BY DEF TypeOK, SlackOK, ChatOK, StoreOK, LocalsOK, Places

LEMMA TypePartsPrimed ==
    TypeOK' <=> SlackOK' /\ ChatOK' /\ StoreOK' /\ LocalsOK' /\ restarts' \in 0..MaxRestarts
BY DEF TypeOK, SlackOK, ChatOK, StoreOK, LocalsOK, Places

(* A conversation that is there is among those ordered by their last use,   *)
(* who names one is the browser, a turn that has drafted its reply has a    *)
(* thread that suits it, and who is to write a list of reporters back has   *)
(* read one.                                                                *)
Recorded == \A v \in Convs : conv[v].state = "live" => v \in RangeOf(recency)

Turns == {"modelling", "tooling", "failing", "touching"}

Suits(t, j) == /\ t.state = "live" /\ t.by = j.by
               /\ t.channel # j.channel => j.named /\ t.channel = "slack"

ThreadFits(c) ==
    /\ pc[c] \in Open \ Turns /\ job[c].conv # NoConv =>
         job[c].named /\ job[c].channel = "assistant_ui"
    /\ pc[c] \in Turns => job[c].conv # NoConv /\ Suits(conv[job[c].conv], job[c])
    /\ "writeReporters" \in loop[c].todo => copy[c].req \in Requests

TypeInv == TypeOK /\ Recorded /\ \A c \in Calls : ThreadFits(c)

LEMMA PlacesOf ==
    /\ Open = {"acking", "creating", "ingesting", "finding", "forking",
               "modelling", "tooling", "failing", "touching"}
    /\ Turns \subseteq Open
    /\ Open \ Turns = {"acking", "creating", "ingesting", "finding", "forking"}
    /\ Open \cup {"idle", "over", "failed", "lost"} = Places
BY DEF Open, Turns, Places

LEMMA JobFields ==
    ASSUME NEW j \in Job
    PROVE  /\ j.by \in Users /\ j.channel \in Channels
           /\ j.event \in Events \cup {"none"} /\ j.conv \in Convs \cup {NoConv}
           /\ j.named \in BOOLEAN
BY DEF Job

LEMMA NothingTypes ==
    /\ NoJob \in Job /\ NoJob.conv = NoConv /\ NoJob.event = "none"
    /\ NewLoop \in Loop /\ NewLoop.todo = {} /\ NewLoop.result = NoRequest /\ NewLoop.attempt = 0
    /\ NoCopy \in Copy /\ NoCopy.req = NoRequest
<1> DEFINE u == CHOOSE u \in Users : TRUE
<1>1. u \in Users
  BY EventsType
<1>2. NoJob = [by |-> u, channel |-> "assistant_ui", event |-> "none", conv |-> NoConv,
               named |-> FALSE]
  BY DEF NoJob
<1> HIDE DEF u
<1>3. NoJob \in Job /\ NoJob.conv = NoConv /\ NoJob.event = "none"
  BY <1>1, <1>2 DEF Job, Channels
<1>4. NewLoop \in Loop
  BY DEF NewLoop, Loop
<1> QED BY <1>3, <1>4 DEF NewLoop, NoCopy, Copy

(* The step leaves the other calls where they are. *)
Others(c) ==
    \A d \in Calls \ {c} : /\ pc'[d] = pc[d] /\ job'[d] = job[d] /\ loop'[d] = loop[d]
                           /\ copy'[d] = copy[d] /\ message'[d] = message[d]

(* Nor does it touch a conversation that is there. *)
ConvsKept == \A v \in Convs : conv[v].state = "live" => conv'[v] = conv[v]

(* Which of its locals a step of one call may write, and how. *)
LEMMA OneMoves ==
    ASSUME LocalsOK, ChatOK, NEW c \in Calls, NEW p \in Places, Goto(c, p) \/ UNCHANGED pc,
           UNCHANGED job \/ \E j \in Job : job' = [job EXCEPT ![c] = j],
           UNCHANGED loop \/ \E l \in Loop : loop' = [loop EXCEPT ![c] = l],
           UNCHANGED copy \/ \E k \in Copy : copy' = [copy EXCEPT ![c] = k],
           UNCHANGED message \/ \E m \in Message : message' = [message EXCEPT ![c] = m],
           missed' \in [Calls -> SUBSET Users]
    PROVE  LocalsOK' /\ Others(c) /\ message' \in [Calls -> Message]
BY DEF LocalsOK, ChatOK, Goto, Others

LEMMA SomeEnd ==
    ASSUME LocalsOK, NEW C, C \subseteq Calls, NEW p \in Places, Ends(C, p)
    PROVE  /\ LocalsOK'
           /\ \A d \in C : /\ pc'[d] = p /\ job'[d] = NoJob /\ loop'[d] = NewLoop
                           /\ copy'[d] = NoCopy /\ missed'[d] = {}
           /\ \A d \in Calls \ C : /\ pc'[d] = pc[d] /\ job'[d] = job[d] /\ loop'[d] = loop[d]
                                   /\ copy'[d] = copy[d] /\ missed'[d] = missed[d]
BY NothingTypes DEF LocalsOK, Ends

LEMMA OneEnds ==
    ASSUME LocalsOK, NEW c \in Calls, NEW p \in Places, Ends({c}, p), UNCHANGED message
    PROVE  /\ LocalsOK' /\ Others(c)
           /\ pc'[c] = p /\ job'[c] = NoJob /\ loop'[c] = NewLoop
           /\ copy'[c] = NoCopy /\ missed'[c] = {}
<1>1. /\ LocalsOK'
      /\ \A d \in {c} : /\ pc'[d] = p /\ job'[d] = NoJob /\ loop'[d] = NewLoop
                        /\ copy'[d] = NoCopy /\ missed'[d] = {}
      /\ \A d \in Calls \ {c} : /\ pc'[d] = pc[d] /\ job'[d] = job[d] /\ loop'[d] = loop[d]
                                /\ copy'[d] = copy[d] /\ missed'[d] = missed[d]
  <2>1. {c} \subseteq Calls
    OBVIOUS
  <2> QED BY <2>1, SomeEnd
<1> QED BY <1>1 DEF Others

LEMMA FitsKept ==
    ASSUME NEW d \in Calls, ThreadFits(d), ConvsKept, LocalsOK, NoConv \notin Convs,
           pc'[d] = pc[d], job'[d] = job[d], loop'[d].todo = loop[d].todo, copy'[d] = copy[d]
    PROVE  ThreadFits(d)'
<1>1. job[d].conv \in Convs \cup {NoConv}
  BY JobFields DEF LocalsOK
<1>2. pc[d] \in Turns => conv'[job[d].conv] = conv[job[d].conv]
  BY <1>1 DEF ThreadFits, ConvsKept, Suits
<1> QED BY <1>2 DEF ThreadFits

(* A call that is over has nothing left to fit. *)
LEMMA EndedFits ==
    ASSUME NEW c \in Calls, pc'[c] \notin Open, loop'[c] = NewLoop
    PROVE  ThreadFits(c)'
BY PlacesOf, NothingTypes DEF ThreadFits

-----------------------------------------------------------------------------
(* What each kind of step writes *)

(* Calls that begin *)
LEMMA BeginTypes ==
    ASSUME TypeInv, NEW c \in Calls, NEW j \in Job, NEW p \in {"creating", "acking", "finding"},
           Begin(c, j, p), j.conv # NoConv => j.named /\ j.channel = "assistant_ui",
           UNCHANGED <<chat, tools, loop, restarts>>
    PROVE  /\ LocalsOK' /\ Others(c) /\ ThreadFits(c)' /\ pc[c] = "idle"
           /\ pc'[c] = p /\ job'[c] = j
<1>1. LocalsOK /\ ChatOK /\ ThreadFits(c)
  BY TypeParts DEF TypeInv
<1>2. /\ Goto(c, p) /\ job' = [job EXCEPT ![c] = j] /\ pc[c] = "idle" /\ p \in Places
      /\ UNCHANGED <<conv, recency, message, request, reporters, copy, missed, loop>>
  BY PlacesOf DEF Begin, MayStart, chat, tools, store
<1>3. LocalsOK' /\ Others(c)
  <2>1. missed' \in [Calls -> SUBSET Users]
    BY <1>1, <1>2 DEF LocalsOK
  <2> QED BY <1>1, <1>2, <2>1, OneMoves
<1>4. pc'[c] = p /\ job'[c] = j
  BY <1>1, <1>2 DEF LocalsOK, Goto
<1>5. ThreadFits(c)'
  BY <1>1, <1>2, <1>4, PlacesOf DEF ThreadFits
<1> QED BY <1>2, <1>3, <1>4, <1>5

LEMMA DeliverBegins ==
    ASSUME TypeInv, NEW e \in Events, Deliver(e)
    PROVE  \E c \in Calls : /\ LocalsOK' /\ Others(c) /\ ThreadFits(c)' /\ pc[c] = "idle"
                            /\ pc'[c] \in {"creating", "acking"} /\ job'[c].event = e
<1> DEFINE j == [by |-> SenderOf[e], channel |-> "slack", event |-> e, conv |-> NoConv, named |-> FALSE]
           p == IF e \in WithFiles THEN "creating" ELSE "acking"
<1>1. PICK c \in Calls : Begin(c, j, p)
  BY DEF Deliver
<1>2. j \in Job /\ j.conv = NoConv /\ j.event = e
  BY EventsType DEF Job, Channels
<1>3. p \in {"creating", "acking"} /\ p \in {"creating", "acking", "finding"}
  OBVIOUS
<1>4. UNCHANGED <<chat, tools, loop, restarts>>
  BY DEF Deliver
<1> HIDE DEF j, p
<1>5. LocalsOK' /\ Others(c) /\ ThreadFits(c)' /\ pc[c] = "idle" /\ pc'[c] = p /\ job'[c] = j
  BY <1>1, <1>2, <1>3, <1>4, BeginTypes
<1> QED BY <1>2, <1>3, <1>5

(* A thread of an account in a channel is what its name says. *)
LEMMA ThreadsAre ==
    ASSUME ChatOK, NEW u, NEW ch, NEW v \in Threads(u, ch)
    PROVE  v \in Convs /\ conv[v] = [state |-> "live", by |-> u, channel |-> ch]
<1>1. v \in Convs /\ conv[v].state = "live" /\ conv[v].by = u /\ conv[v].channel = ch
  BY DEF Threads, ThreadsOf
<1>2. conv[v] \in Conv
  BY <1>1 DEF ChatOK
<1> QED BY <1>1, <1>2 DEF Conv

LEMMA SendBegins ==
    ASSUME TypeInv, NEW c \in Calls, Send(c)
    PROVE  /\ LocalsOK' /\ Others(c) /\ ThreadFits(c)' /\ pc[c] = "idle"
           /\ pc'[c] = "finding" /\ job'[c].event = "none"
<1>1. PICK u \in Users, v \in {NoConv} \cup {v \in Convs : conv[v].state = "live"} :
        Begin(c, [by |-> u, channel |-> "assistant_ui", event |-> "none",
                  conv |-> v, named |-> v # NoConv], "finding")
  BY DEF Send
<1> DEFINE j == [by |-> u, channel |-> "assistant_ui", event |-> "none", conv |-> v, named |-> v # NoConv]
<1>2. j \in Job /\ j.conv = v /\ j.channel = "assistant_ui" /\ j.event = "none"
      /\ (v # NoConv => j.named)
  BY DEF Job, Channels
<1>3. UNCHANGED <<chat, tools, loop, restarts>>
  BY DEF Send
<1>4. Begin(c, j, "finding")
  BY <1>1
<1> HIDE DEF j
<1>5. j.conv # NoConv => j.named /\ j.channel = "assistant_ui"
  BY <1>2
<1>6. LocalsOK' /\ Others(c) /\ ThreadFits(c)' /\ pc[c] = "idle" /\ pc'[c] = "finding" /\ job'[c] = j
  BY <1>2, <1>3, <1>4, <1>5, BeginTypes
<1> QED BY <1>2, <1>6

(* Calls that end *)
Ending(c) == Ignore(c) \/ Drop(c) \/ RouteFiles(c) \/ RefuseConversation(c) \/ FailTurn(c) \/ Touch(c)

LEMMA EndingTypes ==
    ASSUME TypeInv, NEW c \in Calls, Ending(c)
    PROVE  /\ LocalsOK' /\ Others(c) /\ ThreadFits(c)' /\ pc'[c] \in {"idle", "over", "failed"}
           /\ loop'[c] = NewLoop /\ copy'[c] = NoCopy /\ missed'[c] = {} /\ UNCHANGED message
<1>1. LocalsOK
  BY TypeParts DEF TypeInv
<1>2. Ends({c}, "idle") \/ Ends({c}, "over") \/ Ends({c}, "failed")
  BY DEF Ending, Ignore, Drop, RouteFiles, RefuseConversation, FailTurn, Touch
<1>3. UNCHANGED message
  BY DEF Ending, Ignore, Drop, RouteFiles, RefuseConversation, FailTurn, Touch, chat
<1>4. {"idle", "over", "failed"} \subseteq Places /\ {"idle", "over", "failed"} \cap Open = {}
  BY PlacesOf
<1>5. LocalsOK' /\ Others(c) /\ pc'[c] \in {"idle", "over", "failed"} /\ loop'[c] = NewLoop
      /\ copy'[c] = NoCopy /\ missed'[c] = {}
  BY <1>1, <1>2, <1>3, <1>4, OneEnds
<1> QED BY <1>3, <1>4, <1>5, EndedFits

(* The message and the loop of a drafted reply *)
LEMMA DraftTypes ==
    ASSUME LocalsOK, ChatOK, NEW c \in Calls, NEW v \in Convs, Draft(c, v),
           UNCHANGED <<copy, missed>>
    PROVE  /\ LocalsOK' /\ Others(c) /\ message' \in [Calls -> Message]
           /\ pc'[c] \in {"modelling", "failing"} /\ job'[c] = [job[c] EXCEPT !.conv = v]
           /\ loop'[c].todo = loop[c].todo /\ loop'[c].result = loop[c].result
           /\ message'[c].reply = "blank"
<1>1. PICK a \in 0..1 : /\ loop' = [loop EXCEPT ![c].attempt = a]
                        /\ Goto(c, IF a = 0 THEN "modelling" ELSE "failing")
  BY DEF Draft
<1> DEFINE j == [job[c] EXCEPT !.conv = v]
           l == [loop[c] EXCEPT !.attempt = a]
           m == [message[c] EXCEPT !.reply = "blank"]
           p == IF a = 0 THEN "modelling" ELSE "failing"
<1>2. job[c] \in Job /\ loop[c] \in Loop /\ message[c] \in Message
  BY DEF LocalsOK, ChatOK
<1>3. j \in Job
  BY <1>2 DEF Job
<1>4. l \in Loop /\ l.todo = loop[c].todo /\ l.result = loop[c].result
  BY <1>2 DEF Loop
<1>5. m \in Message /\ m.reply = "blank"
  BY <1>2 DEF Message
<1>6. p \in Places /\ p \in {"modelling", "failing"}
  BY PlacesOf
<1>7. job' = [job EXCEPT ![c] = j] /\ loop' = [loop EXCEPT ![c] = l]
      /\ message' = [message EXCEPT ![c] = m] /\ Goto(c, p)
  BY <1>1 DEF Draft
<1> HIDE DEF j, l, m, p
<1>8. LocalsOK' /\ Others(c) /\ message' \in [Calls -> Message]
  <2>1. missed' \in [Calls -> SUBSET Users]
    BY DEF LocalsOK
  <2> QED BY <1>3, <1>4, <1>5, <1>6, <1>7, <2>1, OneMoves
<1>9. pc'[c] = p /\ job'[c] = j /\ loop'[c] = l /\ message'[c] = m
  BY <1>7 DEF LocalsOK, ChatOK, Goto
<1> QED BY <1>4, <1>5, <1>6, <1>8, <1>9 DEF j

(* A drafted turn fits its thread. *)
LEMMA DraftFits ==
    ASSUME NEW c \in Calls, job[c] \in Job, NEW v \in Convs, NoConv \notin Convs,
           job'[c] = [job[c] EXCEPT !.conv = v], pc'[c] \in Turns,
           "writeReporters" \in loop'[c].todo => copy'[c].req \in Requests,
           Suits(conv'[v], job[c])
    PROVE  ThreadFits(c)'
<1>1. /\ job'[c].conv = v /\ job'[c].by = job[c].by /\ job'[c].channel = job[c].channel
      /\ job'[c].named = job[c].named
  BY DEF Job
<1> QED BY <1>1 DEF ThreadFits, Suits

(* Which thread a turn belongs to *)
LEMMA FindTypes ==
    ASSUME TypeInv, NEW c \in Calls, FindConversation(c)
    PROVE  /\ LocalsOK' /\ Others(c) /\ message' \in [Calls -> Message] /\ ThreadFits(c)'
           /\ \/ pc'[c] = "forking" /\ job' = job /\ loop' = loop /\ message' = message
              \/ \E v \in Convs : Draft(c, v)
<1>1. LocalsOK /\ ChatOK /\ ThreadFits(c) /\ Recorded
  BY TypeParts DEF TypeInv
<1>2. /\ pc[c] = "finding" /\ UNCHANGED <<conv, recency, copy, missed>>
      /\ NoConv \notin Convs /\ job[c] \in Job
  BY <1>1, EventsType DEF FindConversation, tools, LocalsOK
<1>3. ASSUME NEW v \in Convs, Draft(c, v), Suits(conv[v], job[c])
      PROVE  LocalsOK' /\ Others(c) /\ message' \in [Calls -> Message] /\ ThreadFits(c)'
  <2>1. /\ LocalsOK' /\ Others(c) /\ message' \in [Calls -> Message]
        /\ pc'[c] \in {"modelling", "failing"} /\ job'[c] = [job[c] EXCEPT !.conv = v]
        /\ loop'[c].todo = loop[c].todo
    BY <1>1, <1>2, <1>3, DraftTypes
  <2>2. /\ "writeReporters" \in loop'[c].todo => copy'[c].req \in Requests
        /\ Suits(conv'[v], job[c]) /\ pc'[c] \in Turns
    BY <1>1, <1>2, <1>3, <2>1 DEF ThreadFits, Turns
  <2>3. ThreadFits(c)'
    BY <1>2, <2>1, <2>2, DraftFits
  <2> QED BY <2>1, <2>3
<1>4. CASE job[c].conv \in OwnThreads(By(c)) /\ Draft(c, job[c].conv)
  <2>1. /\ job[c].conv \in Convs /\ conv[job[c].conv].state = "live" /\ conv[job[c].conv].by = job[c].by
        /\ conv[job[c].conv].channel \in {"slack", "assistant_ui"}
    BY <1>4 DEF OwnThreads, ThreadsOf, By
  <2>2. job[c].named /\ job[c].channel = "assistant_ui"
    BY <1>1, <1>2, <2>1, PlacesOf DEF ThreadFits
  <2> QED BY <1>3, <1>4, <2>1, <2>2 DEF Suits
<1>5. CASE Threads(By(c), job[c].channel) # {} /\ Draft(c, Latest(Threads(By(c), job[c].channel)))
  <2> DEFINE V == Threads(By(c), job[c].channel)
  <2>1. V \subseteq RangeOf(recency)
    BY <1>1 DEF Threads, ThreadsOf, Recorded
  <2>2. Latest(V) \in V
    BY <1>1, <1>5, <2>1, LatestOfThem DEF ChatOK
  <2>3. Latest(V) \in Convs
        /\ conv[Latest(V)] = [state |-> "live", by |-> By(c), channel |-> job[c].channel]
    BY <1>1, <2>2, ThreadsAre
  <2> QED BY <1>3, <1>5, <2>3 DEF Suits, By
<1>6. CASE job[c].conv = NoConv /\ Goto(c, "forking") /\ UNCHANGED <<job, message, loop>>
  <2>1. LocalsOK' /\ Others(c)
    <3>1. missed' \in [Calls -> SUBSET Users]
      BY <1>1, <1>2 DEF LocalsOK
    <3> QED BY <1>1, <1>2, <1>6, <3>1, PlacesOf, OneMoves
  <2>2. pc'[c] = "forking" /\ message' \in [Calls -> Message]
    BY <1>1, <1>6 DEF LocalsOK, ChatOK, Goto
  <2>3. ThreadFits(c)'
    BY <1>1, <1>2, <1>6, <2>2, PlacesOf DEF ThreadFits
  <2> QED BY <1>6, <2>1, <2>2, <2>3
<1> QED BY <1>4, <1>5, <1>6 DEF FindConversation

LEMMA CreateTypes ==
    ASSUME TypeInv, NEW c \in Calls, CreateConversation(c)
    PROVE  /\ LocalsOK' /\ Others(c) /\ ChatOK' /\ ThreadFits(c)' /\ ConvsKept /\ Recorded'
           /\ \E v \in Convs : Draft(c, v)
<1>1. LocalsOK /\ ChatOK /\ ThreadFits(c) /\ Recorded
  BY TypeParts DEF TypeInv
<1>2. PICK v \in Convs : /\ conv[v].state = "free"
                         /\ conv' = [conv EXCEPT ![v] = [state |-> "live", by |-> By(c),
                                                         channel |-> job[c].channel]]
                         /\ recency' = Append(recency, v)
                         /\ Draft(c, v)
  BY DEF CreateConversation
<1>3. /\ pc[c] = "forking" /\ UNCHANGED <<copy, missed>>
      /\ NoConv \notin Convs /\ job[c] \in Job /\ By(c) \in Users /\ job[c].channel \in Channels
  BY <1>1, EventsType, JobFields DEF CreateConversation, tools, LocalsOK, By
<1>4. /\ LocalsOK' /\ Others(c) /\ message' \in [Calls -> Message]
      /\ pc'[c] \in {"modelling", "failing"} /\ job'[c] = [job[c] EXCEPT !.conv = v]
      /\ loop'[c].todo = loop[c].todo
  BY <1>1, <1>2, <1>3, DraftTypes
<1>5. [state |-> "live", by |-> By(c), channel |-> job[c].channel] \in Conv
  BY <1>3 DEF Conv
<1>6. conv' \in [Convs -> Conv]
      /\ conv'[v] = [state |-> "live", by |-> By(c), channel |-> job[c].channel]
      /\ \A w \in Convs \ {v} : conv'[w] = conv[w]
  BY <1>1, <1>2, <1>5 DEF ChatOK
<1>7. ThreadFits(c)'
  <2>1. "writeReporters" \in loop'[c].todo => copy'[c].req \in Requests
    BY <1>1, <1>3, <1>4 DEF ThreadFits
  <2>2. Suits(conv'[v], job[c]) /\ pc'[c] \in Turns
    BY <1>4, <1>6 DEF Suits, By, Turns
  <2> QED BY <1>3, <1>4, <2>1, <2>2, DraftFits
<1>8. /\ recency' \in Seq(Convs) /\ Len(recency') = Len(recency) + 1 /\ Len(recency) \in Nat
      /\ \A i \in 1..Len(recency) : recency'[i] = recency[i]
      /\ recency'[Len(recency) + 1] = v
      /\ DOMAIN recency = 1..Len(recency) /\ DOMAIN recency' = 1..Len(recency) + 1
  BY <1>1, <1>2, AppendProperties, LenProperties DEF ChatOK
<1>9. Recorded'
  <2>1. SUFFICES ASSUME NEW w \in Convs, conv'[w].state = "live" PROVE w \in RangeOf(recency)'
    BY DEF Recorded
  <2>2. CASE w = v
    <3>1. Len(recency) + 1 \in DOMAIN recency'
      BY <1>8
    <3> QED BY <1>8, <2>2, <3>1 DEF RangeOf
  <2>3. CASE w # v
    <3>1. w \in RangeOf(recency)
      BY <1>1, <1>6, <2>1, <2>3 DEF Recorded
    <3>2. PICK i \in 1..Len(recency) : w = recency[i]
      BY <1>8, <3>1 DEF RangeOf
    <3>3. i \in DOMAIN recency' /\ recency'[i] = w
      BY <1>8, <3>2
    <3> QED BY <3>3 DEF RangeOf
  <2> QED BY <2>2, <2>3
<1>10. ConvsKept
  BY <1>2, <1>6 DEF ConvsKept
<1> QED BY <1>2, <1>4, <1>6, <1>7, <1>8, <1>9, <1>10 DEF ChatOK

(* The loop of the model, and what an event does before it *)
Thinking(c) ==
    CallTools(c) \/ Retry(c) \/ SaveFallback(c) \/ SaveAnswer(c) \/ FinishTools(c)

LEMMA ThinkingTypes ==
    ASSUME TypeInv, NEW c \in Calls, Thinking(c)
    PROVE  /\ LocalsOK' /\ Others(c) /\ message' \in [Calls -> Message] /\ ThreadFits(c)'
           /\ UNCHANGED <<conv, recency, tools, job>>
<1>1. LocalsOK /\ ChatOK /\ ThreadFits(c)
  BY TypeParts DEF TypeInv
<1>2. loop[c] \in Loop /\ message[c] \in Message
  BY <1>1 DEF LocalsOK, ChatOK
<1>3. UNCHANGED <<conv, recency, tools, job>>
  BY DEF Thinking, CallTools, Retry, SaveFallback, SaveAnswer, SaveReply, FinishTools, chat
<1>4. UNCHANGED <<copy, missed>>
  BY <1>3 DEF tools
<1>5. ASSUME NEW p \in {"modelling", "tooling", "touching"}, Goto(c, p),
             NEW l \in Loop, loop' = [loop EXCEPT ![c] = l],
             "writeReporters" \in l.todo => l.todo = loop[c].todo,
             NEW m \in Message, message' = [message EXCEPT ![c] = m],
             pc[c] \in {"modelling", "tooling", "failing"}
      PROVE  LocalsOK' /\ Others(c) /\ message' \in [Calls -> Message] /\ ThreadFits(c)'
  <2>1. p \in Places /\ pc[c] \in Open
    BY <1>5, PlacesOf
  <2>2. LocalsOK' /\ Others(c) /\ message' \in [Calls -> Message]
    <3>1. missed' \in [Calls -> SUBSET Users]
      BY <1>1, <1>4 DEF LocalsOK
    <3> QED BY <1>1, <1>3, <1>4, <1>5, <2>1, <3>1, OneMoves
  <2>3. pc'[c] = p /\ loop'[c] = l
    BY <1>1, <1>5 DEF LocalsOK, Goto
  <2>4. ThreadFits(c)'
    BY <1>1, <1>3, <1>4, <1>5, <2>1, <2>3 DEF ThreadFits, Turns
  <2> QED BY <2>2, <2>4
<1>6. message' = message => message' = [message EXCEPT ![c] = message[c]]
  BY <1>1 DEF ChatOK
<1>7. CASE CallTools(c)
  <2>1. PICK todo \in ToolCalls : loop' = [loop EXCEPT ![c].todo = todo]
    BY <1>7 DEF CallTools
  <2> DEFINE l == [loop[c] EXCEPT !.todo = todo]
  <2>2. l \in Loop /\ l.todo = todo /\ "writeReporters" \notin l.todo
    BY <1>2, EventsType DEF Loop, ToolSteps
  <2>3. loop' = [loop EXCEPT ![c] = l] /\ pc[c] = "modelling" /\ Goto(c, "tooling") /\ message' = message
    BY <1>7, <2>1 DEF CallTools, chat
  <2> HIDE DEF l
  <2> QED BY <1>3, <1>2, <1>5, <1>6, <2>2, <2>3
<1>8. CASE Retry(c)
  <2> DEFINE l == [NewLoop EXCEPT !.attempt = 1]
  <2>1. l \in Loop /\ l.todo = {}
    BY NothingTypes DEF Loop
  <2>2. loop' = [loop EXCEPT ![c] = l] /\ pc[c] = "modelling" /\ Goto(c, "modelling") /\ message' = message
    BY <1>1, <1>8 DEF Retry, chat, Goto, LocalsOK
  <2> HIDE DEF l
  <2> QED BY <1>3, <1>2, <1>5, <1>6, <2>1, <2>2
<1>9. ASSUME NEW reply \in {"answer", "fallback"}, NEW r \in Requests \cup {NoRequest}, SaveReply(c, reply, r),
             pc[c] \in {"modelling", "failing"}
      PROVE  LocalsOK' /\ Others(c) /\ message' \in [Calls -> Message] /\ ThreadFits(c)'
  <2> DEFINE m == [message[c] EXCEPT !.reply = reply, !.request = r]
  <2>1. m \in Message
    BY <1>2 DEF Message
  <2>2. message' = [message EXCEPT ![c] = m] /\ loop' = [loop EXCEPT ![c] = NewLoop] /\ Goto(c, "touching")
    BY <1>9 DEF SaveReply
  <2> HIDE DEF m
  <2> QED BY <1>5, <1>9, <2>1, <2>2, NothingTypes
<1>10. CASE SaveFallback(c)
  <2>1. SaveReply(c, "fallback", NoRequest) /\ pc[c] \in {"modelling", "failing"}
    BY <1>10 DEF SaveFallback
  <2>2. NoRequest \in Requests \cup {NoRequest} /\ "fallback" \in {"answer", "fallback"}
    OBVIOUS
  <2> QED BY <1>3, <1>9, <2>1, <2>2
<1>11. CASE SaveAnswer(c)
  <2>1. loop[c].result \in Requests \cup {NoRequest}
    BY <1>2 DEF Loop
  <2>2. SaveReply(c, "answer", loop[c].result) /\ pc[c] \in {"modelling", "failing"}
        /\ "answer" \in {"answer", "fallback"}
    BY <1>11 DEF SaveAnswer
  <2> QED BY <1>3, <1>9, <2>1, <2>2
<1>12. CASE FinishTools(c)
  <2> DEFINE l == [loop[c] EXCEPT !.sawTool = TRUE]
  <2>1. l \in Loop /\ l.todo = loop[c].todo
    BY <1>2 DEF Loop
  <2>2. loop' = [loop EXCEPT ![c] = l] /\ pc[c] = "tooling" /\ Goto(c, "modelling") /\ message' = message
    BY <1>12 DEF FinishTools, chat
  <2> HIDE DEF l
  <2> QED BY <1>3, <1>2, <1>5, <1>6, <2>1, <2>2
<1> QED BY <1>3, <1>7, <1>8, <1>10, <1>11, <1>12 DEF Thinking

(* Before the turn *)
LEMMA PreparingTypes ==
    ASSUME TypeInv, NEW c \in Calls, AckMessage(c) \/ CreateFromFiles(c)
    PROVE  LocalsOK' /\ Others(c) /\ StoreOK' /\ ThreadFits(c)' /\ UNCHANGED <<chat, job>>
<1>1. LocalsOK /\ ChatOK /\ StoreOK /\ ThreadFits(c)
  BY TypeParts DEF TypeInv
<1>2. UNCHANGED <<conv, recency, message, job, reporters, copy, missed>>
  BY DEF AckMessage, CreateFromFiles, chat, tools, store
<1>3. missed' \in [Calls -> SUBSET Users]
  BY <1>1, <1>2 DEF LocalsOK
<1>4. CASE AckMessage(c)
  <2>1. Goto(c, "finding") /\ pc[c] = "acking" /\ UNCHANGED <<loop, request>>
    BY <1>4 DEF AckMessage, tools, store
  <2>2. LocalsOK' /\ Others(c)
    BY <1>1, <1>2, <1>3, <2>1, PlacesOf, OneMoves
  <2>3. pc'[c] = "finding"
    BY <1>1, <2>1 DEF LocalsOK, Goto
  <2>4. ThreadFits(c)'
    BY <1>1, <1>2, <2>1, <2>3, PlacesOf DEF ThreadFits, Turns
  <2> QED BY <1>1, <1>2, <2>1, <2>2, <2>4 DEF StoreOK, chat
<1>5. CASE CreateFromFiles(c)
  <2>1. PICK r \in FreeRequests : FileRow(c, r, 0) /\ loop' = [loop EXCEPT ![c].result = r]
    BY <1>5 DEF CreateFromFiles
  <2> DEFINE l == [loop[c] EXCEPT !.result = r]
             q == [state |-> "created", call |-> c, attempt |-> 0]
  <2>2. r \in Requests
    BY DEF FreeRequests
  <2>3. l \in Loop /\ l.todo = loop[c].todo
    <3>1. loop[c] \in Loop
      BY <1>1 DEF LocalsOK
    <3> QED BY <2>2, <3>1 DEF Loop
  <2>4. q \in Request
    BY DEF Request
  <2>5. loop' = [loop EXCEPT ![c] = l] /\ request' = [request EXCEPT ![r] = q]
        /\ Goto(c, "ingesting") /\ pc[c] = "creating"
    BY <1>5, <2>1 DEF CreateFromFiles, FileRow
  <2> HIDE DEF l, q
  <2>6. LocalsOK' /\ Others(c)
    BY <1>1, <1>2, <1>3, <2>3, <2>5, PlacesOf, OneMoves
  <2>7. pc'[c] = "ingesting" /\ loop'[c] = l
    BY <1>1, <2>5 DEF LocalsOK, Goto
  <2>8. ThreadFits(c)'
    BY <1>1, <1>2, <2>3, <2>5, <2>7, PlacesOf DEF ThreadFits, Turns
  <2>9. StoreOK'
    BY <1>1, <1>2, <2>4, <2>5 DEF StoreOK
  <2> QED BY <1>2, <2>6, <2>8, <2>9 DEF chat
<1> QED BY <1>4, <1>5

(* The tools *)
Working(c) ==
    FileRequest(c) \/ RouteRequest(c) \/ ReadReporters(c) \/ WriteReporters(c) \/ FailTool(c)

LEMMA WorkingTypes ==
    ASSUME TypeInv, NEW c \in Calls, Working(c)
    PROVE  LocalsOK' /\ Others(c) /\ StoreOK' /\ ThreadFits(c)' /\ UNCHANGED <<chat, job, pc>>
<1>1. LocalsOK /\ ChatOK /\ StoreOK /\ ThreadFits(c)
  BY TypeParts DEF TypeInv
<1>2. UNCHANGED <<chat, job, pc, conv, recency, message>> /\ pc[c] = "tooling" /\ Goto(c, "tooling")
  BY <1>1 DEF Working, FileRequest, RouteRequest, ReadReporters, WriteReporters, FailTool, chat,
     Doing, Goto, LocalsOK
<1>3. loop[c] \in Loop /\ "tooling" \in Places
  BY <1>1, PlacesOf DEF LocalsOK
<1>4. ASSUME NEW l \in Loop, loop' = [loop EXCEPT ![c] = l],
             NEW k \in Copy, copy' = [copy EXCEPT ![c] = k],
             missed' \in [Calls -> SUBSET Users],
             "writeReporters" \in l.todo => k.req \in Requests
      PROVE  LocalsOK' /\ Others(c) /\ ThreadFits(c)'
  <2>1. LocalsOK' /\ Others(c)
    BY <1>1, <1>2, <1>3, <1>4, OneMoves
  <2>2. loop'[c] = l /\ copy'[c] = k
    BY <1>1, <1>4 DEF LocalsOK
  <2> QED BY <1>1, <1>2, <1>4, <2>1, <2>2 DEF ThreadFits, Turns
<1>5. copy[c] \in Copy /\ missed \in [Calls -> SUBSET Users]
      /\ (UNCHANGED copy => copy' = [copy EXCEPT ![c] = copy[c]])
  BY <1>1 DEF LocalsOK
<1>6. ASSUME NEW step, NEW next, next \subseteq {"route", "writeReporters"}
      PROVE  /\ [loop[c] EXCEPT !.todo = (@ \ {step}) \cup next] \in Loop
             /\ [loop[c] EXCEPT !.todo = (@ \ {step}) \cup next].todo = (loop[c].todo \ {step}) \cup next
  BY <1>3, <1>6 DEF Loop, ToolSteps
<1>7. CASE FileRequest(c)
  <2>1. PICK r \in FreeRequests : FileRow(c, r, loop[c].attempt)
    BY <1>7 DEF FileRequest
  <2> DEFINE l == [loop[c] EXCEPT !.todo = (@ \ {"file"}) \cup {"route"}]
             q == [state |-> "created", call |-> c, attempt |-> loop[c].attempt]
  <2>2. l \in Loop /\ l.todo = (loop[c].todo \ {"file"}) \cup {"route"}
    BY <1>6
  <2>3. q \in Request /\ r \in Requests
    BY <1>3 DEF Request, Loop, FreeRequests
  <2>4. loop' = [loop EXCEPT ![c] = l] /\ request' = [request EXCEPT ![r] = q]
        /\ UNCHANGED <<reporters, copy, missed>>
    BY <1>7, <2>1 DEF FileRequest, FileRow, Proceed
  <2> HIDE DEF l, q
  <2>5. "writeReporters" \in l.todo => copy[c].req \in Requests
    BY <1>1, <2>2 DEF ThreadFits
  <2>6. StoreOK'
    BY <1>1, <2>3, <2>4 DEF StoreOK
  <2> QED BY <1>2, <1>4, <1>5, <2>2, <2>4, <2>5, <2>6
<1>8. CASE RouteRequest(c)
  <2>1. PICK r \in Requests :
          /\ request' = [request EXCEPT ![r].state = "routed"]
          /\ loop' = [loop EXCEPT ![c].todo = @ \ {"route"}, ![c].result = FirstFiled(@, r)]
    BY <1>8 DEF RouteRequest
  <2> DEFINE l == [loop[c] EXCEPT !.todo = @ \ {"route"}, !.result = FirstFiled(@, r)]
             q == [request[r] EXCEPT !.state = "routed"]
  <2>2. l \in Loop /\ l.todo = loop[c].todo \ {"route"}
    BY <1>3 DEF Loop, FirstFiled
  <2>3. q \in Request
    <3>1. request[r] \in Request
      BY <1>1 DEF StoreOK
    <3> QED BY <3>1 DEF Request
  <2>4. request' = [request EXCEPT ![r] = q] /\ UNCHANGED <<reporters, copy, missed>>
    BY <1>8, <2>1 DEF RouteRequest
  <2>5. loop' = [loop EXCEPT ![c] = l]
    BY <1>1, <2>1 DEF LocalsOK
  <2> HIDE DEF l, q
  <2>6. "writeReporters" \in l.todo => copy[c].req \in Requests
    BY <1>1, <2>2 DEF ThreadFits
  <2>7. StoreOK'
    BY <1>1, <2>3, <2>4 DEF StoreOK
  <2> QED BY <1>2, <1>4, <1>5, <2>2, <2>4, <2>5, <2>6, <2>7
<1>9. CASE ReadReporters(c)
  <2>1. PICK r \in InitRequests :
          IF By(c) \in reporters[r]
          THEN Proceed(c, "readReporters", {}) /\ UNCHANGED <<copy, missed>>
          ELSE /\ Proceed(c, "readReporters", {"writeReporters"})
               /\ copy' = [copy EXCEPT ![c] = [req |-> r, list |-> reporters[r]]]
               /\ UNCHANGED missed
    BY <1>9 DEF ReadReporters
  <2>2. StoreOK' /\ missed' = missed
    BY <1>1, <1>9, <2>1 DEF ReadReporters, store, StoreOK
  <2> DEFINE m == [loop[c] EXCEPT !.todo = (@ \ {"readReporters"}) \cup {}]
             l == [loop[c] EXCEPT !.todo = (@ \ {"readReporters"}) \cup {"writeReporters"}]
             k == [req |-> r, list |-> reporters[r]]
  <2>3. CASE By(c) \in reporters[r]
    <3>1. m \in Loop /\ m.todo = (loop[c].todo \ {"readReporters"}) \cup {}
      BY <1>6
    <3>2. loop' = [loop EXCEPT ![c] = m] /\ UNCHANGED copy
      BY <2>1, <2>3 DEF Proceed
    <3> HIDE DEF m
    <3>3. "writeReporters" \in m.todo => copy[c].req \in Requests
      BY <1>1, <3>1 DEF ThreadFits
    <3> QED BY <1>2, <1>4, <1>5, <2>2, <3>1, <3>2, <3>3
  <2>4. CASE By(c) \notin reporters[r]
    <3>1. l \in Loop
      BY <1>6
    <3>2. r \in Requests
      BY EventsType
    <3>3. k \in Copy /\ k.req \in Requests
      BY <1>1, <3>2 DEF Copy, StoreOK
    <3>4. loop' = [loop EXCEPT ![c] = l] /\ copy' = [copy EXCEPT ![c] = k]
      BY <2>1, <2>4 DEF Proceed
    <3> HIDE DEF l, k
    <3> QED BY <1>2, <1>4, <1>5, <2>2, <3>1, <3>3, <3>4
  <2> QED BY <2>3, <2>4
<1>10. CASE WriteReporters(c)
  <2> DEFINE r == copy[c].req
             l == [loop[c] EXCEPT !.todo = (@ \ {"writeReporters"}) \cup {}]
  <2>1. /\ reporters' = [reporters EXCEPT ![r] = Extended(copy[c].list, By(c))]
        /\ missed' = [d \in Calls |->
              IF d = c THEN {}
              ELSE missed[d] \cup IF copy[d].req = r THEN reporters'[r] \ reporters[r] ELSE {}]
        /\ copy' = [copy EXCEPT ![c] = NoCopy] /\ loop' = [loop EXCEPT ![c] = l] /\ request' = request
        /\ "writeReporters" \in loop[c].todo
    BY <1>10 DEF WriteReporters, Proceed, Doing
  <2>2. l \in Loop /\ l.todo = (loop[c].todo \ {"writeReporters"}) \cup {}
    BY <1>6
  <2>3. r \in Requests /\ Extended(copy[c].list, By(c)) \subseteq Users
    <3>1. job[c] \in Job
      BY <1>1 DEF LocalsOK
    <3> QED BY <1>1, <1>5, <2>1, <3>1, JobFields DEF ThreadFits, Extended, Copy, By
  <2> HIDE DEF r, l
  <2>4. reporters' \in [Requests -> SUBSET Users]
    BY <1>1, <2>1, <2>3 DEF StoreOK
  <2>5. missed' \in [Calls -> SUBSET Users]
    <3>1. reporters'[r] \subseteq Users /\ \A d \in Calls : missed[d] \subseteq Users
      BY <1>5, <2>3, <2>4
    <3> QED BY <2>1, <3>1
  <2>6. StoreOK' /\ "writeReporters" \notin l.todo
    BY <1>1, <2>1, <2>2, <2>4 DEF StoreOK
  <2> QED BY <1>2, <1>4, <2>1, <2>2, <2>5, <2>6, NothingTypes
<1>11. CASE FailTool(c)
  <2>1. PICK step \in {"file", "route", "writeReporters"} : Proceed(c, step, {})
    BY <1>11 DEF FailTool
  <2> DEFINE l == [loop[c] EXCEPT !.todo = (@ \ {step}) \cup {}]
  <2>2. l \in Loop /\ l.todo = (loop[c].todo \ {step}) \cup {}
    BY <1>6
  <2>3. loop' = [loop EXCEPT ![c] = l]
    BY <2>1 DEF Proceed
  <2> HIDE DEF l
  <2>4. loop'[c] = l
    BY <1>1, <2>3 DEF LocalsOK
  <2>5. StoreOK'
    BY <1>1, <1>11 DEF FailTool, store, StoreOK
  <2>6. CASE "writeReporters" \in l.todo
    <3>1. UNCHANGED <<copy, missed>> /\ copy[c].req \in Requests
      BY <1>1, <1>11, <2>2, <2>4, <2>6 DEF FailTool, ThreadFits
    <3> QED BY <1>2, <1>4, <1>5, <2>2, <2>3, <2>5, <3>1
  <2>7. CASE "writeReporters" \notin l.todo
    <3>1. copy' = [copy EXCEPT ![c] = NoCopy] /\ missed' = [missed EXCEPT ![c] = {}]
      BY <1>11, <2>4, <2>7 DEF FailTool
    <3>2. missed' \in [Calls -> SUBSET Users]
      BY <1>5, <3>1
    <3> QED BY <1>2, <1>4, <2>2, <2>3, <2>5, <2>7, <3>1, <3>2, NothingTypes
  <2> QED BY <2>6, <2>7
<1> QED BY <1>7, <1>8, <1>9, <1>10, <1>11 DEF Working

-----------------------------------------------------------------------------
(* Every step *)

CallStep(c) == Send(c) \/ SlackStep(c) \/ TurnStep(c) \/ ToolStep(c)

LEMMA CallKinds ==
    ASSUME NEW c \in Calls, CallStep(c)
    PROVE  \/ Send(c) \/ Ending(c) \/ FindConversation(c) \/ CreateConversation(c)
           \/ Thinking(c) \/ AckMessage(c) \/ CreateFromFiles(c) \/ Working(c)
BY DEF CallStep, SlackStep, TurnStep, ToolStep, Ending, Thinking, Working

(* The rows that a call that ends writes *)
LEMMA EndingRows ==
    ASSUME TypeInv, NEW c \in Calls, Ending(c)
    PROVE  StoreOK' /\ conv' = conv /\ recency' \in Seq(Convs) /\ Recorded'
<1>1. ChatOK /\ StoreOK /\ LocalsOK /\ ThreadFits(c) /\ Recorded
  BY TypeParts DEF TypeInv
<1>2. conv' = conv
  BY DEF Ending, Ignore, Drop, RouteFiles, RefuseConversation, FailTurn, Touch, chat
<1>3. CASE Ignore(c) \/ Drop(c) \/ RefuseConversation(c) \/ FailTurn(c)
  <2>1. UNCHANGED <<conv, recency, request, reporters>>
    BY <1>3 DEF Ignore, Drop, RefuseConversation, FailTurn, store, chat
  <2> QED BY <1>1, <2>1 DEF StoreOK, ChatOK, Recorded
<1>4. CASE RouteFiles(c)
  <2> DEFINE r == loop[c].result
             q == [request[r] EXCEPT !.state = "routed"]
  <2>1. request' = [request EXCEPT ![r] = q] /\ UNCHANGED <<conv, recency, reporters>>
    BY <1>4 DEF RouteFiles, chat
  <2>2. r \in Requests => q \in Request
    <3>1. r \in Requests => request[r] \in Request
      BY <1>1 DEF StoreOK
    <3> QED BY <3>1 DEF Request
  <2> HIDE DEF r, q
  <2>3. request' \in [Requests -> Request]
    BY <1>1, <2>1, <2>2 DEF StoreOK
  <2> QED BY <1>1, <2>1, <2>3 DEF StoreOK, ChatOK, Recorded
<1>5. CASE Touch(c)
  <2>1. recency' = ToTheEnd(recency, job[c].conv) /\ UNCHANGED store /\ pc[c] = "touching"
    BY <1>5 DEF Touch
  <2>2. job[c].conv # NoConv
    BY <1>1, <2>1 DEF ThreadFits, Turns
  <2>3. job[c].conv \in Convs /\ conv[job[c].conv].state = "live"
    BY <1>1, <2>1, <2>2, PlacesOf, JobFields DEF ThreadFits, Turns, Suits, LocalsOK
  <2>4. job[c].conv \in RangeOf(recency)
    BY <1>1, <2>3 DEF Recorded
  <2>5. recency' \in Seq(Convs) /\ RangeOf(recency) \subseteq RangeOf(recency')
    BY <1>1, <2>1, <2>4, MovedToTheEnd DEF ChatOK
  <2>6. Recorded'
    <3>1. SUFFICES ASSUME NEW w \in Convs, conv'[w].state = "live" PROVE w \in RangeOf(recency)'
      BY DEF Recorded
    <3>2. w \in RangeOf(recency')
      BY <1>1, <1>2, <2>5, <3>1 DEF Recorded
    <3> QED BY <3>2 DEF RangeOf
  <2> QED BY <1>1, <1>2, <2>1, <2>5, <2>6 DEF store, StoreOK
<1> QED BY <1>2, <1>3, <1>4, <1>5 DEF Ending

LEMMA CallTypes ==
    ASSUME TypeInv, NEW c \in Calls, CallStep(c)
    PROVE  TypeInv' /\ Others(c)
<1>1. /\ SlackOK /\ ChatOK /\ StoreOK /\ LocalsOK /\ Recorded /\ restarts \in 0..MaxRestarts
      /\ NoConv \notin Convs
  BY TypeParts, EventsType DEF TypeInv
<1>2. UNCHANGED <<recent, since, restarts>>
  BY DEF CallStep, Send, SlackStep, Ignore, Drop, CreateFromFiles, RouteFiles, AckMessage,
     TurnStep, FindConversation, RefuseConversation, CreateConversation, FailTurn, CallTools, Retry,
     SaveFallback, SaveAnswer,
     SaveReply, Touch, ToolStep, FileRequest, RouteRequest, ReadReporters, WriteReporters, FailTool,
     FinishTools, slack
<1>3. SlackOK' /\ restarts' \in 0..MaxRestarts
  BY <1>1, <1>2 DEF SlackOK
<1>4. ASSUME LocalsOK', Others(c), ThreadFits(c)', ConvsKept, ChatOK', StoreOK', Recorded'
      PROVE  TypeInv' /\ Others(c)
  <2>1. ASSUME NEW d \in Calls \ {c} PROVE ThreadFits(d)'
    BY <1>1, <1>4, <2>1, FitsKept DEF Others, TypeInv
  <2> QED BY <1>3, <1>4, <2>1, TypePartsPrimed DEF TypeInv
<1>5. conv' = conv => ConvsKept
  BY DEF ConvsKept
<1>6. UNCHANGED <<conv, recency>> => Recorded'
  BY <1>1 DEF Recorded, RangeOf
<1>7. CASE Send(c)
  <2>1. UNCHANGED <<conv, recency, message, request, reporters>>
    BY <1>7 DEF Send, chat, tools, store
  <2>2. ChatOK' /\ StoreOK'
    BY <1>1, <2>1 DEF ChatOK, StoreOK
  <2> QED BY <1>4, <1>5, <1>6, <1>7, <2>1, <2>2, SendBegins
<1>8. CASE Ending(c)
  <2>1. ChatOK'
    BY <1>1, <1>8, EndingTypes, EndingRows DEF ChatOK
  <2> QED BY <1>4, <1>5, <1>8, <2>1, EndingTypes, EndingRows
<1>9. CASE FindConversation(c)
  <2>1. UNCHANGED <<conv, recency, request, reporters>>
    BY <1>9 DEF FindConversation, tools, store
  <2>2. ChatOK' /\ StoreOK'
    BY <1>1, <1>9, <2>1, FindTypes DEF ChatOK, StoreOK
  <2> QED BY <1>4, <1>5, <1>6, <1>9, <2>1, <2>2, FindTypes
<1>10. CASE CreateConversation(c)
  <2>1. StoreOK'
    BY <1>1, <1>10 DEF CreateConversation, tools, store, StoreOK
  <2> QED BY <1>4, <1>10, <2>1, CreateTypes
<1>11. CASE Thinking(c)
  <2>1. /\ LocalsOK' /\ Others(c) /\ message' \in [Calls -> Message] /\ ThreadFits(c)'
        /\ UNCHANGED <<conv, recency, tools, job>>
    BY <1>11, ThinkingTypes
  <2>2. ChatOK' /\ StoreOK'
    BY <1>1, <2>1 DEF tools, store, ChatOK, StoreOK
  <2> QED BY <1>4, <1>5, <1>6, <2>1, <2>2
<1>12. CASE AckMessage(c) \/ CreateFromFiles(c)
  <2>1. LocalsOK' /\ Others(c) /\ StoreOK' /\ ThreadFits(c)' /\ UNCHANGED <<conv, recency, message>>
    BY <1>12, PreparingTypes DEF chat
  <2>2. ChatOK'
    BY <1>1, <2>1 DEF ChatOK
  <2> QED BY <1>4, <1>5, <1>6, <2>1, <2>2
<1>13. CASE Working(c)
  <2>1. LocalsOK' /\ Others(c) /\ StoreOK' /\ ThreadFits(c)' /\ UNCHANGED <<conv, recency, message>>
    BY <1>13, WorkingTypes DEF chat
  <2>2. ChatOK'
    BY <1>1, <2>1 DEF ChatOK
  <2> QED BY <1>4, <1>5, <1>6, <2>1, <2>2
<1> QED BY <1>7, <1>8, <1>9, <1>10, <1>11, <1>12, <1>13, CallKinds

LEMMA RememberedIs ==
    ASSUME SlackOK, NEW e \in Events
    PROVE  Remembered(e) \in Seq(Events) /\ Len(Remembered(e)) <= MaxRemembered
<1> DEFINE s == Append(recent, e)
<1>1. s \in Seq(Events) /\ Len(s) = Len(recent) + 1 /\ Len(recent) \in Nat /\ s # <<>>
  BY AppendProperties, LenProperties DEF SlackOK
<1>2. MaxRemembered \in Nat \ {0} /\ Len(recent) <= MaxRemembered
  BY BoundsType DEF SlackOK
<1> HIDE DEF s
<1>3. Tail(s) \in Seq(Events) /\ Len(Tail(s)) = Len(s) - 1
  BY <1>1, HeadTailProperties
<1>4. Remembered(e) = IF Len(s) > MaxRemembered THEN Tail(s) ELSE s
  BY DEF Remembered, s
<1> QED BY <1>1, <1>2, <1>3, <1>4

LEMMA DeliverTypes ==
    ASSUME TypeInv, NEW e \in Events, Deliver(e)
    PROVE  TypeInv'
<1>1. /\ SlackOK /\ ChatOK /\ StoreOK /\ LocalsOK /\ Recorded /\ restarts \in 0..MaxRestarts
      /\ NoConv \notin Convs
  BY TypeParts, EventsType DEF TypeInv
<1>2. /\ recent' = Remembered(e)
      /\ since' = [f \in DOMAIN since \cup {e} |-> IF f = e THEN {} ELSE since[f] \cup {e}]
      /\ UNCHANGED <<conv, recency, message, request, reporters, restarts>>
  BY DEF Deliver, chat, tools, store
<1>3. SlackOK'
  <2>1. /\ DOMAIN since' = DOMAIN since \cup {e}
        /\ \A f \in DOMAIN since' : since'[f] \subseteq Events
    BY <1>1, <1>2 DEF SlackOK
  <2> QED BY <1>1, <1>2, <2>1, RememberedIs DEF SlackOK
<1>4. ChatOK' /\ StoreOK' /\ Recorded' /\ ConvsKept
  BY <1>1, <1>2 DEF ChatOK, StoreOK, Recorded, RangeOf, ConvsKept
<1>5. PICK c \in Calls : LocalsOK' /\ Others(c) /\ ThreadFits(c)'
  BY DeliverBegins
<1>6. ASSUME NEW d \in Calls \ {c} PROVE ThreadFits(d)'
  BY <1>1, <1>4, <1>5, <1>6, FitsKept DEF Others, TypeInv
<1> QED BY <1>1, <1>2, <1>3, <1>4, <1>5, <1>6, TypePartsPrimed DEF TypeInv

LEMMA RestartTypes ==
    ASSUME TypeInv, Restart
    PROVE  TypeInv'
<1>1. /\ SlackOK /\ ChatOK /\ StoreOK /\ LocalsOK /\ Recorded /\ restarts \in 0..MaxRestarts
      /\ NoConv \notin Convs /\ MaxRestarts \in Nat /\ MaxRemembered \in Nat
  BY TypeParts, EventsType, BoundsType DEF TypeInv
<1> DEFINE C == {c \in Calls : pc[c] \in Open}
<1>2. /\ Ends(C, "lost") /\ restarts > 0 /\ restarts' = restarts - 1 /\ recent' = <<>> /\ since' = <<>>
      /\ UNCHANGED <<conv, recency, message, request, reporters>>
  BY DEF Restart, chat, store
<1>3. /\ LocalsOK'
      /\ \A d \in C : /\ pc'[d] = "lost" /\ job'[d] = NoJob /\ loop'[d] = NewLoop
                      /\ copy'[d] = NoCopy /\ missed'[d] = {}
      /\ \A d \in Calls \ C : /\ pc'[d] = pc[d] /\ job'[d] = job[d] /\ loop'[d] = loop[d]
                              /\ copy'[d] = copy[d] /\ missed'[d] = missed[d]
  <2>1. C \subseteq Calls /\ "lost" \in Places
    BY PlacesOf
  <2> HIDE DEF C
  <2> QED BY <1>1, <1>2, <2>1, SomeEnd
<1>4. SlackOK' /\ restarts' \in 0..MaxRestarts
  BY <1>1, <1>2 DEF SlackOK
<1>5. ChatOK' /\ StoreOK' /\ Recorded' /\ ConvsKept
  BY <1>1, <1>2 DEF ChatOK, StoreOK, Recorded, RangeOf, ConvsKept
<1>6. ASSUME NEW d \in Calls PROVE ThreadFits(d)'
  <2>1. CASE d \in C
    BY <1>3, <2>1, PlacesOf, EndedFits
  <2>2. CASE d \notin C
    BY <1>1, <1>3, <1>5, <2>2, FitsKept DEF TypeInv
  <2> QED BY <2>1, <2>2
<1> QED BY <1>3, <1>4, <1>5, <1>6, TypePartsPrimed DEF TypeInv

LEMMA TypeInit == Init => TypeInv
<1> SUFFICES ASSUME Init PROVE TypeInv
  OBVIOUS
<1>1. NoJob.by \in Users
  BY NothingTypes, JobFields
<1>2. SlackOK /\ restarts \in 0..MaxRestarts
  BY BoundsType DEF Init, SlackOK
<1>3. ChatOK /\ Recorded
  BY <1>1 DEF Init, ChatOK, Conv, Message, Channels, Recorded
<1>4. StoreOK
  BY DEF Init, StoreOK, Request
<1>5. LocalsOK
  BY NothingTypes, PlacesOf DEF Init, LocalsOK
<1>6. \A c \in Calls : ThreadFits(c)
  BY NothingTypes, PlacesOf DEF Init, ThreadFits
<1> QED BY <1>2, <1>3, <1>4, <1>5, <1>6, TypeParts DEF TypeInv

LEMMA TypeStep == TypeInv /\ [Next]_vars => TypeInv'
<1> SUFFICES ASSUME TypeInv, [Next]_vars PROVE TypeInv'
  OBVIOUS
<1>1. CASE UNCHANGED vars
  <2>1. UNCHANGED <<recent, since, conv, recency, message, request, reporters, copy, missed,
                    job, pc, loop, restarts>>
    BY <1>1 DEF vars, slack, chat, tools, store
  <2>2. TypeOK'
    BY <2>1 DEF TypeInv, TypeOK
  <2>3. Recorded' /\ \A c \in Calls : ThreadFits(c)'
    BY <2>1 DEF TypeInv, Recorded, RangeOf, ThreadFits
  <2> QED BY <2>2, <2>3 DEF TypeInv
<1> QED BY <1>1, DeliverTypes, CallTypes, RestartTypes DEF Next, CallStep, AllServed

LEMMA TypesHold == Spec => []TypeInv
BY TypeInit, TypeStep, PTL DEF Spec

(* The ids an instance remembers never outgrow their bound, and every row  *)
(* and every local of a call is one the program can hold.                   *)
THEOREM TypeCorrect == Spec => []TypeOK
<1>1. TypeInv => TypeOK
  BY DEF TypeInv
<1> QED BY <1>1, TypesHold, PTL

(* A turn works on a thread of its own account, and on one of the other     *)
(* channel only when the browser has named a thread of Slack               *)
(* (assistant.service.ts:285-287, 357-371, 610-622).                        *)
THEOREM ThreadsProved == Spec => []ThreadsKeepToTheirOwner
<1>1. TypeInv => ThreadsKeepToTheirOwner
  BY DEF TypeInv, ThreadFits, Suits, Turns, ThreadsKeepToTheirOwner, By
<1> QED BY <1>1, TypesHold, PTL

-----------------------------------------------------------------------------
(* Lists of reporters *)

(* What is on a list is on the copy of it that a join is about to write     *)
(* back, or was put there after the copy was taken.                         *)
JoinFits(c) ==
    copy[c].req \in Requests => reporters[copy[c].req] \subseteq copy[c].list \cup missed[c]

JoinInv == \A c \in Calls : JoinFits(c)

(* The steps that know nothing of the lists *)
LEMMA JoinsEnd ==
    ASSUME LocalsOK, JoinInv, NEW C, C \subseteq Calls, NEW p \in Places, Ends(C, p),
           UNCHANGED reporters
    PROVE  JoinInv'
<1>1. ASSUME NEW d \in Calls PROVE JoinFits(d)'
  <2>1. CASE d \in C
    <3>1. copy'[d].req = NoRequest
      BY <2>1, SomeEnd, NothingTypes
    <3> QED BY <3>1, EventsType DEF JoinFits
  <2>2. CASE d \notin C
    <3>1. copy'[d] = copy[d] /\ missed'[d] = missed[d]
      BY <2>2, SomeEnd
    <3> QED BY <3>1 DEF JoinFits, JoinInv
  <2> QED BY <2>1, <2>2
<1> QED BY <1>1 DEF JoinInv

LEMMA JoinsWait ==
    ASSUME JoinInv, UNCHANGED <<reporters, copy, missed>>
    PROVE  JoinInv'
BY DEF JoinInv, JoinFits

LEMMA JoinRead ==
    ASSUME LocalsOK, JoinInv, NEW c \in Calls, ReadReporters(c)
    PROVE  JoinInv'
<1>1. UNCHANGED <<reporters, missed>>
  BY DEF ReadReporters, store
<1>2. PICK r \in InitRequests :
        \/ UNCHANGED <<copy, missed>>
        \/ copy' = [copy EXCEPT ![c] = [req |-> r, list |-> reporters[r]]]
  BY DEF ReadReporters
<1>3. CASE UNCHANGED <<copy, missed>>
  BY <1>1, <1>3, JoinsWait
<1>4. CASE copy' = [copy EXCEPT ![c] = [req |-> r, list |-> reporters[r]]]
  BY <1>1, <1>4 DEF JoinInv, JoinFits, LocalsOK
<1> QED BY <1>2, <1>3, <1>4

LEMMA JoinFails ==
    ASSUME LocalsOK, JoinInv, NEW c \in Calls, FailTool(c)
    PROVE  JoinInv'
<1>1. UNCHANGED reporters
  BY DEF FailTool, store
<1>2. \/ UNCHANGED <<copy, missed>>
      \/ copy' = [copy EXCEPT ![c] = NoCopy] /\ missed' = [missed EXCEPT ![c] = {}]
  BY DEF FailTool
<1>3. CASE UNCHANGED <<copy, missed>>
  BY <1>1, <1>3, JoinsWait
<1>4. CASE copy' = [copy EXCEPT ![c] = NoCopy] /\ missed' = [missed EXCEPT ![c] = {}]
  BY <1>1, <1>4, NothingTypes, EventsType DEF JoinInv, JoinFits, LocalsOK
<1> QED BY <1>2, <1>3, <1>4

(* What the write adds is missed by every copy of the list but its own.     *)
LEMMA JoinWritten ==
    ASSUME LocalsOK, StoreOK, JoinInv, NEW c \in Calls, WriteReporters(c),
           copy[c].req \in Requests
    PROVE  /\ JoinInv'
           /\ \A r \in Requests : \A u \in reporters[r] \ reporters'[r] :
                copy[c].req = r /\ u \in missed[c]
<1> DEFINE r == copy[c].req
<1>1. /\ reporters' = [reporters EXCEPT ![r] = Extended(copy[c].list, By(c))]
      /\ missed' = [d \in Calls |->
            IF d = c THEN {}
            ELSE missed[d] \cup IF copy[d].req = r THEN reporters'[r] \ reporters[r] ELSE {}]
      /\ copy' = [copy EXCEPT ![c] = NoCopy]
  BY DEF WriteReporters
<1>2. ASSUME NEW d \in Calls PROVE JoinFits(d)'
  <2>1. CASE d = c
    <3>1. copy'[d].req = NoRequest
      BY <1>1, <2>1, NothingTypes DEF LocalsOK
    <3> QED BY <3>1, EventsType DEF JoinFits
  <2>2. CASE d # c /\ copy[d].req = r
    <3>1. copy'[d] = copy[d] /\ missed'[d] = missed[d] \cup (reporters'[r] \ reporters[r])
      BY <1>1, <2>2 DEF LocalsOK
    <3>2. reporters[r] \subseteq copy[d].list \cup missed[d]
      BY <2>2 DEF JoinInv, JoinFits
    <3> QED BY <2>2, <3>1, <3>2 DEF JoinFits
  <2>3. CASE d # c /\ copy[d].req # r
    <3>1. copy'[d] = copy[d] /\ missed[d] \subseteq missed'[d]
      BY <1>1, <2>3 DEF LocalsOK
    <3>2. copy[d].req \in Requests => reporters'[copy[d].req] = reporters[copy[d].req]
      BY <1>1, <2>3 DEF StoreOK
    <3> QED BY <3>1, <3>2 DEF JoinInv, JoinFits
  <2> QED BY <2>1, <2>2, <2>3
<1>3. ASSUME NEW s \in Requests, NEW u \in reporters[s] \ reporters'[s]
      PROVE  r = s /\ u \in missed[c]
  <2>1. r = s
    BY <1>1, <1>3 DEF StoreOK
  <2>2. copy[c].list \subseteq reporters'[s]
    BY <1>1, <2>1 DEF StoreOK, Extended
  <2>3. reporters[r] \subseteq copy[c].list \cup missed[c]
    BY DEF JoinInv, JoinFits
  <2> QED BY <2>1, <2>2, <2>3
<1> QED BY <1>2, <1>3 DEF JoinInv

(* Nobody else writes a list. *)
LEMMA JoinKinds ==
    ASSUME TypeInv, [Next]_vars
    PROVE  \/ UNCHANGED <<reporters, copy, missed>>
           \/ /\ UNCHANGED reporters
              /\ \E C \in SUBSET Calls, p \in Places : Ends(C, p)
           \/ \E c \in Calls : ReadReporters(c) \/ FailTool(c) \/ WriteReporters(c)
<1>1. CASE UNCHANGED vars
  BY <1>1 DEF vars, tools, store
<1>2. ASSUME NEW e \in Events, Deliver(e) PROVE UNCHANGED <<reporters, copy, missed>>
  BY <1>2 DEF Deliver, tools, store
<1>3. CASE Restart
  <2>1. Ends({c \in Calls : pc[c] \in Open}, "lost") /\ UNCHANGED reporters
    BY <1>3 DEF Restart, store
  <2>2. {c \in Calls : pc[c] \in Open} \in SUBSET Calls /\ "lost" \in Places
    BY PlacesOf
  <2> QED BY <2>1, <2>2
<1>4. ASSUME NEW c \in Calls, CallStep(c), ~ Ending(c), ~ Working(c)
      PROVE  UNCHANGED <<reporters, copy, missed>>
  BY <1>4, CallKinds DEF Send, FindConversation, CreateConversation, Thinking, CallTools, Retry,
     SaveFallback, SaveAnswer, SaveReply, FinishTools, AckMessage, CreateFromFiles, tools, store
<1>5. ASSUME NEW c \in Calls, Ending(c)
      PROVE  UNCHANGED reporters /\ \E C \in SUBSET Calls, p \in Places : Ends(C, p)
  <2>1. {c} \in SUBSET Calls /\ {"idle", "over", "failed"} \subseteq Places
    BY PlacesOf
  <2>2. Ends({c}, "idle") \/ Ends({c}, "over") \/ Ends({c}, "failed")
    BY <1>5 DEF Ending, Ignore, Drop, RouteFiles, RefuseConversation, FailTurn, Touch
  <2>3. UNCHANGED reporters
    BY <1>5 DEF Ending, Ignore, Drop, RouteFiles, RefuseConversation, FailTurn, Touch, store
  <2> QED BY <2>1, <2>2, <2>3
<1>6. ASSUME NEW c \in Calls, FileRequest(c) \/ RouteRequest(c)
      PROVE  UNCHANGED <<reporters, copy, missed>>
  BY <1>6 DEF FileRequest, RouteRequest
<1> QED BY <1>1, <1>2, <1>3, <1>4, <1>5, <1>6 DEF Next, CallStep, Working, AllServed

LEMMA JoinStep ==
    ASSUME TypeInv, JoinInv, [Next]_vars
    PROVE  /\ JoinInv'
           /\ \A r \in Requests : \A u \in reporters[r] \ reporters'[r] :
                \E c \in Calls : copy[c].req = r /\ u \in missed[c]
<1>1. LocalsOK /\ StoreOK
  BY TypeParts DEF TypeInv
<1>2. ASSUME NEW c \in Calls, WriteReporters(c) PROVE copy[c].req \in Requests
  BY <1>2 DEF WriteReporters, Doing, TypeInv, ThreadFits
<1>3. CASE UNCHANGED <<reporters, copy, missed>>
  BY <1>3, JoinsWait
<1>4. ASSUME UNCHANGED reporters, NEW C \in SUBSET Calls, NEW p \in Places, Ends(C, p)
      PROVE  JoinInv'
  BY <1>1, <1>4, JoinsEnd
<1>5. ASSUME NEW c \in Calls, ReadReporters(c) \/ FailTool(c)
      PROVE  JoinInv' /\ UNCHANGED reporters
  BY <1>1, <1>5, JoinRead, JoinFails DEF ReadReporters, FailTool, store
<1>6. ASSUME NEW c \in Calls, WriteReporters(c)
      PROVE  /\ JoinInv'
             /\ \A r \in Requests : \A u \in reporters[r] \ reporters'[r] :
                  copy[c].req = r /\ u \in missed[c]
  BY <1>1, <1>2, <1>6, JoinWritten
<1> QED BY <1>3, <1>4, <1>5, <1>6, JoinKinds

(* Somebody who joined a request stays on its list, except when another     *)
(* join had read the list before them and writes it back                    *)
(* (requests.service.ts:428-472).                                           *)
THEOREM ReportersProved == Spec => ReportsFallToOverlapsOnly
<1>1. Init => JoinInv
  BY NothingTypes, EventsType DEF Init, JoinInv, JoinFits
<1>2. TypeInv /\ JoinInv /\ [Next]_vars => JoinInv'
  BY JoinStep
<1>3. TypeInv /\ JoinInv /\ [Next]_vars =>
        [\A r \in Requests : \A u \in reporters[r] \ reporters'[r] :
           \E c \in Calls : copy[c].req = r /\ u \in missed[c]]_vars
  BY JoinStep
<1> QED BY <1>1, <1>2, <1>3, TypesHold, PTL DEF Spec, ReportsFallToOverlapsOnly

-----------------------------------------------------------------------------
(* The events an instance remembers *)

(* Each remembered event was marked after all those before it in the        *)
(* sequence, and an event that was marked and is not remembered has all of  *)
(* a full sequence marked after it.                                         *)
InOrder ==
    \A i, j \in 1..Len(recent) :
        i < j => recent[i] # recent[j] /\ recent[j] \in since[recent[i]]

CrowdedOut(e) ==
    e \notin RangeOf(recent) =>
        RangeOf(recent) \subseteq since[e] /\ Len(recent) = MaxRemembered

MarkInv ==
    /\ InOrder
    /\ RangeOf(recent) \subseteq DOMAIN since
    /\ \A e \in DOMAIN since : IsFiniteSet(since[e]) /\ CrowdedOut(e)

LEMMA RangeIs ==
    ASSUME NEW S, NEW s \in Seq(S)
    PROVE  RangeOf(s) = {s[i] : i \in 1..Len(s)} /\ Len(s) \in Nat
BY DEF RangeOf

(* A sequence without repetitions has as many elements as positions. *)
LEMMA RememberedCount ==
    ASSUME SlackOK, InOrder
    PROVE  Cardinality(RangeOf(recent)) = Len(recent)
<1>1. Len(recent) \in Nat /\ RangeOf(recent) = {recent[i] : i \in 1..Len(recent)}
  BY RangeIs DEF SlackOK
<1>2. recent \in [1..Len(recent) -> RangeOf(recent)]
  <2>1. recent \in [1..Len(recent) -> Events]
    BY LenProperties DEF SlackOK
  <2> QED BY <1>1, <2>1
<1>3. \A i, j \in 1..Len(recent) : recent[i] = recent[j] => i = j
  BY <1>1 DEF InOrder
<1>4. \A x \in RangeOf(recent) : \E i \in 1..Len(recent) : recent[i] = x
  BY <1>1
<1> DEFINE n == Len(recent)
           S == RangeOf(recent)
<1>5. recent \in Bijection(1..n, S)
  <2> HIDE DEF S
  <2> QED BY <1>2, <1>3, <1>4, Fun_IsBij DEF S
<1>6. ExistsBijection(1..n, S)
  BY <1>5 DEF ExistsBijection
<1> QED BY <1>1, <1>6, FS_CountingElements

(* A marked event goes to the end, behind those that were there before, of  *)
(* which the oldest may be gone.                                            *)
LEMMA RememberedOrder ==
    ASSUME SlackOK, NEW e \in Events
    PROVE  LET s == Remembered(e)
               k == IF Len(recent) = MaxRemembered THEN 1 ELSE 0
           IN  /\ s \in Seq(Events) /\ Len(s) = Len(recent) + 1 - k /\ Len(s) \in Nat \ {0}
               /\ \A i \in 1..Len(s) - 1 : i + k \in 1..Len(recent) /\ s[i] = recent[i + k]
               /\ s[Len(s)] = e
<1> DEFINE t == Append(recent, e)
           n == Len(recent)
<1>1. n \in Nat /\ n <= MaxRemembered /\ MaxRemembered \in Nat \ {0}
  BY BoundsType, LenProperties DEF SlackOK
<1>2. /\ t \in Seq(Events) /\ Len(t) = n + 1 /\ t # <<>>
      /\ \A i \in 1..n : t[i] = recent[i]
      /\ t[n + 1] = e
  BY AppendProperties, LenProperties DEF SlackOK
<1>3. Remembered(e) = IF Len(t) > MaxRemembered THEN Tail(t) ELSE t
  BY DEF Remembered
<1> HIDE DEF t, n
<1>4. CASE n = MaxRemembered
  <2>1. /\ Tail(t) \in Seq(Events) /\ Len(Tail(t)) = n
        /\ \A i \in 1..n : Tail(t)[i] = t[i + 1]
    BY <1>1, <1>2, HeadTailProperties
  <2>2. Remembered(e) = Tail(t)
    BY <1>1, <1>2, <1>3, <1>4
  <2>3. \A i \in 1..n - 1 : i + 1 \in 1..n /\ Tail(t)[i] = recent[i + 1]
    BY <1>1, <1>2, <2>1
  <2>4. Tail(t)[n] = e
    BY <1>1, <1>2, <1>4, <2>1
  <2> QED BY <1>1, <1>4, <2>1, <2>2, <2>3, <2>4 DEF n
<1>5. CASE n # MaxRemembered
  <2>1. Remembered(e) = t
    BY <1>1, <1>2, <1>3, <1>5
  <2> QED BY <1>1, <1>2, <1>5, <2>1 DEF n
<1> QED BY <1>4, <1>5

LEMMA MarkDelivered ==
    ASSUME SlackOK, MarkInv, NEW e \in Events, Deliver(e)
    PROVE  MarkInv'
<1> DEFINE k == IF Len(recent) = MaxRemembered THEN 1 ELSE 0
           n == Len(recent)
           m == Len(recent')
<1>1. /\ e \notin RangeOf(recent)
      /\ recent' = Remembered(e)
      /\ since' = [f \in DOMAIN since \cup {e} |-> IF f = e THEN {} ELSE since[f] \cup {e}]
  BY DEF Deliver
<1>2. /\ recent' \in Seq(Events) /\ m = n + 1 - k /\ m \in Nat \ {0}
      /\ \A i \in 1..m - 1 : i + k \in 1..n /\ recent'[i] = recent[i + k]
      /\ recent'[m] = e
  BY <1>1, RememberedOrder
<1>3. /\ n \in Nat /\ n <= MaxRemembered /\ MaxRemembered \in Nat
      /\ \A i \in 1..n : recent[i] \in RangeOf(recent)
      /\ RangeOf(recent) = {recent[i] : i \in 1..n}
  BY BoundsType, RangeIs DEF SlackOK
<1>4. RangeOf(recent') = {recent'[i] : i \in 1..m}
  BY <1>2, RangeIs
<1>5. k \in {0, 1} /\ (k = 1 <=> n = MaxRemembered)
  OBVIOUS
<1>6. /\ DOMAIN since' = DOMAIN since \cup {e}
      /\ since'[e] = {}
      /\ \A f \in DOMAIN since \ {e} : since'[f] = since[f] \cup {e}
  BY <1>1
<1>7. \A i \in 1..n : recent[i] # e /\ recent[i] \in DOMAIN since
  BY <1>1, <1>3 DEF MarkInv
<1>8. \A i, j \in 1..n : i < j => recent[i] # recent[j] /\ recent[j] \in since[recent[i]]
  BY DEF MarkInv, InOrder
<1> HIDE DEF k, n, m
<1>9. RangeOf(recent') \subseteq RangeOf(recent) \cup {e}
  <2>1. ASSUME NEW i \in 1..m PROVE recent'[i] \in RangeOf(recent) \cup {e}
    <3>1. CASE i = m
      BY <1>2, <3>1
    <3>2. CASE i # m
      <4>1. i \in 1..m - 1
        BY <1>2, <3>2
      <4>2. i + k \in 1..n /\ recent'[i] = recent[i + k]
        BY <1>2, <4>1
      <4> QED BY <1>3, <4>2
    <3> QED BY <3>1, <3>2
  <2> QED BY <1>4, <2>1
<1>10. ASSUME NEW i \in 1..m, NEW j \in 1..m, i < j
       PROVE  recent'[i] # recent'[j] /\ recent'[j] \in since'[recent'[i]]
  <2>1. i \in 1..m - 1
    BY <1>2, <1>10
  <2>2. i + k \in 1..n /\ recent'[i] = recent[i + k]
    BY <1>2, <2>1
  <2>3. since'[recent'[i]] = since[recent[i + k]] \cup {e} /\ recent'[i] # e
    BY <1>6, <1>7, <2>2
  <2>4. CASE j = m
    BY <1>2, <2>3, <2>4
  <2>5. CASE j # m
    <3>1. j \in 1..m - 1
      BY <1>2, <2>5
    <3>2. j + k \in 1..n /\ recent'[j] = recent[j + k] /\ i + k < j + k
      BY <1>2, <1>5, <1>10, <3>1
    <3> QED BY <1>8, <2>2, <2>3, <3>2
  <2> QED BY <2>4, <2>5
<1>11. ASSUME NEW f \in DOMAIN since \cup {e}, f \notin RangeOf(recent')
       PROVE  RangeOf(recent') \subseteq since'[f] /\ m = MaxRemembered
  <2>1. f # e
    <3>1. m \in 1..m
      BY <1>2
    <3> QED BY <1>2, <1>4, <1>11, <3>1
  <2>2. f \in DOMAIN since /\ since'[f] = since[f] \cup {e}
    BY <1>6, <2>1
  <2>3. CASE f \notin RangeOf(recent)
    <3>1. RangeOf(recent) \subseteq since[f] /\ n = MaxRemembered
      BY <2>2, <2>3 DEF MarkInv, CrowdedOut, n
    <3> QED BY <1>2, <1>3, <1>5, <1>9, <2>2, <3>1
  <2>4. CASE f \in RangeOf(recent)
    <3>1. PICK h \in 1..n : f = recent[h]
      BY <1>3, <2>4
    <3>2. h - k \notin 1..m - 1
      <4>1. SUFFICES ASSUME h - k \in 1..m - 1 PROVE FALSE
        OBVIOUS
      <4>2. recent'[h - k] = recent[h - k + k] /\ h - k + k = h /\ h - k \in 1..m
        BY <1>2, <1>3, <1>5, <3>1, <4>1
      <4> QED BY <1>4, <1>11, <3>1, <4>2
    <3>3. h = 1 /\ k = 1
      BY <1>2, <1>3, <1>5, <3>1, <3>2
    <3>4. ASSUME NEW i \in 1..m PROVE recent'[i] \in since[f] \cup {e}
      <4>1. CASE i = m
        BY <1>2, <4>1
      <4>2. CASE i # m
        <5>1. i \in 1..m - 1
          BY <1>2, <4>2
        <5>2. i + k \in 1..n /\ recent'[i] = recent[i + k] /\ h < i + k
          BY <1>2, <3>3, <5>1
        <5> QED BY <1>8, <3>1, <5>2
      <4> QED BY <4>1, <4>2
    <3>5. m = MaxRemembered
      BY <1>2, <1>3, <1>5, <3>3
    <3> QED BY <1>4, <2>2, <3>4, <3>5
  <2> QED BY <2>3, <2>4
<1>12. ASSUME NEW f \in DOMAIN since \cup {e} PROVE IsFiniteSet(since'[f])
  <2>1. CASE f = e
    BY <1>6, <2>1, FS_EmptySet
  <2>2. CASE f # e
    <3>1. IsFiniteSet(since[f]) /\ since'[f] = since[f] \cup {e}
      BY <1>6, <2>2 DEF MarkInv
    <3> QED BY <3>1, FS_AddElement
  <2> QED BY <2>1, <2>2
<1>13. RangeOf(recent') = RangeOf(recent)'
  BY DEF RangeOf
<1>14. InOrder'
  BY <1>10 DEF InOrder, m
<1>15. ASSUME NEW f \in DOMAIN since \cup {e} PROVE CrowdedOut(f)'
  BY <1>11, <1>13, <1>15 DEF CrowdedOut, m
<1>16. RangeOf(recent)' \subseteq DOMAIN since'
  BY <1>6, <1>9, <1>13 DEF MarkInv
<1> QED BY <1>6, <1>12, <1>14, <1>15, <1>16 DEF MarkInv

LEMMA MarkStep ==
    ASSUME TypeInv, MarkInv, [Next]_vars
    PROVE  MarkInv'
<1>1. SlackOK
  BY TypeParts DEF TypeInv
<1>2. ASSUME UNCHANGED <<recent, since>> PROVE MarkInv'
  <2>1. InOrder' /\ RangeOf(recent)' \subseteq DOMAIN since'
    BY <1>2 DEF MarkInv, InOrder, RangeOf
  <2>2. \A e \in DOMAIN since : IsFiniteSet(since'[e]) /\ CrowdedOut(e)'
    BY <1>2 DEF MarkInv, CrowdedOut, RangeOf
  <2> QED BY <1>2, <2>1, <2>2 DEF MarkInv
<1>3. CASE UNCHANGED vars
  BY <1>2, <1>3 DEF vars, slack
<1>4. ASSUME NEW c \in Calls, CallStep(c) PROVE UNCHANGED <<recent, since>>
  BY <1>4 DEF CallStep, Send, SlackStep, Ignore, Drop, CreateFromFiles, RouteFiles, AckMessage,
     TurnStep, FindConversation, RefuseConversation, CreateConversation, FailTurn, CallTools, Retry,
     SaveFallback, SaveAnswer,
     SaveReply, Touch, ToolStep, FileRequest, RouteRequest, ReadReporters, WriteReporters, FailTool,
     FinishTools, slack
<1>5. CASE Restart
  <2>1. recent' = <<>> /\ since' = <<>>
    BY <1>5 DEF Restart
  <2> QED BY <2>1 DEF MarkInv, InOrder, RangeOf
<1> QED BY <1>1, <1>2, <1>3, <1>4, <1>5, MarkDelivered DEF Next, CallStep, AllServed

(* Nothing but the arrival of an event begins a call about it. *)
LEMMA BegunByDelivery ==
    ASSUME TypeInv, [Next]_vars, NEW c \in Calls, NEW e \in Events,
           pc[c] = "idle", pc'[c] # "idle", job'[c].event = e
    PROVE  Deliver(e)
<1>1. CASE UNCHANGED vars
  BY <1>1 DEF vars
<1>2. ASSUME NEW f \in Events, Deliver(f) PROVE f = e
  <2>1. PICK d \in Calls : Others(d) /\ job'[d].event = f
    BY <1>2, DeliverBegins
  <2> QED BY <2>1 DEF Others
<1>3. ASSUME NEW d \in Calls, CallStep(d) PROVE FALSE
  <2>1. d = c
    BY <1>3, CallTypes DEF Others
  <2>2. Send(c)
    BY <1>3, <2>1 DEF CallStep, SlackStep, Ignore, Drop, CreateFromFiles, RouteFiles, AckMessage,
       TurnStep, FindConversation, RefuseConversation, CreateConversation, FailTurn, CallTools, Retry,
     SaveFallback, SaveAnswer,
       Touch, ToolStep, Doing, FileRequest, RouteRequest, ReadReporters, WriteReporters, FailTool,
       FinishTools
  <2> QED BY <2>2, SendBegins, EventsType
<1>4. CASE Restart
  BY <1>4, PlacesOf DEF Restart, Ends
<1> QED BY <1>1, <1>2, <1>3, <1>4 DEF Next, CallStep, AllServed

LEMMA AgainOnlyIfCrowdedOut ==
    ASSUME TypeInv, MarkInv, [Next]_vars, NEW e \in DOMAIN since, NEW c \in Calls,
           pc[c] = "idle", pc'[c] # "idle", job'[c].event = e
    PROVE  Cardinality(since[e]) >= MaxRemembered
<1>1. SlackOK /\ e \in Events
  BY TypeParts DEF TypeInv, SlackOK
<1>2. e \notin RangeOf(recent)
  BY <1>1, BegunByDelivery DEF Deliver
<1>3. IsFiniteSet(since[e]) /\ RangeOf(recent) \in SUBSET since[e] /\ Len(recent) = MaxRemembered
  BY <1>2 DEF MarkInv, CrowdedOut
<1>4. Cardinality(RangeOf(recent)) = MaxRemembered
  BY <1>1, <1>3, RememberedCount DEF MarkInv
<1>5. Cardinality(RangeOf(recent)) <= Cardinality(since[e]) /\ Cardinality(since[e]) \in Nat
  BY <1>3, FS_Subset, FS_CardinalityType
<1> QED BY <1>4, <1>5, BoundsType

(* A process that handles a redelivered event again has marked at least     *)
(* MaxRemembered other events since it marked that one                      *)
(* (slack.service.ts:34-41, 63-73).                                         *)
THEOREM CrowdedOutProved == Spec => HandledAgainOnlyIfCrowdedOut
<1>1. Init => MarkInv
  BY DEF Init, MarkInv, InOrder, RangeOf
<1>2. TypeInv /\ MarkInv /\ [Next]_vars => MarkInv'
  BY MarkStep
<1>3. TypeInv /\ MarkInv /\ [Next]_vars =>
        [\A e \in DOMAIN since, c \in Calls :
           pc[c] = "idle" /\ pc'[c] # "idle" /\ job'[c].event = e
               => Cardinality(since[e]) >= MaxRemembered]_vars
  BY AgainOnlyIfCrowdedOut
<1> QED BY <1>1, <1>2, <1>3, TypesHold, PTL DEF Spec, HandledAgainOnlyIfCrowdedOut

-----------------------------------------------------------------------------
(* What a turn has filed, and what its reply says of it *)

Mine(c)  == {r \in Requests : request[r].call = c}
Filed(c) == {r \in Mine(c) : request[r].state = "routed"}

(* r is what a truthful reply of the call names. *)
Names(c, r) == IF Filed(c) = {} THEN r = NoRequest ELSE r \in Filed(c)

FreeRows == \A r \in Requests : request[r].state = "free" => request[r].call = NoRequest

(* Nothing is filed before the model is asked, nor in an attempt that has   *)
(* not yet seen a tool: only such an attempt is given up for another.       *)
TurnFits(c) ==
    /\ pc[c] \in {"idle", "acking", "creating", "finding", "forking", "failing"} => Mine(c) = {}
    /\ pc[c] = "ingesting" =>
         /\ Mine(c) = {loop[c].result}
         /\ request[loop[c].result].state = "created"
    /\ pc[c] = "modelling" /\ ~ loop[c].sawTool => Mine(c) = {}
    /\ pc[c] \in {"modelling", "tooling"} => \A r \in Mine(c) : request[r].attempt = loop[c].attempt
    /\ \A r, s \in Mine(c) : request[r].attempt = request[s].attempt

(* The loop's result is at all times what an answer would have to name. *)
ReplyFits(c) ==
    /\ pc[c] \in {"idle", "acking", "creating", "finding", "forking"} => loop[c].result = NoRequest
    /\ pc[c] \in {"idle", "acking", "creating", "ingesting", "finding", "forking"}
         => message[c].reply = "none"
    /\ pc[c] \in {"modelling", "tooling", "failing"}
         => message[c].reply = "blank" /\ Names(c, loop[c].result)
    /\ pc[c] \in {"touching", "over"} => message[c].reply # "blank"
    /\ message[c].reply = "answer" => Names(c, message[c].request)

TurnInv == FreeRows /\ \A c \in Calls : TurnFits(c) /\ ReplyFits(c)

(* The step writes no row but those of the call, and rows nobody has used.  *)
RowsOf(c) ==
    \A r \in Requests :
        \/ request'[r] = request[r]
        \/ /\ request[r].call \in {NoRequest, c}
           /\ request'[r].call = c /\ request'[r].state # "free"

LEMMA SameRows ==
    ASSUME NEW d \in Calls,
           \A r \in Requests : \/ request'[r] = request[r]
                               \/ request[r].call # d /\ request'[r].call # d
    PROVE  /\ Mine(d)' = Mine(d) /\ Filed(d)' = Filed(d)
           /\ \A r \in Mine(d) : request'[r] = request[r]
BY DEF Mine, Filed

(* What another call's step leaves to a call *)
LEMMA TurnsKept ==
    ASSUME NEW d \in Calls, TurnFits(d), ReplyFits(d),
           pc'[d] = pc[d], loop'[d] = loop[d], message'[d] = message[d],
           \A r \in Requests : \/ request'[r] = request[r]
                               \/ request[r].call # d /\ request'[r].call # d
    PROVE  TurnFits(d)' /\ ReplyFits(d)'
<1>1. /\ Mine(d)' = Mine(d) /\ Filed(d)' = Filed(d)
      /\ \A r \in Mine(d) : request'[r] = request[r]
  BY SameRows
<1>2. TurnFits(d)'
  BY <1>1 DEF TurnFits
<1>3. ReplyFits(d)'
  BY <1>1 DEF ReplyFits, Names
<1> QED BY <1>2, <1>3

(* A call that ends keeps its rows and its reply. *)
LEMMA TurnEnded ==
    ASSUME NEW c \in Calls, TurnFits(c), ReplyFits(c), message'[c] = message[c], request' = request,
           loop'[c] = NewLoop,
           \/ pc'[c] = "idle" /\ pc[c] \in {"acking", "creating"}
           \/ pc'[c] = "over" /\ pc[c] \in {"ingesting", "finding", "touching"}
           \/ pc'[c] \in {"failed", "lost"}
    PROVE  TurnFits(c)' /\ ReplyFits(c)'
<1>1. /\ Mine(c)' = Mine(c) /\ Filed(c)' = Filed(c)
      /\ \A r \in Mine(c) : request'[r] = request[r]
  BY SameRows
<1>2. TurnFits(c)'
  BY <1>1 DEF TurnFits
<1>3. ReplyFits(c)'
  BY <1>1, NothingTypes DEF ReplyFits, Names
<1> QED BY <1>2, <1>3

LEMMA TurnBegun ==
    ASSUME NEW c \in Calls, TurnFits(c), ReplyFits(c), UNCHANGED <<message, request, loop>>,
           pc[c] \in {"idle", "acking", "finding"},
           pc'[c] \in {"acking", "creating", "finding", "forking"}
    PROVE  TurnFits(c)' /\ ReplyFits(c)'
<1>1. /\ Mine(c)' = Mine(c) /\ Filed(c)' = Filed(c)
      /\ \A r \in Mine(c) : request'[r] = request[r]
  BY SameRows
<1>2. TurnFits(c)'
  BY <1>1 DEF TurnFits
<1>3. ReplyFits(c)'
  BY <1>1 DEF ReplyFits, Names
<1> QED BY <1>2, <1>3

LEMMA TurnDrafted ==
    ASSUME NEW c \in Calls, TurnFits(c), ReplyFits(c), request' = request,
           pc[c] \in {"finding", "forking"}, pc'[c] \in {"modelling", "failing"},
           loop'[c].result = loop[c].result, message'[c].reply = "blank"
    PROVE  TurnFits(c)' /\ ReplyFits(c)'
<1>1. Mine(c)' = Mine(c) /\ Filed(c)' = Filed(c)
  BY SameRows
<1>2. Mine(c) = {} /\ Filed(c) = {} /\ loop[c].result = NoRequest
  BY DEF TurnFits, ReplyFits, Filed
<1>3. TurnFits(c)'
  BY <1>1, <1>2 DEF TurnFits
<1>4. ReplyFits(c)'
  BY <1>1, <1>2 DEF ReplyFits, Names
<1> QED BY <1>3, <1>4

(* The model asks for tools, or they are all done, or still at work. *)
LEMMA TurnGoesOn ==
    ASSUME NEW c \in Calls, TurnFits(c), ReplyFits(c), UNCHANGED <<message, request>>,
           loop'[c].result = loop[c].result, loop'[c].attempt = loop[c].attempt,
           pc[c] \in {"modelling", "tooling"},
           pc'[c] = "tooling" \/ (pc'[c] = "modelling" /\ loop'[c].sawTool)
    PROVE  TurnFits(c)' /\ ReplyFits(c)'
<1>1. /\ Mine(c)' = Mine(c) /\ Filed(c)' = Filed(c)
      /\ \A r \in Mine(c) : request'[r] = request[r]
  BY SameRows
<1>2. TurnFits(c)'
  BY <1>1 DEF TurnFits
<1>3. ReplyFits(c)'
  BY <1>1 DEF ReplyFits, Names
<1> QED BY <1>2, <1>3

(* The attempt that is given up has filed nothing. *)
LEMMA TurnRetried ==
    ASSUME NEW c \in Calls, TurnFits(c), ReplyFits(c), UNCHANGED <<message, request>>,
           loop'[c].result = NoRequest, pc[c] = "modelling", pc'[c] = "modelling",
           ~ loop[c].sawTool
    PROVE  TurnFits(c)' /\ ReplyFits(c)'
<1>1. Mine(c)' = Mine(c) /\ Filed(c)' = Filed(c)
  BY SameRows
<1>2. Mine(c) = {} /\ Filed(c) = {}
  BY DEF TurnFits, Filed
<1>3. TurnFits(c)'
  BY <1>1, <1>2 DEF TurnFits
<1>4. ReplyFits(c)'
  BY <1>1, <1>2 DEF ReplyFits, Names
<1> QED BY <1>3, <1>4

LEMMA TurnSaved ==
    ASSUME NEW c \in Calls, TurnFits(c), ReplyFits(c), request' = request, pc'[c] = "touching",
           \/ message'[c].reply = "fallback"
           \/ /\ pc[c] = "modelling" /\ message'[c].reply = "answer"
              /\ message'[c].request = loop[c].result
    PROVE  TurnFits(c)' /\ ReplyFits(c)'
<1>1. /\ Mine(c)' = Mine(c) /\ Filed(c)' = Filed(c)
      /\ \A r \in Mine(c) : request'[r] = request[r]
  BY SameRows
<1>2. TurnFits(c)'
  BY <1>1 DEF TurnFits
<1>3. ReplyFits(c)'
  BY <1>1 DEF ReplyFits, Names
<1> QED BY <1>2, <1>3

LEMMA TurnFiled ==
    ASSUME StoreOK, FreeRows, NEW c \in Calls, TurnFits(c), ReplyFits(c), message' = message,
           NEW r \in FreeRequests, NEW a,
           request' = [request EXCEPT ![r] = [state |-> "created", call |-> c, attempt |-> a]],
           \/ pc[c] = "creating" /\ pc'[c] = "ingesting" /\ loop'[c].result = r
           \/ /\ pc[c] = "tooling" /\ pc'[c] = "tooling" /\ a = loop[c].attempt
              /\ loop'[c].result = loop[c].result /\ loop'[c].attempt = loop[c].attempt
    PROVE  TurnFits(c)' /\ ReplyFits(c)'
<1>1. r \in Requests /\ request[r].state = "free" /\ request[r].call = NoRequest
      /\ NoRequest \notin Calls
  BY EventsType DEF FreeRequests, FreeRows
<1>2. /\ request'[r] = [state |-> "created", call |-> c, attempt |-> a]
      /\ \A s \in Requests \ {r} : request'[s] = request[s]
  BY <1>1 DEF StoreOK
<1>3. request'[r].state = "created" /\ request'[r].call = c /\ request'[r].attempt = a
  BY <1>2
<1>4. /\ Mine(c)' = Mine(c) \cup {r} /\ Filed(c)' = Filed(c) /\ r \notin Mine(c)
      /\ \A s \in Mine(c) : request'[s] = request[s]
  BY <1>1, <1>2, <1>3 DEF Mine, Filed
<1>5. TurnFits(c)'
  BY <1>3, <1>4 DEF TurnFits
<1>6. ReplyFits(c)'
  BY <1>4 DEF ReplyFits, Names
<1> QED BY <1>5, <1>6

LEMMA TurnRouted ==
    ASSUME StoreOK, NEW c \in Calls, TurnFits(c), ReplyFits(c), UNCHANGED message,
           NEW r \in Mine(c), request' = [request EXCEPT ![r].state = "routed"],
           \/ pc[c] = "ingesting" /\ pc'[c] = "over"
           \/ /\ pc[c] = "tooling" /\ pc'[c] = "tooling" /\ loop'[c].attempt = loop[c].attempt
              /\ loop'[c].result = FirstFiled(loop[c].result, r)
    PROVE  TurnFits(c)' /\ ReplyFits(c)'
<1>1. r \in Requests /\ request[r].call = c
  BY DEF Mine
<1>2. /\ request'[r] = [request[r] EXCEPT !.state = "routed"]
      /\ \A s \in Requests \ {r} : request'[s] = request[s]
  BY <1>1 DEF StoreOK
<1>3. request'[r].state = "routed" /\ request'[r].call = c /\ request'[r].attempt = request[r].attempt
  <2>1. request[r] \in Request
    BY <1>1 DEF StoreOK
  <2> QED BY <1>1, <1>2, <2>1 DEF Request
<1>4. /\ Mine(c)' = Mine(c) /\ Filed(c)' = Filed(c) \cup {r}
      /\ \A s \in Mine(c) : request'[s].attempt = request[s].attempt
  <2>1. Mine(c)' = Mine(c)
    BY <1>1, <1>2, <1>3 DEF Mine
  <2>2. Filed(c)' = Filed(c) \cup {r}
    BY <1>1, <1>2, <1>3 DEF Mine, Filed
  <2>3. \A s \in Mine(c) : request'[s].attempt = request[s].attempt
    BY <1>1, <1>2, <1>3 DEF Mine
  <2> QED BY <2>1, <2>2, <2>3
<1>5. TurnFits(c)'
  BY <1>4 DEF TurnFits
<1>6. ReplyFits(c)'
  BY <1>4 DEF ReplyFits, Names, FirstFiled
<1> QED BY <1>5, <1>6

LEMMA LoopFields ==
    ASSUME NEW l \in Loop, NEW x
    PROVE  /\ [l EXCEPT !.todo = x].attempt = l.attempt /\ [l EXCEPT !.todo = x].result = l.result
           /\ [l EXCEPT !.sawTool = TRUE].attempt = l.attempt
           /\ [l EXCEPT !.sawTool = TRUE].result = l.result
           /\ [l EXCEPT !.sawTool = TRUE].sawTool = TRUE
           /\ [l EXCEPT !.result = x].result = x
           /\ [l EXCEPT !.todo = x, !.result = FirstFiled(@, l)].attempt = l.attempt
BY DEF Loop

(* A tool whose step files nothing. *)
LEMMA ProceedFields ==
    ASSUME LocalsOK, NEW c \in Calls, NEW step, NEW next, Proceed(c, step, next)
    PROVE  loop'[c].attempt = loop[c].attempt /\ loop'[c].result = loop[c].result
<1>1. loop[c] \in Loop
  BY DEF LocalsOK
<1>2. loop'[c] = [loop[c] EXCEPT !.todo = (loop[c].todo \ {step}) \cup next]
  BY DEF LocalsOK, Proceed
<1> QED BY <1>1, <1>2, LoopFields

LEMMA TurnOfCall ==
    ASSUME TypeInv, TurnInv, NEW c \in Calls, CallStep(c)
    PROVE  TurnFits(c)' /\ ReplyFits(c)' /\ RowsOf(c)
<1>1. /\ LocalsOK /\ ChatOK /\ StoreOK /\ FreeRows /\ TurnFits(c) /\ ReplyFits(c)
      /\ loop[c] \in Loop /\ message[c] \in Message
  BY TypeParts DEF TypeInv, TurnInv, LocalsOK, ChatOK
<1>2. request' = request => RowsOf(c)
  BY DEF RowsOf
<1>3. CASE Send(c)
  <2>1. UNCHANGED <<message, request, loop>>
    BY <1>3 DEF Send, chat, tools, store
  <2> QED BY <1>1, <1>2, <1>3, <2>1, SendBegins, TurnBegun
<1>4. CASE Ignore(c) \/ Drop(c) \/ RefuseConversation(c) \/ FailTurn(c) \/ Touch(c)
  <2>1. request' = request /\ message' = message
    BY <1>4 DEF Ignore, Drop, RefuseConversation, FailTurn, Touch, chat, store
  <2>2. \/ Ends({c}, "idle") /\ pc[c] \in {"acking", "creating"}
        \/ Ends({c}, "over") /\ pc[c] \in {"ingesting", "finding", "touching"}
        \/ Ends({c}, "failed")
    BY <1>4 DEF Ignore, Drop, RefuseConversation, FailTurn, Touch
  <2>3. {"idle", "over", "failed"} \subseteq Places
    BY PlacesOf
  <2>4. /\ loop'[c] = NewLoop
        /\ \/ pc'[c] = "idle" /\ pc[c] \in {"acking", "creating"}
           \/ pc'[c] = "over" /\ pc[c] \in {"ingesting", "finding", "touching"}
           \/ pc'[c] = "failed"
    BY <1>1, <2>1, <2>2, <2>3, OneEnds
  <2> QED BY <1>1, <1>2, <2>1, <2>4, TurnEnded
<1>5. CASE RouteFiles(c)
  <2> DEFINE r == loop[c].result
  <2>1. /\ request' = [request EXCEPT ![r].state = "routed"] /\ message' = message
        /\ pc[c] = "ingesting" /\ Ends({c}, "over")
    BY <1>5 DEF RouteFiles, chat
  <2>2. "over" \in Places
    BY PlacesOf
  <2>3. pc'[c] = "over"
    BY <1>1, <2>1, <2>2, OneEnds
  <2>4. r \in Mine(c) /\ r \in Requests /\ request[r].call = c
    BY <1>1, <2>1 DEF TurnFits, Mine
  <2> HIDE DEF r
  <2>5. TurnFits(c)' /\ ReplyFits(c)'
    BY <1>1, <2>1, <2>3, <2>4, TurnRouted
  <2>6. RowsOf(c)
    <3>1. request[r] \in Request
      BY <1>1, <2>4 DEF StoreOK
    <3>2. request'[r].call = c /\ request'[r].state # "free"
      BY <1>1, <2>1, <2>4, <3>1 DEF StoreOK, Request
    <3> QED BY <1>1, <2>1, <2>4, <3>2 DEF RowsOf, StoreOK
  <2> QED BY <2>5, <2>6
<1>6. CASE AckMessage(c)
  <2>1. UNCHANGED <<message, request, loop>> /\ pc[c] = "acking" /\ pc'[c] = "finding"
    BY <1>1, <1>6 DEF AckMessage, chat, tools, store, Goto, LocalsOK
  <2> QED BY <1>1, <1>2, <2>1, TurnBegun
<1>7. ASSUME NEW r \in FreeRequests, NEW a, FileRow(c, r, a) PROVE RowsOf(c)
  <2>1. r \in Requests /\ request[r].call = NoRequest
    BY <1>1 DEF FreeRequests, FreeRows
  <2>2. request' = [request EXCEPT ![r] = [state |-> "created", call |-> c, attempt |-> a]]
    BY <1>7 DEF FileRow
  <2>3. request'[r].call = c /\ request'[r].state # "free"
    BY <1>1, <2>1, <2>2 DEF StoreOK
  <2> QED BY <1>1, <2>1, <2>2, <2>3 DEF RowsOf, StoreOK
<1>8. CASE CreateFromFiles(c)
  <2>1. PICK r \in FreeRequests : FileRow(c, r, 0) /\ loop' = [loop EXCEPT ![c].result = r]
    BY <1>8 DEF CreateFromFiles
  <2>2. message' = message /\ pc[c] = "creating" /\ pc'[c] = "ingesting"
    BY <1>1, <1>8 DEF CreateFromFiles, chat, Goto, LocalsOK
  <2>3. loop'[c] = [loop[c] EXCEPT !.result = r]
    BY <1>1, <2>1 DEF LocalsOK
  <2>4. loop'[c].result = r
    BY <1>1, <2>3, LoopFields
  <2>5. request' = [request EXCEPT ![r] = [state |-> "created", call |-> c, attempt |-> 0]]
    BY <2>1 DEF FileRow
  <2> QED BY <1>1, <1>7, <2>1, <2>2, <2>4, <2>5, TurnFiled
<1>9. CASE FindConversation(c)
  <2>1. UNCHANGED <<request, copy, missed>> /\ pc[c] = "finding"
    BY <1>9 DEF FindConversation, tools, store
  <2>2. CASE pc'[c] = "forking" /\ loop' = loop /\ message' = message
    BY <1>1, <1>2, <2>1, <2>2, TurnBegun
  <2>3. ASSUME NEW v \in Convs, Draft(c, v) PROVE TurnFits(c)' /\ ReplyFits(c)'
    <3>1. /\ pc'[c] \in {"modelling", "failing"} /\ loop'[c].result = loop[c].result
          /\ message'[c].reply = "blank"
      BY <1>1, <2>1, <2>3, DraftTypes
    <3> QED BY <1>1, <2>1, <3>1, TurnDrafted
  <2> QED BY <1>2, <1>9, <2>1, <2>2, <2>3, FindTypes
<1>10. CASE CreateConversation(c)
  <2>1. UNCHANGED <<request, copy, missed>> /\ pc[c] = "forking"
    BY <1>10 DEF CreateConversation, tools, store
  <2>2. PICK v \in Convs : Draft(c, v)
    BY <1>10 DEF CreateConversation
  <2>3. /\ pc'[c] \in {"modelling", "failing"} /\ loop'[c].result = loop[c].result
        /\ message'[c].reply = "blank"
    BY <1>1, <2>1, <2>2, DraftTypes
  <2> QED BY <1>1, <1>2, <2>1, <2>3, TurnDrafted
<1>11. CASE Thinking(c)
  <2>1. request' = request
    BY <1>11 DEF Thinking, CallTools, Retry, SaveFallback, SaveAnswer, SaveReply, FinishTools, tools, store
  <2>2. CASE CallTools(c)
    <3>1. PICK todo \in ToolCalls : loop' = [loop EXCEPT ![c].todo = todo]
      BY <2>2 DEF CallTools
    <3>2. loop'[c] = [loop[c] EXCEPT !.todo = todo]
      BY <1>1, <3>1 DEF LocalsOK
    <3>3. pc[c] = "modelling" /\ pc'[c] = "tooling" /\ message' = message
      BY <1>1, <2>2 DEF CallTools, Goto, LocalsOK, chat
    <3>4. loop'[c].attempt = loop[c].attempt /\ loop'[c].result = loop[c].result
      BY <1>1, <3>2, LoopFields
    <3> QED BY <1>1, <1>2, <2>1, <3>3, <3>4, TurnGoesOn
  <2>3. CASE Retry(c)
    <3>1. loop'[c] = [NewLoop EXCEPT !.attempt = 1] /\ pc[c] = "modelling" /\ UNCHANGED <<pc, message>>
      BY <1>1, <2>3 DEF Retry, LocalsOK, chat
    <3>2. loop'[c].result = NoRequest
      BY <3>1 DEF NewLoop
    <3>3. ~ loop[c].sawTool
      BY <2>3 DEF Retry, MayRetry
    <3> QED BY <1>1, <1>2, <2>1, <3>1, <3>2, <3>3, TurnRetried
  <2>4. ASSUME NEW reply \in {"answer", "fallback"}, NEW r, SaveReply(c, reply, r)
        PROVE  pc'[c] = "touching" /\ message'[c].reply = reply /\ message'[c].request = r
    <3>1. message'[c] = [message[c] EXCEPT !.reply = reply, !.request = r]
      BY <1>1, <2>4 DEF SaveReply, ChatOK
    <3> QED BY <1>1, <2>4, <3>1 DEF SaveReply, Goto, LocalsOK, Message
  <2>5. CASE SaveFallback(c)
    <3>1. SaveReply(c, "fallback", NoRequest)
      BY <2>5 DEF SaveFallback
    <3> QED BY <1>1, <1>2, <2>1, <2>4, <3>1, TurnSaved
  <2>6. CASE SaveAnswer(c)
    <3>1. SaveReply(c, "answer", loop[c].result) /\ pc[c] = "modelling"
      BY <2>6 DEF SaveAnswer
    <3> QED BY <1>1, <1>2, <2>1, <2>4, <3>1, TurnSaved
  <2>7. CASE FinishTools(c)
    <3>1. loop'[c] = [loop[c] EXCEPT !.sawTool = TRUE]
      BY <1>1, <2>7 DEF FinishTools, LocalsOK
    <3>2. pc[c] = "tooling" /\ pc'[c] = "modelling" /\ message' = message
      BY <1>1, <2>7 DEF FinishTools, Goto, LocalsOK, chat
    <3>3. loop'[c].sawTool
      BY <1>1, <3>1, LoopFields
    <3> QED BY <1>1, <1>2, <2>1, <3>1, <3>2, <3>3, LoopFields, TurnGoesOn
  <2> QED BY <1>11, <2>2, <2>3, <2>5, <2>6, <2>7 DEF Thinking
<1>12. CASE Working(c)
  <2>1. pc[c] = "tooling" /\ pc' = pc /\ message' = message
    BY <1>12 DEF Working, FileRequest, RouteRequest, ReadReporters, WriteReporters, FailTool, Doing, chat
  <2>2. CASE FileRequest(c)
    <3>1. PICK r \in FreeRequests : FileRow(c, r, loop[c].attempt)
      BY <2>2 DEF FileRequest
    <3>2. request' = [request EXCEPT ![r] = [state |-> "created", call |-> c,
                                             attempt |-> loop[c].attempt]]
      BY <3>1 DEF FileRow
    <3>3. loop'[c].attempt = loop[c].attempt /\ loop'[c].result = loop[c].result
      BY <1>1, <2>2, ProceedFields DEF FileRequest
    <3> QED BY <1>1, <1>7, <2>1, <3>1, <3>2, <3>3, TurnFiled
  <2>3. CASE RouteRequest(c)
    <3>1. PICK r \in Requests :
            /\ request[r].call = c
            /\ request' = [request EXCEPT ![r].state = "routed"]
            /\ loop' = [loop EXCEPT ![c].todo = @ \ {"route"}, ![c].result = FirstFiled(@, r)]
      BY <2>3 DEF RouteRequest
    <3>2. loop'[c] = [loop[c] EXCEPT !.todo = @ \ {"route"}, !.result = FirstFiled(@, r)]
      BY <1>1, <3>1 DEF LocalsOK
    <3>3. loop'[c].attempt = loop[c].attempt /\ loop'[c].result = FirstFiled(loop[c].result, r)
      BY <1>1, <3>2 DEF Loop
    <3>4. r \in Mine(c)
      BY <3>1 DEF Mine
    <3>5. RowsOf(c)
      <4>1. request[r] \in Request
        BY <1>1 DEF StoreOK
      <4>2. request'[r].call = c /\ request'[r].state # "free"
        BY <1>1, <3>1, <4>1 DEF StoreOK, Request
      <4> QED BY <1>1, <3>1, <4>2 DEF RowsOf, StoreOK
    <3> QED BY <1>1, <2>1, <3>1, <3>3, <3>4, <3>5, TurnRouted
  <2>4. CASE ReadReporters(c) \/ WriteReporters(c) \/ FailTool(c)
    <3>1. request' = request /\ \E step, next : Proceed(c, step, next)
      BY <2>4 DEF ReadReporters, WriteReporters, FailTool, store
    <3>2. loop'[c].attempt = loop[c].attempt /\ loop'[c].result = loop[c].result
      BY <1>1, <3>1, ProceedFields
    <3> QED BY <1>1, <1>2, <2>1, <3>1, <3>2, TurnGoesOn
  <2> QED BY <1>12, <2>2, <2>3, <2>4 DEF Working
<1> QED BY <1>3, <1>4, <1>5, <1>6, <1>8, <1>9, <1>10, <1>11, <1>12, CallKinds DEF Ending

LEMMA TurnStepKept ==
    ASSUME TypeInv, TurnInv, NEW c \in Calls, CallStep(c)
    PROVE  TurnInv'
<1>1. TurnFits(c)' /\ ReplyFits(c)' /\ RowsOf(c) /\ Others(c) /\ NoRequest \notin Calls
  BY TurnOfCall, CallTypes, EventsType
<1>2. ASSUME NEW d \in Calls \ {c} PROVE TurnFits(d)' /\ ReplyFits(d)'
  <2>1. \A r \in Requests : \/ request'[r] = request[r]
                            \/ request[r].call # d /\ request'[r].call # d
    BY <1>1 DEF RowsOf
  <2>2. TurnFits(d) /\ ReplyFits(d) /\ pc'[d] = pc[d] /\ loop'[d] = loop[d] /\ message'[d] = message[d]
    BY <1>1 DEF TurnInv, Others
  <2> QED BY <2>1, <2>2, TurnsKept
<1>3. FreeRows'
  <2>1. SUFFICES ASSUME NEW r \in Requests, request'[r].state = "free"
                 PROVE  request'[r].call = NoRequest
    BY DEF FreeRows
  <2> QED BY <1>1, <2>1 DEF RowsOf, TurnInv, FreeRows
<1> QED BY <1>1, <1>2, <1>3 DEF TurnInv

LEMMA TurnInit == Init => TurnInv
<1> SUFFICES ASSUME Init PROVE TurnInv
  OBVIOUS
<1>1. \A r \in Requests : request[r].call = NoRequest
  BY DEF Init
<1>2. \A c \in Calls : Mine(c) = {}
  BY <1>1, EventsType DEF Mine
<1>3. FreeRows
  BY <1>1 DEF FreeRows
<1>4. ASSUME NEW c \in Calls PROVE TurnFits(c) /\ ReplyFits(c)
  <2>1. pc[c] = "idle" /\ loop[c].result = NoRequest /\ message[c].reply = "none"
    BY NothingTypes DEF Init
  <2> QED BY <1>2, <2>1 DEF TurnFits, ReplyFits
<1> QED BY <1>3, <1>4 DEF TurnInv

LEMMA TurnStepInv == TypeInv /\ TurnInv /\ [Next]_vars => TurnInv'
<1> SUFFICES ASSUME TypeInv, TurnInv, [Next]_vars PROVE TurnInv'
  OBVIOUS
<1>1. LocalsOK /\ FreeRows /\ \A c \in Calls : TurnFits(c) /\ ReplyFits(c)
  BY TypeParts DEF TypeInv, TurnInv
<1>2. request' = request => FreeRows' /\ \A r \in Requests : request'[r] = request[r]
  BY <1>1 DEF FreeRows
<1>3. CASE UNCHANGED vars
  <2>1. UNCHANGED <<request, pc, loop, message>>
    BY <1>3 DEF vars, tools, store, chat
  <2>2. \A c \in Calls : TurnFits(c)' /\ ReplyFits(c)'
    BY <1>1, <1>2, <2>1, TurnsKept
  <2> QED BY <1>2, <2>1, <2>2 DEF TurnInv
<1>4. ASSUME NEW e \in Events, Deliver(e) PROVE TurnInv'
  <2>1. PICK c \in Calls : Others(c) /\ pc[c] = "idle" /\ pc'[c] \in {"creating", "acking"}
    BY <1>4, DeliverBegins
  <2>2. UNCHANGED <<request, message, loop>>
    BY <1>4 DEF Deliver, tools, store, chat
  <2>3. TurnFits(c)' /\ ReplyFits(c)'
    BY <1>1, <2>1, <2>2, TurnBegun
  <2>4. ASSUME NEW d \in Calls \ {c} PROVE TurnFits(d)' /\ ReplyFits(d)'
    BY <1>1, <1>2, <2>1, <2>2, <2>4, TurnsKept DEF Others
  <2> QED BY <1>2, <2>2, <2>3, <2>4 DEF TurnInv
<1>5. CASE Restart
  <2> DEFINE C == {c \in Calls : pc[c] \in Open}
  <2>1. Ends(C, "lost") /\ UNCHANGED <<request, message>>
    BY <1>5 DEF Restart, chat, store
  <2>2. /\ LocalsOK'
        /\ \A d \in C : /\ pc'[d] = "lost" /\ job'[d] = NoJob /\ loop'[d] = NewLoop
                        /\ copy'[d] = NoCopy /\ missed'[d] = {}
        /\ \A d \in Calls \ C : /\ pc'[d] = pc[d] /\ job'[d] = job[d] /\ loop'[d] = loop[d]
                                /\ copy'[d] = copy[d] /\ missed'[d] = missed[d]
    <3>1. C \subseteq Calls /\ "lost" \in Places
      BY PlacesOf
    <3> HIDE DEF C
    <3> QED BY <1>1, <2>1, <3>1, SomeEnd
  <2>3. ASSUME NEW d \in Calls PROVE TurnFits(d)' /\ ReplyFits(d)'
    <3>1. CASE d \in C
      BY <1>1, <2>1, <2>2, <3>1, TurnEnded
    <3>2. CASE d \notin C
      BY <1>1, <1>2, <2>1, <2>2, <3>2, TurnsKept
    <3> QED BY <3>1, <3>2
  <2> QED BY <1>2, <2>1, <2>3 DEF TurnInv
<1> QED BY <1>3, <1>4, <1>5, TurnStepKept DEF Next, CallStep, AllServed

LEMMA TurnsHold == Spec => []TurnInv
BY TurnInit, TurnStepInv, TypesHold, PTL DEF Spec

(* However often the model is called again, what its tools have done is     *)
(* done in one attempt: a retry never files a second time                   *)
(* (assistant.service.ts:403-408).                                          *)
THEOREM RetryProved == Spec => []RetryNeverRepeatsEffects
<1>1. TypeInv /\ TurnInv => RetryNeverRepeatsEffects
  <2> SUFFICES ASSUME TypeInv, TurnInv, NEW r \in Requests, NEW s \in Requests,
                      request[r].call # NoRequest, request[r].call = request[s].call
               PROVE  request[r].attempt = request[s].attempt
    BY DEF RetryNeverRepeatsEffects
  <2>1. request[r].call \in Calls
    BY TypeParts DEF TypeInv, StoreOK, Request
  <2>2. r \in Mine(request[r].call) /\ s \in Mine(request[r].call)
    BY DEF Mine
  <2> QED BY <2>1, <2>2 DEF TurnInv, TurnFits
<1> QED BY <1>1, TypesHold, TurnsHold, PTL

(* A reply that answers names a request if and only if this very turn has   *)
(* filed and routed one; an empty reply belongs to a turn that is at work,  *)
(* has failed or was lost (assistant.service.ts:301-333, 453-464).                     *)
THEOREM RepliesProved == Spec => []RepliesTellTheTruth
<1>1. TypeInv /\ TurnInv => RepliesTellTheTruth
  <2> SUFFICES ASSUME TypeInv, TurnInv, NEW c \in Calls
               PROVE  /\ message[c].reply = "answer" => Names(c, message[c].request)
                      /\ message[c].reply = "blank" => pc[c] \in Open \cup {"failed", "lost"}
    BY DEF RepliesTellTheTruth, Names, Filed, Mine
  <2>1. pc[c] \in Places /\ ReplyFits(c)
    BY TypeParts DEF TypeInv, TurnInv, LocalsOK
  <2> QED BY <2>1, PlacesOf DEF ReplyFits
<1> QED BY <1>1, TypesHold, TurnsHold, PTL

=============================================================================
