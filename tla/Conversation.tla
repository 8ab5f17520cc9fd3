---------------------------- MODULE Conversation ----------------------------
(***************************************************************************)
(* A message to the assistant, from the arrival of a Slack event or a POST *)
(* of the browser to the reply: SlackService.handleEvent, AssistantService *)
(* .sendMessage and its model loop, and the tools that change state.       *)
(*                                                                         *)
(* A call is one event being handled or one POST being served.  Slack may  *)
(* deliver an event again; the server may restart and forget which events  *)
(* it has seen and every call it had open.  The language model is          *)
(* external: it answers, asks for tools or fails as it likes.              *)
(***************************************************************************)
EXTENDS Naturals, Sequences, FiniteSets

CONSTANTS
    Users,
    Events,         \* Slack events that ask something of the bot
    SenderOf,       \* their senders
    WithFiles,      \* the events that carry files
    Calls,
    Convs,          \* ids of Conversation rows
    NoConv,
    Requests,       \* ids of Request rows
    NoRequest,
    InitRequests,   \* requests somebody else has filed before
    ToolCalls,      \* the tools that write which one model message may call
    MaxRemembered,  \* MAX_RECENT_EVENT_IDS
    MaxRestarts,
    MaxOpen         \* calls that may overlap

ASSUME EventsType ==
    /\ Users # {}
    /\ SenderOf \in [Events -> Users]
    /\ WithFiles \subseteq Events
    /\ InitRequests \subseteq Requests
    /\ ToolCalls \subseteq SUBSET {"file", "readReporters"}
    /\ NoConv \notin Convs
    /\ NoRequest \notin Requests \cup Calls
    /\ "none" \notin Events
ASSUME BoundsType ==
    /\ {MaxRemembered, MaxOpen} \subseteq Nat \ {0}
    /\ MaxRestarts \in Nat

VARIABLES
    recent,     \* recentEventIds, oldest first
    since,      \* the events marked since each marked one, in the life of
                \* the process (history)
    conv,       \* Conversation rows
    recency,    \* conversations by updatedAt, oldest first
    message,    \* the assistant's Message row of each call
    request,    \* Request rows, with the call and the attempt that filed them
    reporters,  \* Request.additionalReporters
    job,        \* what each call is about
    pc,         \* where each call is
    loop,       \* the locals of orchestrate
    copy,       \* the request a join is about and the list it has read
    missed,     \* reporters put on the list since then (history)
    restarts    \* restarts left (a bound)

slack  == <<recent, since>>
chat   == <<conv, recency, message>>
store  == <<request, reporters>>
tools  == <<store, copy, missed>>
vars   == <<slack, chat, tools, job, pc, loop, restarts>>

-----------------------------------------------------------------------------

Channels == {"slack", "assistant_ui"}

Conv    == [state : {"free", "live"}, by : Users, channel : Channels]
Request == [state : {"free", "created", "routed"}, call : Calls \cup {NoRequest},
            attempt : 0..1]
Message == [reply : {"none", "blank", "answer", "fallback"},
            request : Requests \cup {NoRequest}]

(* event is the Slack event; conv the conversation, which the browser may  *)
(* have named.                                                             *)
Job == [by : Users, channel : Channels, event : Events \cup {"none"},
        conv : Convs \cup {NoConv}, named : BOOLEAN]
NoJob == [by |-> CHOOSE u \in Users : TRUE, channel |-> "assistant_ui",
          event |-> "none", conv |-> NoConv, named |-> FALSE]

(* What is left to do of the tool calls of one model message. *)
ToolSteps == {"file", "route", "readReporters", "writeReporters"}

Loop == [attempt : 0..1, sawTool : BOOLEAN,
         todo : SUBSET ToolSteps, result : Requests \cup {NoRequest}]
NewLoop == [attempt |-> 0, sawTool |-> FALSE,
            todo |-> {}, result |-> NoRequest]

Copy   == [req : Requests \cup {NoRequest}, list : SUBSET Users]
NoCopy == [req |-> NoRequest, list |-> {}]

Open == {"acking", "creating", "ingesting", "finding", "forking",
         "modelling", "tooling", "failing", "touching"}

TypeOK ==
    /\ recent \in Seq(Events) /\ Len(recent) <= MaxRemembered
    /\ DOMAIN since \subseteq Events /\ \A e \in DOMAIN since : since[e] \subseteq Events
    /\ conv \in [Convs -> Conv]
    /\ recency \in Seq(Convs)
    /\ message \in [Calls -> Message]
    /\ request \in [Requests -> Request]
    /\ reporters \in [Requests -> SUBSET Users]
    /\ job \in [Calls -> Job]
    /\ pc \in [Calls -> Open \cup {"idle", "over", "failed", "lost"}]
    /\ loop \in [Calls -> Loop]
    /\ copy \in [Calls -> Copy]
    /\ missed \in [Calls -> SUBSET Users]
    /\ restarts \in 0..MaxRestarts

Init ==
    /\ recent = <<>>
    /\ since = <<>>
    /\ conv = [v \in Convs |-> [state |-> "free", by |-> NoJob.by, channel |-> "slack"]]
    /\ recency = <<>>
    /\ message = [c \in Calls |-> [reply |-> "none", request |-> NoRequest]]
    /\ request = [r \in Requests |->
          [state |-> IF r \in InitRequests THEN "routed" ELSE "free",
           call |-> NoRequest, attempt |-> 0]]
    /\ reporters = [r \in Requests |-> {}]
    /\ job = [c \in Calls |-> NoJob]
    /\ pc = [c \in Calls |-> "idle"]
    /\ loop = [c \in Calls |-> NewLoop]
    /\ copy = [c \in Calls |-> NoCopy]
    /\ missed = [c \in Calls |-> {}]
    /\ restarts = MaxRestarts

By(c)     == job[c].by
Goto(c, p) == pc' = [pc EXCEPT ![c] = p]

(* The call is over, has failed, or is lost in a restart: its locals go. *)
Ends(C, p) ==
    /\ pc' = [c \in Calls |-> IF c \in C THEN p ELSE pc[c]]
    /\ job' = [c \in Calls |-> IF c \in C THEN NoJob ELSE job[c]]
    /\ loop' = [c \in Calls |-> IF c \in C THEN NewLoop ELSE loop[c]]
    /\ copy' = [c \in Calls |-> IF c \in C THEN NoCopy ELSE copy[c]]
    /\ missed' = [c \in Calls |-> IF c \in C THEN {} ELSE missed[c]]

MayStart(c) == /\ pc[c] = "idle"
               /\ Cardinality({d \in Calls : pc[d] \in Open}) < MaxOpen

(* A call begins with the job j. *)
Begin(c, j, p) == MayStart(c) /\ job' = [job EXCEPT ![c] = j] /\ Goto(c, p)

-----------------------------------------------------------------------------
(* Slack events *)

RangeOf(s) == {s[i] : i \in DOMAIN s}

\* Mutant: evicts once the set is full, not once it overflows.
RememberedTooFew(e) ==
    LET s == Append(recent, e) IN IF Len(s) >= MaxRemembered THEN Tail(s) ELSE s

\* Mutant: nothing is evicted.
RememberedForever(e) == Append(recent, e)

(* The bounded set of recent ids: the oldest one is evicted. *)
Remembered(e) ==
    LET s == Append(recent, e) IN IF Len(s) > MaxRemembered THEN Tail(s) ELSE s

(* An event arrives, for the first time or again, and is acknowledged at   *)
(* once.  One whose id is remembered is ignored; of any other the id is    *)
(* marked before anything is done for it.                                  *)
Deliver(e) ==
    /\ e \notin RangeOf(recent)
    /\ recent' = Remembered(e)
    /\ since' = [f \in DOMAIN since \cup {e} |-> IF f = e THEN {} ELSE since[f] \cup {e}]
    /\ \E c \in Calls :
         Begin(c, [by |-> SenderOf[e], channel |-> "slack", event |-> e, conv |-> NoConv, named |-> FALSE],
               IF e \in WithFiles THEN "creating" ELSE "acking")
    /\ UNCHANGED <<chat, tools, loop, restarts>>

(* No tenant, no bot token, no active account of the sender, or the first  *)
(* post or insert fails: the event is dropped before it has done anything. *)
Ignore(c) ==
    /\ pc[c] \in {"acking", "creating"}
    /\ Ends({c}, "idle")
    /\ UNCHANGED <<slack, chat, store, restarts>>

(* A later error is logged, and that is all: a download or the post fails. *)
Drop(c) ==
    /\ pc[c] = "ingesting"
    /\ Ends({c}, "over")
    /\ UNCHANGED <<slack, chat, store, restarts>>

FreeRequests == {r \in Requests : request[r].state = "free"}

FileRow(c, r, attempt) ==
    request' = [request EXCEPT ![r] = [state |-> "created", call |-> c, attempt |-> attempt]]

(* Files become an expense request, without the assistant. *)
CreateFromFiles(c) ==
    /\ pc[c] = "creating"
    /\ \E r \in FreeRequests :
         /\ FileRow(c, r, 0)
         /\ loop' = [loop EXCEPT ![c].result = r]
    /\ Goto(c, "ingesting")
    /\ UNCHANGED <<slack, chat, reporters, copy, missed, job, restarts>>

(* Every file ingested, the acknowledgement posted, runPipeline; the       *)
(* outcome is posted if that works.                                        *)
RouteFiles(c) ==
    /\ pc[c] = "ingesting"
    /\ request' = [request EXCEPT ![loop[c].result].state = "routed"]
    /\ Ends({c}, "over")
    /\ UNCHANGED <<slack, chat, reporters, restarts>>

(* The sender is found; "On it - give me a moment." *)
AckMessage(c) ==
    /\ pc[c] = "acking"
    /\ Goto(c, "finding")
    /\ UNCHANGED <<slack, chat, tools, job, loop, restarts>>

-----------------------------------------------------------------------------
(* sendMessage *)

ThreadsOf(u, ch) ==
    {v \in Convs : conv[v].state = "live" /\ conv[v].by = u /\ conv[v].channel = ch}

\* Mutant: the lookup ignores the channel.
ThreadsOfUser(u, ch) == ThreadsOf(u, "slack") \cup ThreadsOf(u, "assistant_ui")

(* What findOrCreateConversation and listConversations look through. *)
Threads(u, ch) == ThreadsOf(u, ch)

(* A POST names a conversation, or none; the channel is the server's.      *)
Send(c) ==
    /\ \E u \in Users : \E v \in {NoConv} \cup {v \in Convs : conv[v].state = "live"} :
         Begin(c, [by |-> u, channel |-> "assistant_ui", event |-> "none",
                   conv |-> v, named |-> v # NoConv], "finding")
    /\ UNCHANGED <<slack, chat, tools, loop, restarts>>

Latest(V) == recency[CHOOSE i \in DOMAIN recency :
                 /\ recency[i] \in V
                 /\ \A j \in DOMAIN recency : recency[j] \in V => j <= i]

(* The user's row and the assistant's, empty until the reply is there;     *)
(* then the history, the roles and the budgets are read.                   *)
Draft(c, v) ==
    /\ job' = [job EXCEPT ![c].conv = v]
    /\ message' = [message EXCEPT ![c].reply = "blank"]
    /\ \E attempt \in 0..1 :  \* 1 when a read has failed: no retry
         /\ loop' = [loop EXCEPT ![c].attempt = attempt]
         /\ Goto(c, IF attempt = 0 THEN "modelling" ELSE "failing")

(* Whose threads getConversation finds: the owner's, of either channel. *)
OwnThreads(u) == ThreadsOf(u, "slack") \cup ThreadsOf(u, "assistant_ui")

(* getConversation, or the most recent thread of the channel. *)
FindConversation(c) ==
    /\ pc[c] = "finding"
    /\ LET V == Threads(By(c), job[c].channel)
           v == job[c].conv
       IN  \/ v \in OwnThreads(By(c)) /\ Draft(c, v)
           \/ v = NoConv /\ V # {} /\ Draft(c, Latest(V))
           \/ v = NoConv /\ V = {} /\ Goto(c, "forking") /\ UNCHANGED <<job, message, loop>>
    /\ UNCHANGED <<slack, conv, recency, tools, restarts>>

(* "Conversation not found" *)
RefuseConversation(c) ==
    /\ pc[c] = "finding"
    /\ job[c].conv \in Convs \ OwnThreads(By(c))
    /\ Ends({c}, "over")
    /\ UNCHANGED <<slack, chat, store, restarts>>

CreateConversation(c) ==
    /\ pc[c] = "forking"
    /\ \E v \in Convs :
         /\ conv[v].state = "free"
         /\ conv' = [conv EXCEPT ![v] = [state |-> "live", by |-> By(c),
                                         channel |-> job[c].channel]]
         /\ recency' = Append(recency, v)
         /\ Draft(c, v)
    /\ UNCHANGED <<slack, tools, restarts>>

(* A statement of sendMessage itself fails: the lookup or the inserts, the *)
(* update that fills in the reply - which then stays empty - or that of    *)
(* the conversation.                                                       *)
FailTurn(c) ==
    /\ pc[c] \in {"finding", "forking", "modelling", "failing", "touching"}
    /\ Ends({c}, "failed")
    /\ UNCHANGED <<slack, chat, store, restarts>>

-----------------------------------------------------------------------------
(* orchestrate *)

(* The model asks for tools; those that only read leave nothing to do.     *)
(* Text it streams with them cannot matter, as no retry follows tools.     *)
CallTools(c) ==
    /\ pc[c] = "modelling"
    /\ \E todo \in ToolCalls :
         loop' = [loop EXCEPT ![c].todo = todo]
    /\ Goto(c, "tooling")
    /\ UNCHANGED <<slack, chat, tools, job, restarts>>

\* Mutant: a retry although tools have run.
MayRetryAfterTools(l, token) == l.attempt = 0 /\ ~token

(* Once, and only when nothing was streamed and no tool has run. *)
MayRetry(l, token) == l.attempt = 0 /\ ~token /\ ~l.sawTool

(* The stream breaks off, or the graph reaches its recursion limit; token: *)
(* text had been streamed in this attempt.                                 *)
Retry(c) ==
    /\ pc[c] = "modelling"
    /\ \E token \in BOOLEAN : MayRetry(loop[c], token)
    /\ loop' = [loop EXCEPT ![c] = [NewLoop EXCEPT !.attempt = 1]]
    /\ UNCHANGED <<slack, chat, tools, job, pc, restarts>>

SaveReply(c, reply, r) ==
    /\ message' = [message EXCEPT ![c].reply = reply, ![c].request = r]
    /\ Goto(c, "touching")
    /\ loop' = [loop EXCEPT ![c] = NewLoop]
    /\ UNCHANGED <<slack, conv, recency, tools, job, restarts>>

(* The canned reply, which knows nothing of what was filed. *)
SaveFallback(c) ==
    /\ \/ pc[c] = "failing"
       \/ pc[c] = "modelling" /\ \E token \in BOOLEAN : ~MayRetry(loop[c], token)
    /\ SaveReply(c, "fallback", NoRequest)

(* The model has answered; the reply names the first filing that succeeded. *)
SaveAnswer(c) ==
    /\ pc[c] = "modelling"
    /\ SaveReply(c, "answer", loop[c].result)

(* What is touched is the last to have been. *)
ToTheEnd(s, v) ==
    LET k == CHOOSE i \in DOMAIN s : s[i] = v
    IN  [i \in DOMAIN s |-> IF i < k THEN s[i] ELSE IF i < Len(s) THEN s[i + 1] ELSE v]

(* Conversation.updatedAt; the reply is shown, or posted to Slack if that   *)
(* works: nothing depends on it.                                           *)
Touch(c) ==
    /\ pc[c] = "touching"
    /\ recency' = ToTheEnd(recency, job[c].conv)
    /\ Ends({c}, "over")
    /\ UNCHANGED <<slack, conv, message, store, restarts>>

-----------------------------------------------------------------------------
(* The tools of one model message run side by side. *)

Doing(c, step) == pc[c] = "tooling" /\ step \in loop[c].todo

Proceed(c, step, next) ==
    loop' = [loop EXCEPT ![c].todo = (@ \ {step}) \cup next]

(* file_request: create ... *)
FileRequest(c) ==
    /\ Doing(c, "file")
    /\ \E r \in FreeRequests : FileRow(c, r, loop[c].attempt)
    /\ Proceed(c, "file", {"route"})
    /\ UNCHANGED <<slack, chat, reporters, copy, missed, job, pc, restarts>>

\* Mutant: the id of the request is not kept for the reply.
NoneFiled(result, r) == result

(* extractRequestId: the first one stays. *)
FirstFiled(result, r) == IF result = NoRequest THEN r ELSE result

(* ... then runPipeline and the notices of Routing.tla. *)
RouteRequest(c) ==
    /\ Doing(c, "route")
    /\ \E r \in Requests :
         /\ request[r].state = "created"
         /\ request[r].call = c
         /\ request[r].attempt = loop[c].attempt
         /\ request' = [request EXCEPT ![r].state = "routed"]
         /\ loop' = [loop EXCEPT ![c].todo = @ \ {"route"},
                                 ![c].result = FirstFiled(@, r)]
    /\ UNCHANGED <<slack, chat, reporters, copy, missed, job, pc, restarts>>

(* join_existing_request: addReporterToRequest reads the list and returns  *)
(* at once if the reporter is on it ...                                    *)
ReadReporters(c) ==
    /\ Doing(c, "readReporters")
    /\ \E r \in InitRequests :
         IF By(c) \in reporters[r]
         THEN /\ Proceed(c, "readReporters", {})
              /\ UNCHANGED <<copy, missed>>
         ELSE /\ Proceed(c, "readReporters", {"writeReporters"})
              /\ copy' = [copy EXCEPT ![c] = [req |-> r, list |-> reporters[r]]]
              /\ UNCHANGED missed
    /\ UNCHANGED <<slack, chat, store, job, pc, restarts>>

\* Mutant: the list is started anew.
ExtendedOnly(list, u) == {u}

Extended(list, u) == list \cup {u}

(* ... or writes what it has read back, with the reporter added. *)
WriteReporters(c) ==
    /\ Doing(c, "writeReporters")
    /\ LET r == copy[c].req
       IN  /\ reporters' = [reporters EXCEPT ![r] = Extended(copy[c].list, By(c))]
           /\ missed' = [d \in Calls |->
                 IF d = c THEN {}
                 ELSE missed[d] \cup IF copy[d].req = r THEN reporters'[r] \ reporters[r] ELSE {}]
    /\ copy' = [copy EXCEPT ![c] = NoCopy]
    /\ Proceed(c, "writeReporters", {})
    /\ UNCHANGED <<slack, chat, request, job, pc, restarts>>

(* A tool that throws becomes a message to the model; a request it had     *)
(* created stays.  One that throws before it wrote has done nothing, like  *)
(* those that only read.                                                   *)
FailTool(c) ==
    /\ \E step \in {"file", "route", "writeReporters"} :
         /\ Doing(c, step)
         /\ step = "file" => FreeRequests = {}  \* a bound
         /\ Proceed(c, step, {})
    /\ IF "writeReporters" \in loop'[c].todo
       THEN UNCHANGED <<copy, missed>>
       ELSE copy' = [copy EXCEPT ![c] = NoCopy] /\ missed' = [missed EXCEPT ![c] = {}]
    /\ UNCHANGED <<slack, chat, store, job, pc, restarts>>

(* All tool messages are there. *)
FinishTools(c) ==
    /\ pc[c] = "tooling"
    /\ loop[c].todo = {}
    /\ loop' = [loop EXCEPT ![c].sawTool = TRUE]
    /\ Goto(c, "modelling")
    /\ UNCHANGED <<slack, chat, tools, job, restarts>>

-----------------------------------------------------------------------------

(* The process restarts: its open calls and the ids of events are gone.    *)
Restart ==
    /\ restarts > 0
    /\ restarts' = restarts - 1
    /\ Ends({c \in Calls : pc[c] \in Open}, "lost")
    /\ recent' = <<>>
    /\ since' = <<>>
    /\ UNCHANGED <<chat, store>>

SlackStep(c) ==
    \/ Ignore(c) \/ Drop(c) \/ CreateFromFiles(c) \/ RouteFiles(c) \/ AckMessage(c)

TurnStep(c) ==
    \/ FindConversation(c) \/ RefuseConversation(c) \/ CreateConversation(c) \/ FailTurn(c)
    \/ CallTools(c) \/ Retry(c) \/ SaveFallback(c)
    \/ SaveAnswer(c) \/ Touch(c)

ToolStep(c) ==
    \/ FileRequest(c) \/ RouteRequest(c) \/ ReadReporters(c) \/ WriteReporters(c)
    \/ FailTool(c) \/ FinishTools(c)

(* Every call of the instance is over. *)
AllServed == (\A c \in Calls : pc[c] \in {"over", "failed", "lost"}) /\ UNCHANGED vars

Next == \/ \E e \in Events : Deliver(e)
        \/ \E c \in Calls : Send(c) \/ SlackStep(c) \/ TurnStep(c) \/ ToolStep(c)
        \/ Restart
        \/ AllServed

Spec == Init /\ [][Next]_vars

-----------------------------------------------------------------------------
(* Properties *)

(* However often the model is called again, what its tools have done is    *)
(* done in one attempt: a retry never files a second time                  *)
(* (assistant.service.ts:403-408).                                         *)
RetryNeverRepeatsEffects ==
    \A r, s \in Requests :
        request[r].call # NoRequest /\ request[r].call = request[s].call
            => request[r].attempt = request[s].attempt

(* A process that handles a redelivered event again has marked at least    *)
(* MaxRemembered other events since it marked that one                     *)
(* (slack.service.ts:34-41, 63-73).                                        *)
HandledAgainOnlyIfCrowdedOut ==
    [][\A e \in DOMAIN since, c \in Calls :
         pc[c] = "idle" /\ pc'[c] # "idle" /\ job'[c].event = e
             => Cardinality(since[e]) >= MaxRemembered]_vars

(* A turn works on a thread of its own account; on one of its own channel, *)
(* too, unless the browser has named a thread of Slack - which a message   *)
(* from Slack and a POST without a name never get into, however many of    *)
(* them look for a thread at a time                                        *)
(* (assistant.service.ts:285-287, 357-371, 610-622).                       *)
ThreadsKeepToTheirOwner ==
    \A c \in Calls : pc[c] \in {"modelling", "tooling", "failing", "touching"} =>
        LET thread == conv[job[c].conv]
        IN  /\ thread.state = "live"
            /\ thread.by = By(c)
            /\ thread.channel # job[c].channel => job[c].named /\ thread.channel = "slack"

(* A reply that answers names a request if and only if this very turn has  *)
(* filed and routed one.  A reply stays empty only when the call failed,   *)
(* or was lost in a restart: whoever got an answer finds it in the thread  *)
(* (assistant.service.ts:301-333, 453-464).                                *)
RepliesTellTheTruth ==
    \A c \in Calls :
        LET filed == {r \in Requests : request[r].call = c /\ request[r].state = "routed"}
        IN  /\ message[c].reply = "answer" =>
                 IF filed = {} THEN message[c].request = NoRequest
                               ELSE message[c].request \in filed
            /\ message[c].reply = "blank" => pc[c] \in Open \cup {"failed", "lost"}

(* Somebody who joined a request stays on its list, except when another    *)
(* join had read the list before them and writes it back                   *)
(* (requests.service.ts:428-472).                                          *)
ReportsFallToOverlapsOnly ==
    [][\A r \in Requests : \A u \in reporters[r] \ reporters'[r] :
         \E c \in Calls : copy[c].req = r /\ u \in missed[c]]_vars

=============================================================================
