--------------------------- MODULE RoutingProofs ----------------------------
(***************************************************************************)
(* What Routing keeps for any number of users, roles and overlapping calls.*)
(***************************************************************************)
EXTENDS Routing, FiniteSetTheorems, TLAPS

(* What a call does fits the place it has reached. *)
Fits(c) ==
    /\ pc[c] \notin {"idle", "over", "failed"} => job[c] \in Job
    /\ pc[c] = "finding" => IsOp(c, {"notify", "save", "promote"})
    /\ pc[c] = "choosing" => IsOp(c, {"notify", "tellLead", "broadcast"})
    /\ pc[c] = "excluding" => IsOp(c, {"notify"})
    /\ pc[c] = "posting" => IsOp(c, {"notify", "tellLead", "broadcast"})
    /\ pc[c] \in {"falling", "forwarding", "recording", "recordingForward"} =>
         IsOp(c, {"notify", "broadcast"})
    /\ pc[c] \in {"deleting", "inserting"} => IsOp(c, {"save"})
    /\ pc[c] \in {"promoted", "covering"} => IsOp(c, {"promote"})

TypeInv == TypeOK /\ \A c \in Calls : Fits(c)

(* Posts are made once, to those chosen, and recorded after the last. *)
PostsFit(c) ==
    /\ sent[c] \cap refused[c] = {}
    /\ pc[c] \notin Delivering => Posted(c) = {}
    /\ pc[c] \in {"posting", "forwarding"} => Posted(c) \subseteq target[c]
    /\ pc[c] \in {"recording", "recordingForward"} => Posted(c) = target[c]

(* A notice looks at the roles, at the holders and at the leave requests in *)
(* turn.  Those who could have taken it all along are holders of the roles  *)
(* it found: the name cannot go to another role but through being free.     *)
NoticeFits(c) ==
    IsOp(c, {"notify"}) =>
        /\ pc[c] \in {"finding", "choosing", "excluding"} =>
             /\ surely[c] \subseteq Available(job[c].name, job[c].by)
             /\ away[c] \subseteq Away
        /\ pc[c] \in {"finding", "choosing", "excluding", "falling"} =>
             standby[c] \subseteq Admins \cap Reachable
        /\ pc[c] = "choosing" /\ surely[c] # {} => CalledBy(job[c].name) \subseteq role[c]
        /\ pc[c] = "excluding" =>
             /\ surely[c] \subseteq target[c]
             /\ \A u \in target[c] : <<u, "onLeave">> \notin away[c]
        /\ pc[c] = "falling" => surely[c] = {}
        /\ pc[c] \in {"posting", "recording"} =>
             /\ surely[c] \subseteq target[c]
             /\ job[c].by \notin target[c]
             /\ \A u \in target[c] : away[c] \cap ({u} \X {"onLeave", "formal"}) = {}
        /\ pc[c] \in {"forwarding", "recordingForward"} =>
             /\ surely[c] = {}
             /\ standby[c] \subseteq target[c]

NoticeInv == TypeInv /\ \A c \in Calls : NoticeFits(c)

PostsInv == TypeInv /\ \A c \in Calls : PostsFit(c)

-----------------------------------------------------------------------------
(* Types, in the parts a step writes *)

Places == Delivering \cup {"idle", "finding", "choosing", "excluding", "falling",
                           "deleting", "inserting", "promoted", "covering", "over", "failed"}

DirectoryOK ==
    /\ name \in [Tags -> Names \cup {NoName, Gone}]
    /\ person \in [Users -> Person]
    /\ \A u \in Users : person[u].lead # u
    /\ holds \subseteq Users \X {t \in Tags : name[t] \in Names}

RecordOK == record \in [Calls -> [count : 0..Cardinality(Users), forwarded : BOOLEAN]]

LocalsOK ==
    /\ job \in [Calls -> Job \cup {NoJob}]
    /\ pc \in [Calls -> Places]
    /\ role \in [Calls -> SUBSET Tags]
    /\ target \in [Calls -> SUBSET Users]
    /\ sent \in [Calls -> SUBSET Users]
    /\ refused \in [Calls -> SUBSET Users]
    /\ \A c \in Calls : Fits(c)

HistoryOK ==
    /\ surely \in [Calls -> SUBSET Users]
    /\ standby \in [Calls -> SUBSET Users]
    /\ promised \in [Users -> SUBSET Tags]
    /\ away \in [Calls -> SUBSET (Users \X {"onLeave", "formal"})]

LEMMA TypeParts ==
    TypeInv <=> DirectoryOK /\ RecordOK /\ LocalsOK /\ HistoryOK /\ changes \in 0..MaxChanges
BY DEF TypeInv, TypeOK, DirectoryOK, RecordOK, LocalsOK, HistoryOK, Places

LEMMA TypePartsPrimed ==
    TypeInv' <=> DirectoryOK' /\ RecordOK' /\ LocalsOK' /\ HistoryOK' /\ changes' \in 0..MaxChanges
BY DEF TypeInv, TypeOK, DirectoryOK, RecordOK, LocalsOK, HistoryOK, Places

LEMMA JobFields ==
    ASSUME NEW j \in Job
    PROVE  /\ j.op \in {"notify", "tellLead", "broadcast", "save", "promote"}
           /\ j.op \in {"notify", "tellLead", "broadcast"} => j.by \in Users
           /\ j.op = "notify" => j.name \in Names
           /\ j.op \in {"broadcast", "save"} => j.tags \subseteq Tags
           /\ j.op \in {"save", "promote"} => j.on \in Users
BY DEF Job

(* Places, told apart *)
LEMMA PlacesOf ==
    /\ Delivering = {"posting", "forwarding", "recording", "recordingForward"}
    /\ {"over", "failed", "idle", "finding", "choosing", "excluding", "falling",
        "deleting", "inserting", "promoted", "covering"} \subseteq Places
    /\ Delivering \subseteq Places
    /\ Delivering \cap {"over", "failed", "idle", "finding", "choosing", "excluding", "falling",
                        "deleting", "inserting", "promoted", "covering"} = {}
BY DEF Delivering, Places

(* The call moves to p; its job, roles and recipients are what they were,   *)
(* or new.                                                                  *)
LEMMA LocalsStep ==
    ASSUME LocalsOK, NEW c \in Calls, NEW p \in Places, Goto(c, p),
           job' = job \/ \E j \in Job \cup {NoJob} : job' = [job EXCEPT ![c] = j],
           role' \in [Calls -> SUBSET Tags],
           target' \in [Calls -> SUBSET Users],
           sent' \in [Calls -> SUBSET Users],
           refused' \in [Calls -> SUBSET Users],
           Fits(c)'
    PROVE  LocalsOK'
<1>1. job' \in [Calls -> Job \cup {NoJob}] /\ pc' \in [Calls -> Places]
  BY DEF LocalsOK, Goto
<1>2. ASSUME NEW d \in Calls PROVE Fits(d)'
  <2>1. CASE d = c
    BY <2>1
  <2>2. CASE d # c
    <3>1. pc'[d] = pc[d] /\ job'[d] = job[d] /\ Fits(d)
      BY <2>2 DEF LocalsOK, Goto
    <3> QED BY <3>1 DEF Fits, IsOp
  <2> QED BY <2>1, <2>2
<1> QED BY <1>1, <1>2 DEF LocalsOK

LEMMA EndStep ==
    ASSUME LocalsOK, NEW c \in Calls, NEW p \in {"over", "failed"}, End(c, p)
    PROVE  LocalsOK' /\ pc'[c] = p
<1>1. pc'[c] = p /\ p \in Places
  BY PlacesOf DEF End, Goto, LocalsOK
<1>2. Fits(c)'
  BY <1>1 DEF Fits
<1>3. /\ \E j \in Job \cup {NoJob} : job' = [job EXCEPT ![c] = j]
      /\ role' \in [Calls -> SUBSET Tags] /\ target' \in [Calls -> SUBSET Users]
      /\ sent' \in [Calls -> SUBSET Users] /\ refused' \in [Calls -> SUBSET Users]
  BY DEF End, LocalsOK
<1> QED BY <1>1, <1>2, <1>3, LocalsStep DEF End

LEMMA ChooseStep ==
    ASSUME LocalsOK, NEW c \in Calls, NEW us \in SUBSET Users, NEW p \in Places, Choose(c, us, p),
           Fits(c)'
    PROVE  LocalsOK'
<1>1. /\ job' = job /\ role' \in [Calls -> SUBSET Tags] /\ target' \in [Calls -> SUBSET Users]
      /\ sent' \in [Calls -> SUBSET Users] /\ refused' \in [Calls -> SUBSET Users]
  BY DEF Choose, LocalsOK, posts
<1> QED BY <1>1, LocalsStep DEF Choose

LEMMA StartType ==
    ASSUME TypeInv, NEW c \in Calls, Start(c)
    PROVE  LocalsOK'
<1>1. PICK j \in Job : job' = [job EXCEPT ![c] = j] /\ Goto(c, FirstStep(j.op))
  BY DEF Start
<1>2. FirstStep(j.op) \in Places /\ UNCHANGED <<role, target, sent, refused>>
  BY JobFields, PlacesOf DEF FirstStep, Start, posts
<1>3. LocalsOK
  BY TypeParts
<1>4. job'[c] = j /\ pc'[c] = FirstStep(j.op)
  BY <1>1, <1>3 DEF LocalsOK, Goto
<1>5. Fits(c)'
  BY <1>4, JobFields DEF Fits, FirstStep, IsOp
<1> QED BY <1>1, <1>2, <1>3, <1>5, LocalsStep DEF LocalsOK

LEMMA LookingType ==
    ASSUME TypeInv, NEW c \in Calls,
           \/ FindRole(c) \/ ReadHolders(c) \/ ExcludeUnavailable(c) \/ ReadRecipients(c)
           \/ FallBack(c) \/ ReadLead(c)
    PROVE  LocalsOK'
<1>1. LocalsOK
  BY TypeParts
<1>2. CASE FindRole(c)
  <2>1. CASE CalledBy(job[c].name) = {}
    BY <1>1, <1>2, <2>1, EndStep DEF FindRole
  <2>2. CASE CalledBy(job[c].name) # {}
    <3>1. pc'[c] = "choosing" /\ job' = job /\ Goto(c, "choosing") /\ UNCHANGED <<target, sent, refused>>
          /\ role' = [role EXCEPT ![c] = CalledBy(job[c].name)] /\ IsOp(c, {"notify"})
      BY <1>1, <1>2, <2>2 DEF FindRole, Goto, LocalsOK, posts
    <3>2. Fits(c)'
      BY <1>1, <1>2, <3>1 DEF Fits, IsOp, LocalsOK, FindRole
    <3>3. role' \in [Calls -> SUBSET Tags]
      BY <1>1, <3>1 DEF LocalsOK, CalledBy
    <3> QED BY <1>1, <3>1, <3>2, <3>3, PlacesOf, LocalsStep DEF LocalsOK
  <2> QED BY <2>1, <2>2
<1>3. CASE ReadHolders(c)
  <2>1. Choose(c, {u \in HoldersOf(role[c]) \cap Reachable : ~person[u].onLeave}, "excluding")
    BY <1>3 DEF ReadHolders
  <2>2. pc[c] = "choosing" /\ pc'[c] = "excluding" /\ job' = job /\ IsOp(c, {"notify"})
    BY <1>1, <1>3 DEF ReadHolders, Choose, Goto, LocalsOK
  <2>3. Fits(c)'
    BY <1>1, <2>2 DEF Fits, IsOp, LocalsOK
  <2>4. {u \in HoldersOf(role[c]) \cap Reachable : ~person[u].onLeave} \subseteq Users
    BY DEF HoldersOf
  <2> QED BY <1>1, <2>1, <2>3, <2>4, PlacesOf, ChooseStep
<1>4. CASE ExcludeUnavailable(c)
  <2> DEFINE rest == target[c] \ (Unavailable(target[c]) \cup {job[c].by})
             p == IF rest # {} THEN "posting" ELSE "falling"
  <2>1. Choose(c, rest, p)
    BY <1>4 DEF ExcludeUnavailable
  <2>2. pc[c] = "excluding" /\ pc'[c] = p /\ job' = job /\ p \in {"posting", "falling"}
    BY <1>1, <1>4, <2>1 DEF ExcludeUnavailable, Choose, Goto, LocalsOK
  <2>3. Fits(c)'
    BY <1>1, <2>2 DEF Fits, IsOp, LocalsOK
  <2>4. rest \subseteq Users /\ p \in Places
    BY <1>1, <2>2, PlacesOf DEF LocalsOK
  <2> QED BY <1>1, <2>1, <2>3, <2>4, ChooseStep
<1>5. CASE ReadRecipients(c)
  <2> DEFINE us == Reachable \cap (HoldersOf(job[c].tags) \cup IF job[c].admins THEN Admins ELSE {})
             p == IF us # {} THEN "posting" ELSE "falling"
  <2>1. Choose(c, us, p)
    BY <1>5 DEF ReadRecipients
  <2>2. pc[c] = "choosing" /\ pc'[c] = p /\ job' = job /\ p \in {"posting", "falling"}
        /\ IsOp(c, {"broadcast"})
    BY <1>1, <1>5, <2>1 DEF ReadRecipients, Choose, Goto, LocalsOK
  <2>3. Fits(c)'
    BY <1>1, <2>2 DEF Fits, IsOp, LocalsOK
  <2>4. us \subseteq Users /\ p \in Places
    BY <2>2, PlacesOf DEF Reachable
  <2> QED BY <1>1, <2>1, <2>3, <2>4, ChooseStep
<1>6. CASE FallBack(c)
  <2>1. CASE Admins \cap Reachable = {}
    BY <1>1, <1>6, <2>1, EndStep DEF FallBack
  <2>2. CASE Admins \cap Reachable # {}
    <3>1. Choose(c, Admins \cap Reachable, "forwarding") /\ pc[c] = "falling"
      BY <1>6, <2>2 DEF FallBack
    <3>2. pc'[c] = "forwarding" /\ job' = job
      BY <1>1, <3>1 DEF Choose, Goto, LocalsOK
    <3>3. Fits(c)'
      BY <1>1, <3>1, <3>2 DEF Fits, IsOp, LocalsOK
    <3>4. Admins \cap Reachable \subseteq Users
      BY DEF Reachable
    <3> QED BY <1>1, <3>1, <3>3, <3>4, PlacesOf, ChooseStep
  <2> QED BY <2>1, <2>2
<1>7. CASE ReadLead(c)
  <2> DEFINE lead == {person[job[c].by].lead} \cap Reachable
  <2>1. CASE lead = {}
    BY <1>1, <1>7, <2>1, EndStep DEF ReadLead
  <2>2. CASE lead # {}
    <3>1. Choose(c, lead, "posting") /\ pc[c] = "choosing" /\ IsOp(c, {"tellLead"})
      BY <1>7, <2>2 DEF ReadLead
    <3>2. pc'[c] = "posting" /\ job' = job
      BY <1>1, <3>1 DEF Choose, Goto, LocalsOK
    <3>3. Fits(c)'
      BY <1>1, <3>1, <3>2 DEF Fits, IsOp, LocalsOK
    <3>4. lead \subseteq Users
      BY DEF Reachable
    <3> QED BY <1>1, <3>1, <3>3, <3>4, PlacesOf, ChooseStep
  <2> QED BY <2>1, <2>2
<1> QED BY <1>2, <1>3, <1>4, <1>5, <1>6, <1>7

LEMMA DeliveringType ==
    ASSUME TypeInv, NEW c \in Calls, Post(c) \/ FailPost(c) \/ Record(c)
    PROVE  LocalsOK' /\ RecordOK'
<1>1. LocalsOK /\ RecordOK
  BY TypeParts
<1>2. CASE Post(c)
  <2>1. RecordOK'
    BY <1>1, <1>2 DEF Post, RecordOK
  <2>2. CASE End(c, "over")
    BY <1>1, <2>1, <2>2, EndStep
  <2>3. CASE ~End(c, "over")
    <3>1. PICK u \in target[c], p \in {pc[c], "recording", "recordingForward"} :
            /\ Goto(c, p) /\ UNCHANGED <<job, role, target>>
            /\ p # pc[c] => ~IsOp(c, {"tellLead"})
            /\ \/ sent' = [sent EXCEPT ![c] = @ \cup {u}] /\ UNCHANGED refused
               \/ refused' = [refused EXCEPT ![c] = @ \cup {u}] /\ UNCHANGED sent
      BY <1>2, <2>3 DEF Post
    <3>2. p \in Places /\ pc'[c] = p /\ pc[c] \in {"posting", "forwarding"}
      BY <1>1, <1>2, <3>1, PlacesOf DEF Goto, LocalsOK, Post
    <3>3. Fits(c)'
      BY <1>1, <3>1, <3>2 DEF Fits, IsOp, LocalsOK
    <3>4. sent' \in [Calls -> SUBSET Users] /\ refused' \in [Calls -> SUBSET Users]
      BY <1>1, <3>1 DEF LocalsOK
    <3>5. role' \in [Calls -> SUBSET Tags] /\ target' \in [Calls -> SUBSET Users] /\ job' = job
      BY <1>1, <3>1 DEF LocalsOK
    <3>6. LocalsOK'
      BY <1>1, <3>1, <3>2, <3>3, <3>4, <3>5, LocalsStep
    <3> QED BY <2>1, <3>6
  <2> QED BY <2>2, <2>3
<1>3. CASE FailPost(c)
  BY <1>1, <1>3, EndStep DEF FailPost, RecordOK
<1>4. CASE Record(c)
  <2>1. target[c] \subseteq Users
    BY <1>1 DEF LocalsOK
  <2>2. Cardinality(target[c]) \in 0..Cardinality(Users)
    BY <2>1, UsersFinite, FS_Subset, FS_CardinalityType
  <2>3. \/ UNCHANGED record
        \/ record' = [record EXCEPT ![c] = [count |-> Cardinality(target[c]),
                                             forwarded |-> pc[c] = "recordingForward"]]
    BY <1>4 DEF Record
  <2>4. [count |-> Cardinality(target[c]), forwarded |-> pc[c] = "recordingForward"]
            \in [count : 0..Cardinality(Users), forwarded : BOOLEAN]
    BY <2>2
  <2> DEFINE q == [count |-> Cardinality(target[c]), forwarded |-> pc[c] = "recordingForward"]
             R == [count : 0..Cardinality(Users), forwarded : BOOLEAN]
  <2>5. record' \in [Calls -> R]
    <3>1. record \in [Calls -> R]
      BY <1>1 DEF RecordOK
    <3> HIDE DEF q, R
    <3> QED BY <2>3, <2>4, <3>1 DEF q, R
  <2>6. RecordOK'
    BY <1>1, <1>4, <2>5 DEF Record, RecordOK
  <2> QED BY <1>1, <1>4, <2>6, EndStep DEF Record
<1> QED BY <1>2, <1>3, <1>4

LEMMA SavingType ==
    ASSUME TypeInv, NEW c \in Calls,
           SeeMemberships(c) \/ DeleteMemberships(c) \/ InsertMemberships(c) \/ RollBack(c)
    PROVE  LocalsOK' /\ DirectoryOK'
<1>1. LocalsOK /\ DirectoryOK
  BY TypeParts
<1>2. CASE SeeMemberships(c)
  <2>1. pc'[c] = "deleting" /\ job' = job /\ pc[c] = "finding" /\ IsOp(c, {"save"})
        /\ Goto(c, "deleting") /\ UNCHANGED <<target, sent, refused>>
    BY <1>1, <1>2 DEF SeeMemberships, Goto, LocalsOK, posts
  <2>2. Fits(c)'
    BY <1>1, <2>1 DEF Fits, IsOp, LocalsOK
  <2>3. role' \in [Calls -> SUBSET Tags] /\ target' \in [Calls -> SUBSET Users]
    BY <1>1, <1>2, <2>1 DEF LocalsOK, SeeMemberships, TagsOf
  <2>4. LocalsOK'
    BY <1>1, <2>1, <2>2, <2>3, PlacesOf, LocalsStep DEF LocalsOK
  <2> QED BY <1>1, <1>2, <2>4 DEF SeeMemberships, DirectoryOK, directory
<1>3. CASE DeleteMemberships(c)
  <2>1. pc'[c] = "inserting" /\ pc[c] = "deleting" /\ Goto(c, "inserting")
        /\ UNCHANGED <<job, role, target, sent, refused>>
    BY <1>1, <1>3 DEF DeleteMemberships, Goto, LocalsOK, locals, posts
  <2>2. Fits(c)'
    BY <1>1, <2>1 DEF Fits, IsOp, LocalsOK
  <2>4. LocalsOK'
    BY <1>1, <2>1, <2>2, PlacesOf, LocalsStep DEF LocalsOK
  <2> QED BY <1>1, <1>3, <2>4 DEF DeleteMemberships, DirectoryOK, directory
<1>4. CASE InsertMemberships(c)
  <2> DEFINE u == job[c].on
             kept == TagsOf(u) \ role[c]
  <2>1. /\ job[c].tags \subseteq RolesThere
        /\ holds' = {h \in holds : h[1] # u} \cup {u} \X (kept \cup job[c].tags)
        /\ pc[c] = "inserting" /\ Goto(c, "over") /\ job' = [job EXCEPT ![c] = NoJob]
        /\ UNCHANGED <<name, person, target, sent, refused>>
    BY <1>4 DEF InsertMemberships, posts
  <2>2. role' \in [Calls -> SUBSET Tags]
    <3>1. \A d \in Calls : role[d] \subseteq Tags
      BY <1>1 DEF LocalsOK
    <3>2. role' = [d \in Calls |-> IF d = c THEN {}
                                   ELSE IF pc[d] = "deleting" /\ job[d].on = u
                                        THEN role[d] \ role[c] ELSE role[d]]
      BY <1>4 DEF InsertMemberships
    <3> QED BY <3>1, <3>2
  <2>3. pc'[c] = "over"
    BY <1>1, <2>1 DEF Goto, LocalsOK
  <2>4. Fits(c)'
    BY <2>3 DEF Fits
  <2>5. LocalsOK'
    <3>1. /\ target' \in [Calls -> SUBSET Users] /\ \E j \in Job \cup {NoJob} : job' = [job EXCEPT ![c] = j]
          /\ sent' \in [Calls -> SUBSET Users] /\ refused' \in [Calls -> SUBSET Users]
      BY <1>1, <2>1 DEF LocalsOK
    <3> QED BY <1>1, <2>1, <2>2, <2>4, <3>1, PlacesOf, LocalsStep
  <2>6. u \in Users
    BY <1>1, <2>1, JobFields DEF LocalsOK, Fits, IsOp
  <2>7. holds' \subseteq Users \X {t \in Tags : name[t] \in Names}
    <3>1. kept \cup job[c].tags \subseteq {t \in Tags : name[t] \in Names}
      BY <1>1, <2>1, <2>6 DEF TagsOf, RolesThere, DirectoryOK
    <3> HIDE DEF kept, u
    <3> QED BY <1>1, <2>1, <2>6, <3>1 DEF DirectoryOK
  <2> QED BY <1>1, <2>1, <2>5, <2>7 DEF DirectoryOK
<1>5. CASE RollBack(c)
  BY <1>1, <1>5, EndStep DEF RollBack, DirectoryOK, directory
<1> QED BY <1>2, <1>3, <1>4, <1>5

LEMMA PromotingType ==
    ASSUME TypeInv, NEW c \in Calls, Promote(c) \/ ReadCatalog(c) \/ CoverAllTags(c)
    PROVE  LocalsOK' /\ DirectoryOK'
<1>1. LocalsOK /\ DirectoryOK
  BY TypeParts
<1>2. CASE Promote(c)
  <2>1. pc'[c] = "promoted" /\ pc[c] = "finding" /\ Goto(c, "promoted") /\ IsOp(c, {"promote"})
        /\ UNCHANGED <<job, role, target, sent, refused, name, holds>>
    BY <1>1, <1>2 DEF Promote, Goto, LocalsOK, locals, posts
  <2>2. Fits(c)'
    BY <1>1, <2>1 DEF Fits, IsOp, LocalsOK
  <2>3. LocalsOK'
    BY <1>1, <2>1, <2>2, PlacesOf, LocalsStep DEF LocalsOK
  <2>4. job[c].on \in Users
    BY <1>1, <2>1, JobFields DEF LocalsOK, Fits, IsOp
  <2>5. person' = [person EXCEPT ![job[c].on] = [person[job[c].on] EXCEPT !.admin = TRUE]]
    BY <1>2 DEF Promote
  <2>6. person[job[c].on] \in Person
    BY <1>1, <2>4 DEF DirectoryOK
  <2>7. /\ [person[job[c].on] EXCEPT !.admin = TRUE] \in Person
        /\ [person[job[c].on] EXCEPT !.admin = TRUE].lead = person[job[c].on].lead
    BY <2>6 DEF Person
  <2>8. person' \in [Users -> Person] /\ \A u \in Users : person'[u].lead # u
    BY <1>1, <2>4, <2>5, <2>7 DEF DirectoryOK
  <2> QED BY <1>1, <2>1, <2>3, <2>8 DEF DirectoryOK
<1>3. CASE ReadCatalog(c)
  <2>1. CASE RolesThere = {}
    BY <1>1, <1>3, <2>1, EndStep DEF ReadCatalog, DirectoryOK, directory
  <2>2. CASE RolesThere # {}
    <3>1. pc'[c] = "covering" /\ pc[c] = "promoted" /\ Goto(c, "covering")
          /\ role' = [role EXCEPT ![c] = RolesThere] /\ UNCHANGED <<job, target, sent, refused>>
      BY <1>1, <1>3, <2>2 DEF ReadCatalog, Goto, LocalsOK, posts
    <3>2. Fits(c)'
      BY <1>1, <3>1 DEF Fits, IsOp, LocalsOK
    <3>3. role' \in [Calls -> SUBSET Tags]
      BY <1>1, <3>1 DEF LocalsOK, RolesThere
    <3>4. LocalsOK'
      BY <1>1, <3>1, <3>2, <3>3, PlacesOf, LocalsStep DEF LocalsOK
    <3> QED BY <1>1, <1>3, <3>4 DEF ReadCatalog, DirectoryOK, directory
  <2> QED BY <2>1, <2>2
<1>4. CASE CoverAllTags(c)
  <2>1. job[c].on \in Users /\ role[c] \subseteq Tags
    BY <1>1, <1>4, JobFields DEF CoverAllTags, LocalsOK, Fits, IsOp
  <2>2. LocalsOK'
    BY <1>1, <1>4, EndStep DEF CoverAllTags
  <2>3. holds' \subseteq Users \X {t \in Tags : name[t] \in Names}
    BY <1>1, <1>4, <2>1 DEF CoverAllTags, Covered, RolesThere, DirectoryOK
  <2> QED BY <1>1, <1>4, <2>2, <2>3 DEF CoverAllTags, DirectoryOK
<1> QED BY <1>2, <1>3, <1>4

LEMMA AdministerType ==
    ASSUME TypeInv, Administer
    PROVE  DirectoryOK' /\ changes' \in 0..MaxChanges /\ UNCHANGED <<record, locals, pc>>
<1>1. DirectoryOK /\ changes \in 0..MaxChanges /\ MaxChanges \in Nat
  BY TypeParts, BoundsType
<1>2. Change
  BY DEF Administer, DeleteTag, CreateTag, RenameTag, Toggle, SetTeamLead
<1>3. changes' \in 0..MaxChanges /\ UNCHANGED <<record, locals, pc>>
  BY <1>1, <1>2 DEF Change
<1>4. ASSUME NEW t \in Tags, DeleteTag(t) PROVE DirectoryOK'
  <2>1. name' \in [Tags -> Names \cup {NoName, Gone}] /\ name' = [name EXCEPT ![t] = Gone]
        /\ holds' = {h \in holds : h[2] # t} /\ person' = person
    BY <1>1, <1>4 DEF DeleteTag, DirectoryOK
  <2>2. holds' \subseteq Users \X {x \in Tags : name'[x] \in Names}
    BY <1>1, <2>1 DEF DirectoryOK
  <2> QED BY <1>1, <2>1, <2>2 DEF DirectoryOK
<1>5. ASSUME NEW t \in Tags, NEW n \in Names, CreateTag(t, n) \/ RenameTag(t, n) PROVE DirectoryOK'
  <2>1. name' \in [Tags -> Names \cup {NoName, Gone}] /\ name' = [name EXCEPT ![t] = n]
        /\ holds' = holds /\ person' = person
    BY <1>1, <1>5 DEF CreateTag, RenameTag, DirectoryOK
  <2>2. holds' \subseteq Users \X {x \in Tags : name'[x] \in Names}
    BY <1>1, <2>1 DEF DirectoryOK
  <2> QED BY <1>1, <2>1, <2>2 DEF DirectoryOK
<1>6. ASSUME NEW u \in Users, NEW what \in {"admin", "reachable", "onLeave", "formal"}, Toggle(u, what)
      PROVE  DirectoryOK'
  <2> DEFINE q == [person[u] EXCEPT ![what] = ~person[u][what]]
  <2>1. person' = [person EXCEPT ![u] = q] /\ UNCHANGED <<name, holds>>
    BY <1>6 DEF Toggle
  <2>2. person[u] \in Person
    BY <1>1 DEF DirectoryOK
  <2>3. q \in Person /\ q.lead = person[u].lead
    BY <1>6, <2>2 DEF Person
  <2> HIDE DEF q
  <2>4. person' \in [Users -> Person] /\ \A v \in Users : person'[v].lead # v
    BY <1>1, <2>1, <2>3 DEF DirectoryOK
  <2> QED BY <1>1, <2>1, <2>4 DEF DirectoryOK
<1>7. ASSUME NEW u \in Users, NEW v \in Users \cup {NoOne}, SetTeamLead(u, v) PROVE DirectoryOK'
  <2> DEFINE q == [person[u] EXCEPT !.lead = v]
  <2>1. person' = [person EXCEPT ![u] = q] /\ UNCHANGED <<name, holds>> /\ v # u
    BY <1>7 DEF SetTeamLead, MayLead
  <2>2. person[u] \in Person
    BY <1>1 DEF DirectoryOK
  <2>3. q \in Person /\ q.lead = v
    BY <2>2 DEF Person
  <2> HIDE DEF q
  <2>4. person' \in [Users -> Person] /\ \A w \in Users : person'[w].lead # w
    BY <1>1, <2>1, <2>3 DEF DirectoryOK
  <2> QED BY <1>1, <2>1, <2>4 DEF DirectoryOK
<1> QED BY <1>3, <1>4, <1>5, <1>6, <1>7 DEF Administer

LEMMA ObserveType ==
    ASSUME HistoryOK, LocalsOK, LocalsOK', Observe
    PROVE  HistoryOK'
<1>2. /\ \A c \in Calls : /\ surely[c] \subseteq Users /\ standby[c] \subseteq Users
                          /\ away[c] \subseteq Users \X {"onLeave", "formal"}
                          /\ Available(job[c].name, job[c].by)' \subseteq Users
      /\ (Admins \cap Reachable)' \subseteq Users
      /\ Away' \subseteq Users \X {"onLeave", "formal"}
  BY DEF HistoryOK, Available, HoldersOf, Admins, Away
<1>3. /\ surely' \in [Calls -> SUBSET Users]
      /\ standby' \in [Calls -> SUBSET Users]
      /\ away' \in [Calls -> SUBSET (Users \X {"onLeave", "formal"})]
  BY <1>2 DEF Observe, ObserveNotices, SoFar
<1>4. promised' \in [Users -> SUBSET Tags]
  <2>1. RolesThere \subseteq Tags /\ \A u \in Users : promised[u] \subseteq Tags
    BY DEF RolesThere, HistoryOK
  <2> QED BY <2>1 DEF Observe, ObservePromotions
<1> QED BY <1>3, <1>4 DEF HistoryOK

LEMMA CallType ==
    ASSUME TypeInv, NEW c \in Calls, CallStep(c)
    PROVE  DirectoryOK' /\ RecordOK' /\ LocalsOK' /\ changes' = changes
<1>1. DirectoryOK /\ RecordOK /\ LocalsOK
  BY TypeParts
<1>2. CASE Start(c)
  BY <1>1, <1>2, StartType DEF Start, directory, DirectoryOK, RecordOK
<1>3. CASE \/ FindRole(c) \/ ReadHolders(c) \/ ExcludeUnavailable(c) \/ ReadRecipients(c)
           \/ FallBack(c) \/ ReadLead(c)
  <2>1. UNCHANGED <<directory, record, changes>>
    BY <1>3 DEF FindRole, ReadHolders, ExcludeUnavailable, ReadRecipients, FallBack, ReadLead
  <2> QED BY <1>1, <1>3, <2>1, LookingType DEF directory, DirectoryOK, RecordOK
<1>4. CASE Post(c) \/ FailPost(c) \/ Record(c)
  <2>1. UNCHANGED <<directory, changes>>
    BY <1>4 DEF Post, FailPost, Record
  <2> QED BY <1>1, <1>4, <2>1, DeliveringType DEF directory, DirectoryOK
<1>5. CASE SeeMemberships(c) \/ DeleteMemberships(c) \/ InsertMemberships(c) \/ RollBack(c)
  <2>1. UNCHANGED <<record, changes>>
    BY <1>5 DEF SeeMemberships, DeleteMemberships, InsertMemberships, RollBack
  <2> QED BY <1>1, <1>5, <2>1, SavingType DEF RecordOK
<1>6. CASE Promote(c) \/ ReadCatalog(c) \/ CoverAllTags(c)
  <2>1. UNCHANGED <<record, changes>>
    BY <1>6 DEF Promote, ReadCatalog, CoverAllTags
  <2> QED BY <1>1, <1>6, <2>1, PromotingType DEF RecordOK
<1> QED BY <1>2, <1>3, <1>4, <1>5, <1>6 DEF CallStep

LEMMA TypeInit == Init => TypeInv
<1> SUFFICES ASSUME Init PROVE TypeInv
  OBVIOUS
<1>1. DirectoryOK
  <2>1. \A u \in Users : person[u].lead # u
    BY InitType DEF Init
  <2>2. holds \subseteq Users \X {t \in Tags : name[t] \in Names}
    BY InitType DEF Init
  <2> QED BY <2>1, <2>2, InitType DEF Init, DirectoryOK
<1>2. RecordOK
  <2>1. 0 \in 0..Cardinality(Users)
    BY UsersFinite, FS_CardinalityType
  <2> QED BY <2>1 DEF Init, RecordOK, NoRecord
<1>3. LocalsOK
  <2>1. \A c \in Calls : pc[c] = "idle"
    BY DEF Init
  <2>2. \A c \in Calls : Fits(c)
    BY <2>1 DEF Fits
  <2> QED BY <2>2, PlacesOf DEF Init, LocalsOK
<1>4. HistoryOK /\ changes \in 0..MaxChanges
  BY BoundsType DEF Init, HistoryOK
<1> QED BY <1>1, <1>2, <1>3, <1>4, TypeParts

LEMMA TypeStep == TypeInv /\ [Next]_vars => TypeInv'
<1> SUFFICES ASSUME TypeInv, [Next]_vars PROVE TypeInv'
  OBVIOUS
<1>1. DirectoryOK /\ RecordOK /\ LocalsOK /\ HistoryOK /\ changes \in 0..MaxChanges
  BY TypeParts
<1>2. ASSUME Administer, Observe PROVE TypeInv'
  <2>1. DirectoryOK' /\ changes' \in 0..MaxChanges /\ UNCHANGED <<record, job, role, target, sent, refused, pc>>
    BY <1>2, AdministerType DEF locals, posts
  <2>2. \A c \in Calls : Fits(c)'
    BY <1>1, <2>1 DEF LocalsOK, Fits, IsOp
  <2>3. LocalsOK'
    BY <1>1, <2>1, <2>2 DEF LocalsOK
  <2>4. RecordOK'
    BY <1>1, <2>1 DEF RecordOK
  <2>5. HistoryOK'
    BY <1>1, <1>2, <2>3, ObserveType
  <2> QED BY <2>1, <2>3, <2>4, <2>5, TypePartsPrimed
<1>3. ASSUME NEW c \in Calls, CallStep(c), Observe PROVE TypeInv'
  <2>1. DirectoryOK' /\ RecordOK' /\ LocalsOK' /\ changes' = changes
    BY <1>3, CallType
  <2>2. HistoryOK'
    BY <1>1, <1>3, <2>1, ObserveType
  <2> QED BY <1>1, <2>1, <2>2, TypePartsPrimed
<1>4. CASE UNCHANGED vars
  <2>1. UNCHANGED <<name, person, holds, record, job, role, target, sent, refused,
                   surely, standby, away, promised, pc, changes>>
    BY <1>4 DEF vars, directory, locals, posts, history
  <2>2. \A c \in Calls : Fits(c)'
    BY <1>1, <2>1 DEF LocalsOK, Fits, IsOp
  <2>3. DirectoryOK' /\ RecordOK' /\ LocalsOK' /\ HistoryOK' /\ changes' \in 0..MaxChanges
    BY <1>1, <2>1, <2>2 DEF DirectoryOK, RecordOK, LocalsOK, HistoryOK
  <2> QED BY <2>3, TypePartsPrimed
<1> QED BY <1>2, <1>3, <1>4 DEF Next, AllServed

LEMMA TypesHold == Spec => []TypeInv
BY TypeInit, TypeStep, PTL DEF Spec

(* Memberships are always of roles that exist, nobody leads themselves, and *)
(* the roles and users a call carries are ones it was given or has read.    *)
THEOREM TypeCorrect == Spec => []TypeOK
<1>1. TypeInv => TypeOK
  BY DEF TypeInv
<1> QED BY <1>1, TypesHold, PTL

-----------------------------------------------------------------------------
(* Broadcasts are recorded as they were posted *)

(* What every step leaves to the other calls. *)
Alone(c) ==
    \A d \in Calls \ {c} : /\ pc'[d] = pc[d] /\ job'[d] = job[d] /\ target'[d] = target[d]
                           /\ sent'[d] = sent[d] /\ refused'[d] = refused[d]
                           /\ record'[d] = record[d]

LEMMA CallsAlone ==
    ASSUME TypeInv, NEW c \in Calls, CallStep(c)
    PROVE  Alone(c)
<1>1. LocalsOK /\ RecordOK
  BY TypeParts
<1> DEFINE Kept(d) == /\ pc'[d] = pc[d] /\ job'[d] = job[d] /\ target'[d] = target[d]
                      /\ sent'[d] = sent[d] /\ refused'[d] = refused[d]
<1>2. ASSUME NEW p, End(c, p) PROVE \A d \in Calls \ {c} : Kept(d)
  BY <1>1, <1>2 DEF End, Goto, LocalsOK
<1>3. ASSUME NEW us, NEW p, Choose(c, us, p) PROVE \A d \in Calls \ {c} : Kept(d)
  BY <1>1, <1>3 DEF Choose, Goto, LocalsOK, posts
<1>4. CASE Start(c)
  BY <1>1, <1>4 DEF Start, Goto, posts, LocalsOK, Alone
<1>5. CASE \/ FindRole(c) \/ ReadHolders(c) \/ ExcludeUnavailable(c) \/ ReadRecipients(c)
           \/ FallBack(c) \/ ReadLead(c)
  <2>1. record' = record
    BY <1>5 DEF FindRole, ReadHolders, ExcludeUnavailable, ReadRecipients, FallBack, ReadLead
  <2>2. \/ \E p : End(c, p)
        \/ \E us, p : Choose(c, us, p)
        \/ Goto(c, "choosing") /\ UNCHANGED <<job, target, sent, refused>>
    BY <1>5 DEF FindRole, ReadHolders, ExcludeUnavailable, ReadRecipients, FallBack, ReadLead, posts
  <2>3. \A d \in Calls \ {c} : Kept(d)
    <3>1. CASE Goto(c, "choosing") /\ UNCHANGED <<job, target, sent, refused>>
      BY <1>1, <3>1 DEF Goto, LocalsOK
    <3> QED BY <1>2, <1>3, <2>2, <3>1
  <2> QED BY <2>1, <2>3 DEF Alone
<1>6. CASE Post(c)
  <2>1. record' = record
    BY <1>6 DEF Post
  <2>2. \/ \E p : End(c, p)
        \/ /\ \E p : Goto(c, p)
           /\ UNCHANGED <<job, target>>
           /\ \E S : sent' = [sent EXCEPT ![c] = S] \/ sent' = sent
           /\ \E S : refused' = [refused EXCEPT ![c] = S] \/ refused' = refused
    BY <1>6 DEF Post
  <2>3. \A d \in Calls \ {c} : Kept(d)
    <3>1. ASSUME ~\E p : End(c, p) PROVE \A d \in Calls \ {c} : Kept(d)
      BY <1>1, <2>2, <3>1 DEF Goto, LocalsOK
    <3> QED BY <1>2, <3>1
  <2> QED BY <2>1, <2>3 DEF Alone
<1>7. CASE FailPost(c) \/ Record(c)
  <2>1. \A d \in Calls \ {c} : record'[d] = record[d]
    BY <1>1, <1>7 DEF FailPost, Record, RecordOK
  <2>2. \E p : End(c, p)
    BY <1>7 DEF FailPost, Record
  <2> QED BY <1>2, <2>1, <2>2 DEF Alone
<1>8. CASE \/ SeeMemberships(c) \/ DeleteMemberships(c) \/ InsertMemberships(c) \/ RollBack(c)
           \/ Promote(c) \/ ReadCatalog(c) \/ CoverAllTags(c)
  <2>1. record' = record
    BY <1>8 DEF SeeMemberships, DeleteMemberships, InsertMemberships, RollBack,
            Promote, ReadCatalog, CoverAllTags
  <2>2. \/ \E p : End(c, p)
        \/ \E p : Goto(c, p) /\ UNCHANGED <<job, target, sent, refused>>
        \/ Goto(c, "over") /\ job' = [job EXCEPT ![c] = NoJob] /\ UNCHANGED <<target, sent, refused>>
    BY <1>8 DEF SeeMemberships, DeleteMemberships, InsertMemberships, RollBack,
            Promote, ReadCatalog, CoverAllTags, locals, posts
  <2>3. \A d \in Calls \ {c} : Kept(d)
    <3>1. ASSUME ~\E p : End(c, p) PROVE \A d \in Calls \ {c} : Kept(d)
      BY <1>1, <2>2, <3>1 DEF Goto, LocalsOK
    <3> QED BY <1>2, <3>1
  <2> QED BY <2>1, <2>3 DEF Alone
<1> QED BY <1>4, <1>5, <1>6, <1>7, <1>8 DEF CallStep

LEMMA PostsMove ==
    ASSUME PostsInv, NEW c \in Calls, CallStep(c)
    PROVE  PostsFit(c)'
<1>1. LocalsOK /\ PostsFit(c) /\ TypeInv
  BY TypeParts DEF PostsInv
<1> USE PlacesOf
<1>2. ASSUME NEW p \in {"over", "failed"}, End(c, p) PROVE PostsFit(c)'
  BY <1>1, <1>2 DEF End, Goto, LocalsOK, PostsFit, Posted
<1>3. ASSUME NEW p \in Places \ {"recording", "recordingForward"}, Goto(c, p), Posted(c) = {},
             UNCHANGED <<sent, refused>>
      PROVE  PostsFit(c)'
  <2>1. pc'[c] = p /\ sent'[c] = {} /\ refused'[c] = {}
    BY <1>1, <1>3 DEF Goto, LocalsOK, Posted
  <2> QED BY <2>1, <1>3 DEF PostsFit, Posted
<1>4. CASE Start(c)
  <2>1. PICK j \in Job : job' = [job EXCEPT ![c] = j] /\ Goto(c, FirstStep(j.op))
    BY <1>4 DEF Start
  <2>2. FirstStep(j.op) \in Places \ {"recording", "recordingForward"}
    BY JobFields DEF FirstStep
  <2>3. Posted(c) = {} /\ UNCHANGED <<sent, refused>>
    BY <1>1, <1>4 DEF Start, PostsFit, posts
  <2> QED BY <1>3, <2>1, <2>2, <2>3
<1>5. CASE \/ FindRole(c) \/ ReadHolders(c) \/ ExcludeUnavailable(c) \/ ReadRecipients(c)
           \/ FallBack(c) \/ ReadLead(c)
  <2>1. Posted(c) = {}
    BY <1>1, <1>5 DEF FindRole, ReadHolders, ExcludeUnavailable, ReadRecipients, FallBack,
            ReadLead, PostsFit
  <2>2. \/ \E p \in {"over", "failed"} : End(c, p)
        \/ /\ \E p \in Places \ {"recording", "recordingForward"} : Goto(c, p)
           /\ UNCHANGED <<sent, refused>>
    BY <1>5 DEF FindRole, ReadHolders, ExcludeUnavailable, ReadRecipients, FallBack, ReadLead,
         Choose, posts
  <2> QED BY <1>2, <1>3, <2>1, <2>2
<1>6. CASE Post(c)
  <2>1. PICK u \in target[c] \ Posted(c) :
          LET last == Posted(c) \cup {u} = target[c]
          IN  \/ End(c, "over")
              \/ /\ \/ sent' = [sent EXCEPT ![c] = @ \cup {u}] /\ UNCHANGED refused
                    \/ refused' = [refused EXCEPT ![c] = @ \cup {u}] /\ UNCHANGED sent
                 /\ Goto(c, IF ~last THEN pc[c]
                            ELSE IF pc[c] = "posting" THEN "recording" ELSE "recordingForward")
                 /\ UNCHANGED <<job, role, target>>
    BY <1>6 DEF Post
  <2>2. Posted(c) \subseteq target[c] /\ pc[c] \in {"posting", "forwarding"}
        /\ sent[c] \cap refused[c] = {}
    BY <1>1, <1>6 DEF Post, PostsFit
  <2>3. CASE ~End(c, "over")
    <3>1. /\ Posted(c)' = Posted(c) \cup {u} /\ target'[c] = target[c]
          /\ sent'[c] \cap refused'[c] = {}
      BY <1>1, <2>1, <2>2, <2>3 DEF Posted, LocalsOK
    <3>2. pc'[c] = IF Posted(c) \cup {u} # target[c] THEN pc[c]
                   ELSE IF pc[c] = "posting" THEN "recording" ELSE "recordingForward"
      BY <1>1, <2>1, <2>3 DEF Goto, LocalsOK
    <3>3. Posted(c) \cup {u} \subseteq target[c]
      BY <2>2
    <3> QED BY <2>2, <3>1, <3>2, <3>3 DEF PostsFit
  <2> QED BY <1>2, <2>3
<1>7. CASE FailPost(c) \/ Record(c)
  BY <1>2, <1>7 DEF FailPost, Record
<1>8. CASE \/ SeeMemberships(c) \/ DeleteMemberships(c) \/ InsertMemberships(c) \/ RollBack(c)
           \/ Promote(c) \/ ReadCatalog(c) \/ CoverAllTags(c)
  <2>1. Posted(c) = {}
    BY <1>1, <1>8 DEF SeeMemberships, DeleteMemberships, InsertMemberships, RollBack,
            Promote, ReadCatalog, CoverAllTags, PostsFit
  <2>2. \/ \E p \in {"over", "failed"} : End(c, p)
        \/ /\ \E p \in Places \ {"recording", "recordingForward"} : Goto(c, p)
           /\ UNCHANGED <<sent, refused>>
    BY <1>8 DEF SeeMemberships, DeleteMemberships, InsertMemberships, RollBack,
            Promote, ReadCatalog, CoverAllTags, locals, posts
  <2> QED BY <1>2, <1>3, <2>1, <2>2
<1> QED BY <1>4, <1>5, <1>6, <1>7, <1>8 DEF CallStep

LEMMA PostsStep == PostsInv /\ [Next]_vars => PostsInv'
<1> SUFFICES ASSUME PostsInv, [Next]_vars PROVE PostsInv'
  OBVIOUS
<1>1. TypeInv /\ TypeInv'
  BY TypeStep DEF PostsInv
<1>2. ASSUME UNCHANGED <<sent, refused, target, pc>> PROVE \A c \in Calls : PostsFit(c)'
  BY <1>2 DEF PostsInv, PostsFit, Posted
<1>3. CASE Administer
  BY <1>1, <1>2, <1>3, AdministerType DEF PostsInv, locals, posts
<1>4. ASSUME NEW c \in Calls, CallStep(c) PROVE \A d \in Calls : PostsFit(d)'
  <2>1. ASSUME NEW d \in Calls \ {c} PROVE PostsFit(d)'
    BY <1>1, <1>4, <2>1, CallsAlone DEF Alone, PostsInv, PostsFit, Posted
  <2> QED BY <1>4, <2>1, PostsMove
<1>5. CASE UNCHANGED vars
  <2>1. UNCHANGED <<sent, refused, target, pc>>
    BY <1>5 DEF vars, locals, posts
  <2> QED BY <1>1, <1>2, <2>1 DEF PostsInv
<1> QED BY <1>1, <1>3, <1>4, <1>5 DEF Next, AllServed, PostsInv

RecordedFits(c) ==
    record'[c] # record[c] =>
        /\ sent[c] \cap refused[c] = {}
        /\ record'[c].count = Cardinality(sent[c]) + Cardinality(refused[c])

LEMMA RecordedStep ==
    ASSUME PostsInv, [Next]_vars, NEW c \in Calls
    PROVE  RecordedFits(c)
<1> SUFFICES ASSUME record'[c] # record[c] PROVE RecordedFits(c)
  BY DEF RecordedFits
<1>1. TypeInv /\ LocalsOK /\ RecordOK /\ PostsFit(c)
  BY TypeParts DEF PostsInv
<1>2. ~Administer
  BY <1>1, AdministerType
<1>3. ~UNCHANGED vars
  BY DEF vars
<1>4. PICK d \in Calls : CallStep(d)
  BY <1>2, <1>3 DEF Next, AllServed
<1>5. d = c
  BY <1>1, <1>4, CallsAlone DEF Alone
<1>6. Record(c)
  BY <1>4, <1>5 DEF CallStep, Start, FindRole, ReadHolders, ExcludeUnavailable, ReadRecipients,
       FallBack, ReadLead, Post, FailPost, SeeMemberships, DeleteMemberships,
       InsertMemberships, RollBack, Promote, ReadCatalog, CoverAllTags
<1>7. record'[c].count = Cardinality(target[c]) /\ Posted(c) = target[c]
  BY <1>1, <1>6 DEF Record, RecordOK, PostsFit
<1>8. IsFiniteSet(sent[c]) /\ IsFiniteSet(refused[c]) /\ sent[c] \cap refused[c] = {}
  BY <1>1, UsersFinite, FS_Subset DEF LocalsOK, PostsFit
<1>9. Cardinality(Posted(c)) = Cardinality(sent[c]) + Cardinality(refused[c])
  <2>1. Cardinality(sent[c]) \in Nat /\ Cardinality(refused[c]) \in Nat
    BY <1>8, FS_CardinalityType
  <2>2. Cardinality(sent[c] \cap refused[c]) = 0
    BY <1>8, FS_EmptySet
  <2>3. Cardinality(Posted(c)) =
          Cardinality(sent[c]) + Cardinality(refused[c]) - Cardinality(sent[c] \cap refused[c])
    BY <1>8, FS_Union DEF Posted
  <2> QED BY <2>1, <2>2, <2>3
<1> QED BY <1>7, <1>8, <1>9 DEF RecordedFits

LEMMA PostsHold == Spec => []PostsInv
<1>1. Init => PostsInv
  <2>1. Init => \A c \in Calls : PostsFit(c)
    BY PlacesOf DEF Init, PostsFit, Posted
  <2> QED BY <2>1, TypeInit DEF PostsInv
<1> QED BY <1>1, PostsStep, PTL DEF Spec

(* The history of broadcasts counts every post once, taken or refused, for  *)
(* any number of recipients and of overlapping calls, however roles are     *)
(* deleted, people leave and posts fail between the choice of the           *)
(* recipients and the row (employee-roles.service.ts:424-441, 531-546).     *)
THEOREM RecordedProved == Spec => RecordedWasPosted
<1> DEFINE A == \A c \in Calls : record'[c] # record[c] =>
                   /\ sent[c] \cap refused[c] = {}
                   /\ record'[c].count = Cardinality(sent[c]) + Cardinality(refused[c])
<1>1. PostsInv /\ [Next]_vars => [A]_vars
  BY RecordedStep DEF RecordedFits
<1> QED BY <1>1, PostsHold, PTL DEF Spec, RecordedWasPosted

-----------------------------------------------------------------------------
(* Whom a notice reaches *)

Watching(c) == pc[c] \in {"finding", "choosing", "excluding"}

(* While a call looks for its recipients, the history holds what is so now, *)
LEMMA ObservedNow ==
    ASSUME Observe, NEW c \in Calls, IsOp(c, {"notify"})', Watching(c)'
    PROVE  /\ surely'[c] \subseteq Available(job[c].name, job[c].by)'
           /\ away'[c] \subseteq Away'
BY DEF Observe, ObserveNotices, SoFar, IsOp, Watching

(* and what was so before; *)
LEMMA ObservedBefore ==
    ASSUME Observe, NEW c \in Calls, IsOp(c, {"notify"})', Watching(c)', pc[c] # "idle"
    PROVE  surely'[c] \subseteq surely[c] /\ away'[c] \subseteq away[c]
BY DEF Observe, ObserveNotices, SoFar, IsOp, Watching

(* afterwards it stays. *)
LEMMA ObservedNoMore ==
    ASSUME Observe, NEW c \in Calls, IsOp(c, {"notify"})', ~Watching(c)'
    PROVE  surely'[c] = surely[c] /\ away'[c] = away[c]
BY DEF Observe, ObserveNotices, SoFar, IsOp, Watching

(* The administrators are watched one step longer. *)
LEMMA StandbyKept ==
    ASSUME Observe, NEW c \in Calls, IsOp(c, {"notify"})'
    PROVE  /\ Watching(c)' \/ pc'[c] = "falling" => standby'[c] \subseteq (Admins \cap Reachable)'
           /\ ~Watching(c)' /\ pc'[c] # "falling" => standby'[c] = standby[c]
BY DEF Observe, ObserveNotices, SoFar, IsOp, Watching

(* A name in use goes to no other role. *)
LEMMA NameHeld ==
    ASSUME TypeInv, Administer, NEW n \in Names, CalledBy(n) # {}
    PROVE  CalledBy(n)' \subseteq CalledBy(n)
<1>1. DirectoryOK
  BY TypeParts
<1>2. ASSUME NEW t \in Tags, DeleteTag(t) PROVE CalledBy(n)' \subseteq CalledBy(n)
  BY <1>1, <1>2, NamesType DEF DeleteTag, CalledBy, DirectoryOK
<1>3. ASSUME NEW t \in Tags, NEW m \in Names, CreateTag(t, m) \/ RenameTag(t, m)
      PROVE  CalledBy(n)' \subseteq CalledBy(n)
  <2>1. m # n
    BY <1>3 DEF CreateTag, RenameTag
  <2> QED BY <1>1, <1>3, <2>1 DEF CreateTag, RenameTag, CalledBy, DirectoryOK
<1>4. ASSUME NEW u \in Users, NEW what \in {"admin", "reachable", "onLeave", "formal"}, Toggle(u, what)
      PROVE  CalledBy(n)' \subseteq CalledBy(n)
  BY <1>4 DEF Toggle, CalledBy
<1>5. ASSUME NEW u \in Users, NEW v \in Users \cup {NoOne}, SetTeamLead(u, v)
      PROVE  CalledBy(n)' \subseteq CalledBy(n)
  BY <1>5 DEF SetTeamLead, CalledBy
<1> QED BY <1>2, <1>3, <1>4, <1>5 DEF Administer

LEMMA NamesKept ==
    ASSUME NEW c \in Calls, CallStep(c)
    PROVE  name' = name
BY DEF CallStep, Start, FindRole, ReadHolders, ExcludeUnavailable, ReadRecipients, FallBack,
   ReadLead, Post, FailPost, Record, SeeMemberships, DeleteMemberships, InsertMemberships,
   RollBack, Promote, ReadCatalog, CoverAllTags, directory

(* A save shortens what other saves have seen, and nothing else does. *)
LEMMA RolesAlone ==
    ASSUME TypeInv, NEW c \in Calls, CallStep(c), NEW d \in Calls \ {c}, pc[d] # "deleting"
    PROVE  role'[d] = role[d]
<1>1. LocalsOK
  BY TypeParts
<1>2. CASE InsertMemberships(c)
  BY <1>2 DEF InsertMemberships
<1>3. CASE ~InsertMemberships(c)
  <2>1. \/ role' = role
        \/ \E T : role' = [role EXCEPT ![c] = T]
    BY <1>3 DEF CallStep, Start, FindRole, ReadHolders, ExcludeUnavailable, ReadRecipients,
         FallBack, ReadLead, Post, FailPost, Record, SeeMemberships, DeleteMemberships,
         RollBack, Promote, ReadCatalog, CoverAllTags, End, Choose, locals
  <2> QED BY <1>1, <2>1 DEF LocalsOK
<1> QED BY <1>2, <1>3

(* What others do while a notice is under way. *)
LEMMA NoticeUndisturbed ==
    ASSUME NoticeInv, Observe, NEW c \in Calls,
           pc'[c] = pc[c], job'[c] = job[c], target'[c] = target[c],
           pc[c] = "choosing" => role'[c] = role[c],
           \A n \in Names : CalledBy(n) # {} => CalledBy(n)' \subseteq CalledBy(n)
    PROVE  NoticeFits(c)'
<1> SUFFICES ASSUME IsOp(c, {"notify"})' PROVE NoticeFits(c)'
  BY DEF NoticeFits
<1>1. IsOp(c, {"notify"}) /\ NoticeFits(c) /\ LocalsOK
  BY TypeParts DEF IsOp, NoticeInv
<1>5. /\ Watching(c) \/ pc[c] = "falling" => standby'[c] \subseteq (Admins \cap Reachable)'
      /\ ~Watching(c) /\ pc[c] # "falling" => standby'[c] = standby[c]
  BY StandbyKept DEF Watching
<1>2. CASE pc[c] = "choosing"
  <2>1. job[c].name \in Names
    BY <1>1, <1>2, JobFields DEF LocalsOK, Fits, IsOp
  <2>2. /\ surely'[c] \subseteq surely[c]
        /\ surely'[c] \subseteq Available(job[c].name, job[c].by)' /\ away'[c] \subseteq Away'
    BY <1>2, ObservedNow, ObservedBefore DEF Watching
  <2>3. surely'[c] # {} => CalledBy(job[c].name)' \subseteq role'[c]
    <3>1. SUFFICES ASSUME surely'[c] # {} PROVE CalledBy(job[c].name)' \subseteq role'[c]
      OBVIOUS
    <3>2. CalledBy(job[c].name) \subseteq role[c] /\ surely[c] \subseteq Available(job[c].name, job[c].by)
      BY <1>1, <1>2, <2>2, <3>1 DEF NoticeFits
    <3>3. CalledBy(job[c].name) # {}
      BY <2>2, <3>1, <3>2 DEF Available, HoldersOf
    <3> DEFINE n == job[c].name
    <3>4. \A m \in Names : m = n => CalledBy(m)' \subseteq CalledBy(m)
      BY <3>3
    <3>5. job'[c].name = job[c].name
      OBVIOUS
    <3> QED BY <1>2, <2>1, <3>2, <3>4, <3>5 DEF CalledBy
  <2> QED BY <1>2, <1>5, <2>2, <2>3 DEF NoticeFits, Watching
<1>3. CASE pc[c] \in {"finding", "excluding"}
  <2>1. /\ surely'[c] \subseteq surely[c] /\ away'[c] \subseteq away[c]
        /\ surely'[c] \subseteq Available(job[c].name, job[c].by)' /\ away'[c] \subseteq Away'
    BY <1>3, ObservedNow, ObservedBefore DEF Watching
  <2>2. CASE pc[c] = "finding"
    BY <1>5, <2>1, <2>2 DEF NoticeFits, Watching
  <2>3. CASE pc[c] = "excluding"
    BY <1>1, <1>5, <2>1, <2>3 DEF NoticeFits, Watching
  <2> QED BY <1>3, <2>2, <2>3
<1>4. CASE ~Watching(c)
  <2>1. surely'[c] = surely[c] /\ away'[c] = away[c]
    BY <1>4, ObservedNoMore DEF Watching
  <2>2. pc[c] \notin {"finding", "choosing", "excluding"}
    BY <1>4 DEF Watching
  <2> QED BY <1>1, <1>4, <1>5, <2>1, <2>2 DEF NoticeFits
<1> QED BY <1>2, <1>3, <1>4 DEF Watching

LEMMA NoticeMoves ==
    ASSUME NoticeInv, NEW c \in Calls, CallStep(c), Observe
    PROVE  NoticeFits(c)'
<1>1. TypeInv /\ LocalsOK /\ DirectoryOK /\ NoticeFits(c)
  BY TypeParts DEF NoticeInv
<1>2. ASSUME job'[c] = NoJob PROVE NoticeFits(c)'
  BY <1>2 DEF NoticeFits, IsOp, NoJob
<1>11. ASSUME IsOp(c, {"notify"})'
       PROVE  /\ Watching(c)' \/ pc'[c] = "falling" => standby'[c] \subseteq (Admins \cap Reachable)'
              /\ ~Watching(c)' /\ pc'[c] # "falling" => standby'[c] = standby[c]
  BY <1>11, StandbyKept
<1>3. CASE Start(c)
  <2>1. PICK j \in Job : job' = [job EXCEPT ![c] = j] /\ Goto(c, FirstStep(j.op))
    BY <1>3 DEF Start
  <2>2. pc'[c] = FirstStep(job'[c].op)
    BY <1>1, <2>1 DEF LocalsOK, Goto
  <2>3. IsOp(c, {"notify"})' => pc'[c] = "finding"
    BY <2>2 DEF FirstStep, IsOp
  <2> QED BY <1>11, <2>3, ObservedNow DEF NoticeFits, Watching
<1>4. CASE FindRole(c)
  <2>1. CASE CalledBy(job[c].name) = {}
    BY <1>1, <1>2, <1>4, <2>1 DEF FindRole, End, LocalsOK
  <2>2. CASE CalledBy(job[c].name) # {}
    <3>1. pc'[c] = "choosing" /\ job' = job /\ name' = name /\ role'[c] = CalledBy(job[c].name)
      BY <1>1, <1>4, <2>2 DEF FindRole, Goto, LocalsOK, directory
    <3>2. CalledBy(job[c].name)' \subseteq role'[c]
      BY <3>1 DEF CalledBy
    <3> QED BY <1>11, <3>1, <3>2, ObservedNow DEF NoticeFits, Watching
  <2> QED BY <2>1, <2>2
<1>5. CASE ReadHolders(c)
  <2>1. /\ pc[c] = "choosing" /\ pc'[c] = "excluding" /\ job' = job /\ IsOp(c, {"notify"})
        /\ target'[c] = {u \in HoldersOf(role[c]) \cap Reachable : ~person[u].onLeave}
        /\ UNCHANGED <<name, person, holds>>
    BY <1>1, <1>5 DEF ReadHolders, Choose, Goto, LocalsOK, directory
  <2>2. IsOp(c, {"notify"})' /\ Watching(c)'
    BY <2>1 DEF IsOp, Watching
  <2>3. /\ surely'[c] \subseteq surely[c]
        /\ surely'[c] \subseteq Available(job[c].name, job[c].by)' /\ away'[c] \subseteq Away'
    BY <2>1, <2>2, ObservedNow, ObservedBefore
  <2>4. Available(job[c].name, job[c].by)' = Available(job[c].name, job[c].by) /\ Away' = Away
    BY <2>1 DEF Available, HoldersOf, CalledBy, TagsOf, Reachable, Away
  <2>5. surely'[c] \subseteq target'[c]
    <3>1. SUFFICES ASSUME NEW v \in surely'[c] PROVE v \in target'[c]
      OBVIOUS
    <3>2. CalledBy(job[c].name) \subseteq role[c]
      BY <1>1, <2>1, <2>3, <3>1 DEF NoticeFits
    <3>3. v \in HoldersOf(CalledBy(job[c].name)) \cap Reachable /\ ~person[v].onLeave
      BY <2>3, <2>4, <3>1 DEF Available
    <3>4. v \in HoldersOf(role[c])
      BY <3>2, <3>3 DEF HoldersOf
    <3> QED BY <2>1, <3>3, <3>4
  <2>6. \A u \in target'[c] : <<u, "onLeave">> \notin away'[c]
    <3>1. \A u \in target'[c] : <<u, "onLeave">> \notin Away
      BY <2>1 DEF Away
    <3> QED BY <2>3, <2>4, <3>1
  <2> QED BY <1>11, <2>1, <2>2, <2>3, <2>5, <2>6 DEF NoticeFits
<1>6. CASE ExcludeUnavailable(c)
  <2> DEFINE rest == target[c] \ (Unavailable(target[c]) \cup {job[c].by})
  <2>1. /\ pc[c] = "excluding" /\ job' = job /\ IsOp(c, {"notify"})
        /\ target'[c] = rest /\ pc'[c] = IF rest # {} THEN "posting" ELSE "falling"
    BY <1>1, <1>6 DEF ExcludeUnavailable, Choose, Goto, LocalsOK, Fits
  <2>2. IsOp(c, {"notify"})' /\ ~Watching(c)'
    BY <2>1 DEF IsOp, Watching
  <2>3. surely'[c] = surely[c] /\ away'[c] = away[c]
    BY <2>2, ObservedNoMore
  <2>4. /\ surely[c] \subseteq Available(job[c].name, job[c].by) /\ away[c] \subseteq Away
        /\ surely[c] \subseteq target[c] /\ \A u \in target[c] : <<u, "onLeave">> \notin away[c]
    BY <1>1, <2>1 DEF NoticeFits
  <2>5. surely[c] \subseteq rest
    BY <2>4 DEF Available, Unavailable
  <2>6. \A u \in rest : away[c] \cap ({u} \X {"onLeave", "formal"}) = {}
    <3>1. \A u \in rest : <<u, "formal">> \notin Away /\ u \in target[c]
      BY DEF Away, Unavailable
    <3>2. \A u : {u} \X {"onLeave", "formal"} = {<<u, "onLeave">>, <<u, "formal">>}
      OBVIOUS
    <3> HIDE DEF rest
    <3>3. \A u \in rest : <<u, "onLeave">> \notin away[c] /\ <<u, "formal">> \notin away[c]
      BY <2>4, <3>1
    <3>4. ASSUME NEW u \in rest PROVE away[c] \cap ({u} \X {"onLeave", "formal"}) = {}
      <4>1. away[c] \cap {<<u, "onLeave">>, <<u, "formal">>} = {}
        BY <3>3
      <4>2. {u} \X {"onLeave", "formal"} = {<<u, "onLeave">>, <<u, "formal">>}
        BY <3>2
      <4> QED BY <4>1, <4>2
    <3> QED BY <3>4
  <2>7. job[c].by \notin rest
    OBVIOUS
  <2> HIDE DEF rest
  <2> QED BY <1>11, <2>1, <2>2, <2>3, <2>5, <2>6, <2>7 DEF NoticeFits
<1>7. CASE ReadRecipients(c) \/ ReadLead(c)
  <2>1. job'[c] = job[c] \/ job'[c] = NoJob
    BY <1>1, <1>7 DEF ReadRecipients, ReadLead, Choose, End, LocalsOK
  <2> QED BY <1>7, <2>1 DEF ReadRecipients, ReadLead, NoticeFits, IsOp, NoJob
<1>8. CASE FallBack(c) \/ Post(c)
  <2>1. \/ job'[c] = NoJob
        \/ /\ job' = job
           /\ \/ pc[c] = "falling" /\ pc'[c] = "forwarding" /\ target'[c] = Admins \cap Reachable
              \/ /\ target' = target
                 /\ \/ pc[c] = "posting" /\ pc'[c] \in {"posting", "recording"}
                    \/ pc[c] = "forwarding" /\ pc'[c] \in {"forwarding", "recordingForward"}
    BY <1>1, <1>8 DEF FallBack, Post, Choose, End, Goto, LocalsOK
  <2>2. CASE job' = job /\ IsOp(c, {"notify"})
    <3>1. IsOp(c, {"notify"})'
      BY <2>2 DEF IsOp
    <3>2. ~IsOp(c, {"notify"}) \/ job'[c] # NoJob
      BY <2>2 DEF IsOp, NoJob
    <3>3. surely'[c] = surely[c] /\ away'[c] = away[c]
      BY <2>1, <2>2, <3>1, <3>2, ObservedNoMore DEF Watching
    <3>4. standby'[c] = standby[c]
      BY <1>11, <2>1, <2>2, <3>1, <3>2 DEF Watching
    <3>5. pc[c] \in {"falling", "posting", "forwarding"} /\ NoticeFits(c)
      BY <1>1, <1>8 DEF FallBack, Post
    <3> QED BY <2>1, <2>2, <3>2, <3>3, <3>4, <3>5 DEF NoticeFits
  <2> QED BY <1>2, <2>1, <2>2 DEF NoticeFits, IsOp
<1>9. CASE FailPost(c) \/ Record(c)
  BY <1>1, <1>2, <1>9 DEF FailPost, Record, End, LocalsOK
<1>10. CASE \/ SeeMemberships(c) \/ DeleteMemberships(c) \/ InsertMemberships(c) \/ RollBack(c)
            \/ Promote(c) \/ ReadCatalog(c) \/ CoverAllTags(c)
  <2>1. ~IsOp(c, {"notify"})
    BY <1>1, <1>10 DEF SeeMemberships, DeleteMemberships, InsertMemberships, RollBack,
            Promote, ReadCatalog, CoverAllTags, LocalsOK, Fits, IsOp
  <2>2. job'[c] = job[c] \/ job'[c] = NoJob
    BY <1>1, <1>10 DEF SeeMemberships, DeleteMemberships, InsertMemberships, RollBack,
            Promote, ReadCatalog, CoverAllTags, End, locals, LocalsOK
  <2> QED BY <1>2, <2>1, <2>2 DEF NoticeFits, IsOp
<1> QED BY <1>3, <1>4, <1>5, <1>6, <1>7, <1>8, <1>9, <1>10 DEF CallStep

LEMMA NoticeStep == NoticeInv /\ [Next]_vars => NoticeInv'
<1> SUFFICES ASSUME NoticeInv, [Next]_vars PROVE NoticeInv'
  OBVIOUS
<1>1. TypeInv /\ TypeInv'
  BY TypeStep DEF NoticeInv
<1>2. ASSUME Administer, Observe, NEW c \in Calls PROVE NoticeFits(c)'
  <2>1. UNCHANGED <<job, role, target, pc>>
    BY <1>1, <1>2, AdministerType DEF locals
  <2>2. \A n \in Names : CalledBy(n) # {} => CalledBy(n)' \subseteq CalledBy(n)
    BY <1>1, <1>2, NameHeld
  <2> QED BY <1>2, <2>1, <2>2, NoticeUndisturbed
<1>3. ASSUME NEW d \in Calls, CallStep(d), Observe, NEW c \in Calls PROVE NoticeFits(c)'
  <2>1. CASE c = d
    BY <1>3, <2>1, NoticeMoves
  <2>2. CASE c # d
    <3>1. pc'[c] = pc[c] /\ job'[c] = job[c] /\ target'[c] = target[c]
      BY <1>1, <1>3, <2>2, CallsAlone DEF Alone
    <3>2. pc[c] = "choosing" => role'[c] = role[c]
      BY <1>1, <1>3, <2>2, RolesAlone
    <3>3. \A n \in Names : CalledBy(n) # {} => CalledBy(n)' \subseteq CalledBy(n)
      BY <1>3, NamesKept DEF CalledBy
    <3> QED BY <1>3, <3>1, <3>2, <3>3, NoticeUndisturbed
  <2> QED BY <2>1, <2>2
<1>4. CASE UNCHANGED vars
  <2>1. UNCHANGED <<name, person, holds, job, role, target, surely, standby, away, pc>>
    BY <1>4 DEF vars, directory, locals, history
  <2> QED BY <1>1, <2>1 DEF NoticeInv, NoticeFits, IsOp, Available, HoldersOf, CalledBy, TagsOf,
          Reachable, Admins, Away
<1> QED BY <1>1, <1>2, <1>3, <1>4 DEF Next, AllServed, NoticeInv

(* A request routed to a role reaches everyone who could take it all along, *)
(* nobody who was away all along and not the requester; one forwarded       *)
(* instead had nobody like that, and reaches every administrator there was  *)
(* all along, the requester and those away included: however roles, names,  *)
(* leave and accounts change between the queries                            *)
(* (employee-roles.service.ts:381-411).                                     *)
THEOREM PagesProved == Spec => []PagesThosePresent
<1>1. Init => NoticeInv
  <2>1. Init => \A c \in Calls : ~IsOp(c, {"notify"})
    BY DEF Init, IsOp, NoJob
  <2> QED BY <2>1, TypeInit DEF NoticeInv, NoticeFits
<1>2. NoticeInv => PagesThosePresent
  BY DEF NoticeInv, NoticeFits, PagesThosePresent
<1> QED BY <1>1, <1>2, NoticeStep, PTL DEF Spec

-----------------------------------------------------------------------------
(* Who is made an administrator *)

(* Promotions of u that will insert what they have read. *)
Covering(u) ==
    {c \in Calls : pc[c] = "covering" /\ job[c].on = u /\ role[c] \subseteq RolesThere}

(* A promised role is there, or about to be inserted. *)
PromiseFits(u) ==
    \A t \in promised[u] : <<u, t>> \in holds \/ \E c \in Covering(u) : t \in role[c]

PromiseInv == TypeInv /\ \A u \in Users : PromiseFits(u)

LEMMA AdministerPromises ==
    ASSUME PromiseInv, Administer, Observe, NEW u \in Users
    PROVE  PromiseFits(u)'
<1>1. DirectoryOK /\ HistoryOK /\ LocalsOK /\ PromiseFits(u)
  BY TypeParts DEF PromiseInv
<1>2. UNCHANGED <<pc, job, role>>
  BY <1>1, AdministerType DEF locals, PromiseInv
<1>3. promised'[u] = IF name' # name /\ \E c \in Calls : Voids(c, u) THEN {}
                     ELSE promised[u] \cap RolesThere'
  BY <1>2 DEF Observe, ObservePromotions, Leaves
<1>4. ASSUME NEW t \in promised'[u], RolesThere \subseteq RolesThere', holds' = holds
      PROVE  <<u, t>> \in holds' \/ \E c \in Covering(u)' : t \in role'[c]
  <2>1. t \in promised[u]
    BY <1>3, <1>4
  <2>2. Covering(u) \subseteq Covering(u)'
    BY <1>2, <1>4 DEF Covering
  <2> QED BY <1>1, <1>2, <1>4, <2>1, <2>2 DEF PromiseFits
<1>5. ASSUME NEW d \in Tags, DeleteTag(d), NEW t \in promised'[u]
      PROVE  <<u, t>> \in holds' \/ \E c \in Covering(u)' : t \in role'[c]
  <2>1. name' = [name EXCEPT ![d] = Gone] /\ holds' = {h \in holds : h[2] # d} /\ d \in RolesThere
    BY <1>5 DEF DeleteTag
  <2>2. RolesThere' = RolesThere \ {d} /\ name' # name
    BY <1>1, <2>1, NamesType DEF RolesThere, DirectoryOK
  <2>3. t \in promised[u] /\ t # d /\ ~\E c \in Calls : Voids(c, u)
    BY <1>3, <1>5, <2>2
  <2>4. Covering(u) \subseteq Covering(u)'
    BY <1>2, <2>1, <2>2, <2>3 DEF Covering, Voids
  <2>5. CASE <<u, t>> \in holds
    BY <2>1, <2>3, <2>5
  <2>6. CASE <<u, t>> \notin holds
    BY <1>1, <1>2, <2>3, <2>4, <2>6 DEF PromiseFits
  <2> QED BY <2>5, <2>6
<1>6. \/ RolesThere \subseteq RolesThere' /\ holds' = holds
      \/ \E d \in Tags : DeleteTag(d)
  BY <1>1, NamesType DEF Administer, CreateTag, RenameTag, Toggle, SetTeamLead, RolesThere, DirectoryOK
<1> QED BY <1>4, <1>5, <1>6 DEF PromiseFits

(* What a step that saves and promotes nothing leaves. *)
LEMMA PromisesKept ==
    ASSUME PromiseInv, NEW u \in Users, promised'[u] \subseteq promised[u],
           UNCHANGED <<name, holds>>,
           \A c \in Covering(u) : pc'[c] = pc[c] /\ job'[c] = job[c] /\ role'[c] = role[c]
    PROVE  PromiseFits(u)'
<1>1. Covering(u) \subseteq Covering(u)'
  BY DEF Covering, RolesThere
<1> QED BY <1>1 DEF PromiseInv, PromiseFits, Covering

LEMMA CallPromises ==
    ASSUME PromiseInv, NEW c \in Calls, CallStep(c), Observe, NEW u \in Users
    PROVE  PromiseFits(u)'
<1>1. TypeInv /\ DirectoryOK /\ HistoryOK /\ LocalsOK /\ PromiseFits(u)
  BY TypeParts DEF PromiseInv
<1>2. name' = name /\ RolesThere' = RolesThere
  BY NamesKept DEF RolesThere
<1>3. \A d \in Calls \ {c} : pc'[d] = pc[d] /\ job'[d] = job[d]
  BY <1>1, CallsAlone DEF Alone
<1>4. \A d \in Calls \ {c} : pc[d] = "covering" => role'[d] = role[d]
  BY <1>1, RolesAlone
<1>5. promised'[u] = IF Leaves(c, u, "promoted") THEN RolesThere
                     ELSE IF Leaves(c, u, "inserting") /\ pc'[c] = "over"
                     THEN promised[u] \ (role[c] \ job[c].tags)
                     ELSE promised[u] \cap RolesThere
  <2>1. \A d \in Calls \ {c} : ~Leaves(d, u, "promoted") /\ ~Leaves(d, u, "inserting")
    BY <1>3 DEF Leaves
  <2>2. promised'[u] =
           IF \E d \in Calls : Leaves(d, u, "promoted") THEN RolesThere
           ELSE IF \E d \in Calls : Leaves(d, u, "inserting") /\ pc'[d] = "over"
           THEN {t \in promised[u] : \A d \in Calls :
                    Leaves(d, u, "inserting") => t \notin role[d] \ job[d].tags}
           ELSE IF name' # name /\ \E d \in Calls : Voids(d, u) THEN {}
           ELSE promised[u] \cap RolesThere'
    BY DEF Observe, ObservePromotions
  <2>3. CASE Leaves(c, u, "promoted")
    BY <2>2, <2>3
  <2>4. CASE ~Leaves(c, u, "promoted") /\ Leaves(c, u, "inserting") /\ pc'[c] = "over"
    BY <2>1, <2>2, <2>4
  <2>5. CASE ~Leaves(c, u, "promoted") /\ ~(Leaves(c, u, "inserting") /\ pc'[c] = "over")
    BY <1>2, <2>1, <2>2, <2>5
  <2> QED BY <2>3, <2>4, <2>5
<1>6. CASE ReadCatalog(c) /\ job[c].on = u
  <2>1. Leaves(c, u, "promoted")
    BY <1>1, <1>6, EndStep DEF ReadCatalog, Leaves, Goto, LocalsOK
  <2>2. CASE RolesThere = {}
    BY <1>5, <2>1, <2>2 DEF PromiseFits
  <2>3. CASE RolesThere # {}
    <3>1. pc'[c] = "covering" /\ job'[c] = job[c] /\ role'[c] = RolesThere
      BY <1>1, <1>6, <2>3 DEF ReadCatalog, Goto, LocalsOK
    <3>2. c \in Covering(u)'
      BY <1>2, <1>6, <3>1 DEF Covering
    <3> QED BY <1>5, <2>1, <3>1, <3>2 DEF PromiseFits
  <2> QED BY <2>2, <2>3
<1>7. CASE CoverAllTags(c)
  <2>1. pc[c] = "covering" /\ promised'[u] \subseteq promised[u]
    BY <1>5, <1>7 DEF CoverAllTags, Leaves
  <2>2. \A d \in Covering(u) \ {c} : d \in Covering(u)' /\ role'[d] = role[d]
    BY <1>2, <1>3, <1>4 DEF Covering
  <2>3. c \in Covering(u) => \A t \in role[c] : <<u, t>> \in holds'
    BY <1>7 DEF CoverAllTags, Covered, Covering
  <2>4. holds \subseteq holds'
    BY <1>7 DEF CoverAllTags
  <2> QED BY <1>1, <2>1, <2>2, <2>3, <2>4 DEF PromiseFits
<1>8. CASE InsertMemberships(c)
  <2>1. /\ holds' = {h \in holds : h[1] # job[c].on} \cup
                     {job[c].on} \X ((TagsOf(job[c].on) \ role[c]) \cup job[c].tags)
        /\ pc[c] = "inserting" /\ pc'[c] = "over"
    BY <1>1, <1>8 DEF InsertMemberships, Goto, LocalsOK
  <2>2. Covering(u) \subseteq Covering(u)' /\ \A d \in Covering(u) : role'[d] = role[d]
    BY <1>2, <1>3, <1>4, <2>1 DEF Covering
  <2>3. CASE job[c].on = u
    <3>1. promised'[u] = promised[u] \ (role[c] \ job[c].tags)
      BY <1>5, <2>1, <2>3 DEF Leaves
    <3>2. \A t : <<u, t>> \in holds /\ t \in promised'[u] => <<u, t>> \in holds'
      <4>1. ASSUME NEW t, <<u, t>> \in holds, t \in promised'[u] PROVE <<u, t>> \in holds'
        <5>1. t \in TagsOf(u)
          BY <1>1, <4>1 DEF TagsOf, HistoryOK, DirectoryOK
        <5>2. t \in (TagsOf(u) \ role[c]) \cup job[c].tags
          BY <3>1, <4>1, <5>1
        <5> QED BY <2>1, <2>3, <5>2
      <4> QED BY <4>1
    <3>3. promised'[u] \subseteq promised[u]
      BY <3>1
    <3> QED BY <1>1, <2>2, <3>2, <3>3 DEF PromiseFits
  <2>4. CASE job[c].on # u
    <3>1. promised'[u] \subseteq promised[u]
      BY <1>5, <2>1, <2>4 DEF Leaves
    <3>2. \A t : <<u, t>> \in holds => <<u, t>> \in holds'
      BY <2>1, <2>4
    <3> QED BY <1>1, <2>2, <3>1, <3>2 DEF PromiseFits
  <2> QED BY <2>3, <2>4
<1>9. CASE /\ ~(ReadCatalog(c) /\ job[c].on = u)
           /\ ~CoverAllTags(c) /\ ~InsertMemberships(c)
  <2>1. holds' = holds /\ pc[c] # "covering" /\ ~Leaves(c, u, "promoted")
    BY <1>9 DEF CallStep, Start, FindRole, ReadHolders, ExcludeUnavailable, ReadRecipients, FallBack,
       ReadLead, Post, FailPost, Record, SeeMemberships, DeleteMemberships, RollBack, Promote,
       ReadCatalog, Leaves, directory
  <2>2. promised'[u] \subseteq promised[u]
    BY <1>5, <2>1
  <2>3. \A d \in Covering(u) : pc'[d] = pc[d] /\ job'[d] = job[d] /\ role'[d] = role[d]
    BY <1>3, <1>4, <2>1 DEF Covering
  <2> QED BY <1>2, <2>1, <2>2, <2>3, PromisesKept
<1> QED BY <1>6, <1>7, <1>8, <1>9

LEMMA PromiseStep == PromiseInv /\ [Next]_vars => PromiseInv'
<1> SUFFICES ASSUME PromiseInv, [Next]_vars PROVE PromiseInv'
  OBVIOUS
<1>1. TypeInv'
  BY TypeStep DEF PromiseInv
<1>2. CASE UNCHANGED vars
  <2>1. UNCHANGED <<name, holds, pc, job, role, promised>>
    BY <1>2 DEF vars, directory, locals, history
  <2>2. \A u \in Users : PromiseFits(u)'
    BY <2>1, PromisesKept
  <2> QED BY <1>1, <2>2 DEF PromiseInv
<1> QED BY <1>1, <1>2, AdministerPromises, CallPromises DEF Next, AllServed, PromiseInv

(* A new administrator holds every role, but one created since the catalog  *)
(* was read, unless one of those read is deleted before the insert or a     *)
(* save takes it away: for any number of saves and promotions of the same   *)
(* user at a time (users.service.ts:381-399).                               *)
THEOREM CoversProved == Spec => []PromotedHoldTheCatalog
<1>1. Init => PromiseInv
  <2>1. Init => \A u \in Users : PromiseFits(u)
    BY DEF Init, PromiseFits
  <2> QED BY <2>1, TypeInit DEF PromiseInv
<1>2. PromiseInv => PromotedHoldTheCatalog
  <2>1. SUFFICES ASSUME PromiseInv, NEW u \in Users,
                        \A c \in Calls : pc[c] = "covering" => job[c].on # u
                 PROVE  promised[u] \subseteq TagsOf(u)
    BY DEF PromotedHoldTheCatalog
  <2>2. HistoryOK /\ PromiseFits(u) /\ Covering(u) = {}
    BY <2>1, TypeParts DEF PromiseInv, Covering
  <2> QED BY <2>2 DEF PromiseFits, TagsOf, HistoryOK
<1> QED BY <1>1, <1>2, PromiseStep, PTL DEF Spec

=============================================================================
