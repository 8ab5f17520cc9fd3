---------------------------- MODULE ConsoleProofs ----------------------------
(***************************************************************************)
(* Proofs about the administration pages, for every number of rows, tags,  *)
(* calls and clicks, by four inductive invariants: TypeInv (stored rows    *)
(* refer to what exists, a created row is appended once), QuietInv (every  *)
(* cell of the page is settled or an open call owes it), TagInv (a save    *)
(* on its way takes no tag but the one clicked) and FlagInv (who raised a  *)
(* flag is still on its way).                                              *)
(***************************************************************************)
EXTENDS Console, FiniteSetTheorems, SequenceTheorems, TLAPS

USE PagesType, RowsType, TagsType, BoundsType

-----------------------------------------------------------------------------
(* Sequences of calls *)

(* Where the call at j of what is left was before the one at i went.       *)
From(i, j) == IF j < i THEN j ELSE j + 1

LEMMA Added ==
    ASSUME NEW S, NEW s \in Seq(S), NEW e \in S
    PROVE  /\ Append(s, e) \in Seq(S)
           /\ DOMAIN Append(s, e) = DOMAIN s \cup {Len(s) + 1}
           /\ Append(s, e)[Len(s) + 1] = e
           /\ \A j \in DOMAIN s : Append(s, e)[j] = s[j]
OBVIOUS

LEMMA Left ==
    ASSUME NEW S, NEW s \in Seq(S), NEW i \in DOMAIN s
    PROVE  /\ RemoveAt(s, i) \in Seq(S)
           /\ Len(RemoveAt(s, i)) = Len(s) - 1
           /\ \A j \in 1..Len(s)-1 : RemoveAt(s, i)[j] = s[From(i, j)]
<1> DEFINE a == SubSeq(s, 1, i - 1)
           b == SubSeq(s, i + 1, Len(s))
<1>1. i \in 1..Len(s) /\ Len(s) \in Nat /\ \A j \in 1..Len(s) : s[j] \in S
  OBVIOUS
<1>2. /\ a \in Seq(S) /\ Len(a) = i - 1
      /\ \A j \in 1..i-1 : a[j] = s[j]
  <2>1. 1 \in Int /\ i - 1 \in Int /\ \A j \in 1..i-1 : s[j] \in S
    BY <1>1
  <2>2. /\ a \in Seq(S)
        /\ Len(a) = IF 1 <= i - 1 THEN (i - 1) - 1 + 1 ELSE 0
        /\ \A j \in 1..(i-1)-1+1 : a[j] = s[1+j-1]
    BY <2>1, SubSeqProperties
  <2> HIDE DEF a
  <2> QED BY <1>1, <2>2
<1>3. /\ b \in Seq(S) /\ Len(b) = Len(s) - i
      /\ \A j \in 1..Len(s)-i : b[j] = s[i+j]
  <2>1. i + 1 \in Int /\ Len(s) \in Int /\ \A j \in i+1..Len(s) : s[j] \in S
    BY <1>1
  <2>2. /\ b \in Seq(S)
        /\ Len(b) = IF i + 1 <= Len(s) THEN Len(s) - (i + 1) + 1 ELSE 0
        /\ \A j \in 1..Len(s)-(i+1)+1 : b[j] = s[(i+1)+j-1]
    BY <2>1, SubSeqProperties
  <2> HIDE DEF b
  <2> QED BY <1>1, <2>2
<1>4. RemoveAt(s, i) = a \o b
  BY DEF RemoveAt
<1> HIDE DEF a, b
<1>5. a \o b \in Seq(S) /\ Len(a \o b) = Len(s) - 1
  BY <1>1, <1>2, <1>3
<1>6. ASSUME NEW j \in 1..Len(s)-1 PROVE (a \o b)[j] = s[From(i, j)]
  <2>1. CASE j < i
    BY <1>1, <1>2, <1>3, <2>1 DEF From
  <2>2. CASE j >= i
    <3>1. j - (i - 1) \in 1..Len(s)-i /\ i + (j - (i - 1)) = j + 1
      BY <1>1, <2>2
    <3>2. (a \o b)[j] = b[j - (i - 1)]
      BY <1>1, <1>2, <1>3, <2>2
    <3> QED BY <1>1, <1>3, <2>2, <3>1, <3>2 DEF From
  <2>3. j < i \/ j >= i
    BY <1>1
  <2> QED BY <2>1, <2>2, <2>3
<1> QED BY <1>4, <1>5, <1>6

(* What is in flight after the call at i has gone and t has followed.      *)
LEMMA Gone ==
    ASSUME NEW S, NEW s \in Seq(S), NEW i \in DOMAIN s, NEW t \in Seq(S)
    PROVE  LET u == RemoveAt(s, i) \o t
               n == Len(s) - 1
           IN  /\ u \in Seq(S)
               /\ DOMAIN u = 1..(n + Len(t))
               /\ \A j \in 1..n : u[j] = s[From(i, j)]
               /\ \A j \in 1..Len(t) : u[n + j] = t[j]
<1> DEFINE r == RemoveAt(s, i)
<1>1. r \in Seq(S) /\ Len(r) = Len(s) - 1 /\ \A j \in 1..Len(s)-1 : r[j] = s[From(i, j)]
  BY Left
<1>2. Len(s) - 1 \in Nat /\ Len(t) \in Nat
  OBVIOUS
<1> HIDE DEF r
<1>3. r \o t \in Seq(S) /\ DOMAIN (r \o t) = 1..(Len(s) - 1 + Len(t))
  <2>1. r \o t \in Seq(S) /\ Len(r \o t) = Len(r) + Len(t)
    BY <1>1, ConcatProperties
  <2> QED BY <1>1, <1>2, <2>1
<1>4. ASSUME NEW j \in 1..Len(s)-1 PROVE (r \o t)[j] = s[From(i, j)]
  <2>1. j \in 1..Len(r) /\ j \in 1..Len(r) + Len(t)
    BY <1>1, <1>2
  <2>2. (r \o t)[j] = r[j]
    BY <1>1, <2>1, ConcatProperties
  <2> QED BY <1>1, <2>2
<1>5. ASSUME NEW j \in 1..Len(t) PROVE (r \o t)[Len(s) - 1 + j] = t[j]
  BY <1>1, <1>2
<1> QED BY <1>3, <1>4, <1>5 DEF r

(* Every entry of what is left is an old one or follows ...                *)
LEMMA Remains ==
    ASSUME NEW S, NEW s \in Seq(S), NEW i \in DOMAIN s, NEW t \in Seq(S),
           NEW j \in DOMAIN (RemoveAt(s, i) \o t)
    PROVE  \/ /\ j \in 1..Len(s)-1
              /\ From(i, j) \in DOMAIN s \ {i}
              /\ (RemoveAt(s, i) \o t)[j] = s[From(i, j)]
           \/ /\ j \notin 1..Len(s)-1
              /\ \E l \in DOMAIN t : j = Len(s) - 1 + l /\ (RemoveAt(s, i) \o t)[j] = t[l]
<1> DEFINE u == RemoveAt(s, i) \o t
<1>1. /\ DOMAIN u = 1..(Len(s) - 1 + Len(t))
      /\ \A l \in 1..Len(s)-1 : u[l] = s[From(i, l)]
      /\ \A l \in 1..Len(t) : u[Len(s) - 1 + l] = t[l]
  BY Gone
<1> HIDE DEF u
<1>2. DOMAIN s = 1..Len(s) /\ DOMAIN t = 1..Len(t) /\ Len(s) - 1 \in Nat /\ Len(t) \in Nat
  OBVIOUS
<1>3. j \in DOMAIN u
  BY DEF u
<1>4. CASE j \in 1..Len(s)-1
  <2>1. From(i, j) \in DOMAIN s \ {i}
    BY <1>2, <1>4 DEF From
  <2> QED BY <1>1, <1>4, <2>1 DEF u
<1>5. CASE j \notin 1..Len(s)-1
  <2>1. j - (Len(s) - 1) \in 1..Len(t) /\ j = Len(s) - 1 + (j - (Len(s) - 1))
    BY <1>1, <1>2, <1>3, <1>5
  <2>2. u[j] = t[j - (Len(s) - 1)]
    BY <1>1, <2>1
  <2> QED BY <1>2, <1>5, <2>1, <2>2 DEF u
<1> QED BY <1>4, <1>5

(* No two entries of what is left come from one.                           *)
LEMMA FromIsOne ==
    ASSUME NEW n \in Nat, NEW i \in 1..n, NEW j \in 1..n-1, NEW l \in 1..n-1,
           From(i, j) = From(i, l)
    PROVE  j = l
BY DEF From

-----------------------------------------------------------------------------
(* Rows, cells and what they may hold *)

Names == {"role", "department", "teamLead", "isOnLeave", "isActive", "tags", "name",
          "allocatedAmount", "hasPassword", "slackUserId", "status", "steps"}

LEMMA Fields ==
    ASSUME page \in Pages
    PROVE  /\ FieldsOf[page] \subseteq Names
           /\ page = "team" => FieldsOf[page] =
                {"role", "department", "teamLead", "isOnLeave", "isActive", "tags"}
           /\ page = "request" => FieldsOf[page] = {"status", "steps"}
BY DEF FieldsOf, Names

(* A cell is a field of a row, or one of the two of a tag.                 *)
LEMMA CellsAre ==
    ASSUME page \in Pages
    PROVE  \A k \in Cells :
             /\ k = <<k[1], k[2]>>
             /\ \/ k[1] \in Rows /\ k[2] \in {"there"} \cup FieldsOf[page]
                \/ page = "team" /\ k[1] \in Tags /\ k[2] \in {"there", "members"}
BY DEF Cells, UserCells, RowCells, CatalogCells

LEMMA RowCellsAre ==
    /\ \A r \in Rows : \A f \in {"there"} \cup FieldsOf[page] : <<r, f>> \in Cells
    /\ page = "team" => \A t \in Tags : \A f \in {"there", "members"} : <<t, f>> \in Cells
BY DEF Cells, UserCells, RowCells, CatalogCells

LEMMA ValuesAre ==
    /\ Values("there") = 0..2
    /\ Values("role") = {"EMPLOYEE", "SYSTEM_ADMIN"}
    /\ Values("teamLead") = Rows \cup {NoRow}
    /\ Values("tags") = SUBSET Tags
    /\ Values("members") = 0..Cardinality(Rows)
    /\ Values("status") = 0..2 /\ Values("steps") = 0..2
    /\ \A f \in {"department", "isOnLeave", "isActive", "name", "allocatedAmount",
                 "hasPassword", "slackUserId"} : Values(f) = BOOLEAN
BY DEF Values

LEMMA BlanksAre ==
    /\ Blank("there") = 0 /\ Blank("members") = 0 /\ Blank("status") = 0 /\ Blank("steps") = 0
    /\ Blank("role") = "EMPLOYEE" /\ Blank("teamLead") = NoRow /\ Blank("tags") = {}
    /\ \A f \in {"department", "isOnLeave", "isActive", "name", "allocatedAmount",
                 "hasPassword", "slackUserId"} : Blank(f) = FALSE
BY DEF Blank

LEMMA NewAre ==
    /\ New("there") = 1
    /\ New("isActive") = TRUE /\ New("slackUserId") = TRUE
    /\ \A f : f \notin {"there", "isActive", "slackUserId"} => New(f) = Blank(f)
BY DEF New

LEMMA RowsCount == Cardinality(Rows) \in Nat
BY FS_CardinalityType

LEMMA BlankFits == \A f : Blank(f) \in Values(f)
<1> SUFFICES ASSUME NEW f PROVE Blank(f) \in Values(f)
  OBVIOUS
<1>1. 0 \in 0..Cardinality(Rows)
  BY RowsCount
<1>2. CASE f \in {"there", "members", "status", "steps"}
  <2>1. Blank(f) = 0
    BY <1>2, BlanksAre
  <2>2. Values(f) = 0..2 \/ Values(f) = 0..Cardinality(Rows)
    BY <1>2, ValuesAre
  <2>3. 0 \in 0..2
    OBVIOUS
  <2> QED BY <1>1, <2>1, <2>2, <2>3
<1>3. CASE f \in {"role", "teamLead", "tags"}
  BY <1>3, ValuesAre, BlanksAre
<1>4. CASE f \notin {"there", "members", "status", "steps", "role", "teamLead", "tags"}
  <2>1. Blank(f) = FALSE
    BY <1>4 DEF Blank
  <2>2. Values(f) = BOOLEAN
    BY <1>4 DEF Values
  <2> QED BY <2>1, <2>2
<1> QED BY <1>2, <1>3, <1>4

LEMMA NewFits == \A f : New(f) \in Values(f)
<1> SUFFICES ASSUME NEW f PROVE New(f) \in Values(f)
  OBVIOUS
<1>1. CASE f = "there"
  BY <1>1, NewAre, ValuesAre
<1>2. CASE f \in {"isActive", "slackUserId"}
  BY <1>2, NewAre, ValuesAre
<1>3. CASE f \notin {"there", "isActive", "slackUserId"}
  BY <1>3, NewAre, BlankFits
<1> QED BY <1>1, <1>2, <1>3

(* What is read of S is S itself but for the counts.                       *)
LEMMA CountedIs ==
    ASSUME NEW S
    PROVE  /\ DOMAIN Counted(S) = Cells
           /\ \A k \in Cells : k[2] # "members" => Counted(S)[k] = S[k]
           /\ \A k \in Cells : k[2] = "members" => Counted(S)[k] = Cardinality(Holding(S, k[1]))
BY DEF Counted

LEMMA CountFits ==
    ASSUME NEW S, NEW t
    PROVE  Cardinality(Holding(S, t)) \in 0..Cardinality(Rows)
<1>1. Holding(S, t) \subseteq Rows
  BY DEF Holding
<1>2. IsFiniteSet(Holding(S, t)) /\ Cardinality(Holding(S, t)) <= Cardinality(Rows)
  BY <1>1, FS_Subset
<1>3. Cardinality(Holding(S, t)) \in Nat
  BY <1>2, FS_CardinalityType
<1> QED BY <1>2, <1>3, RowsCount

LEMMA CountNone ==
    ASSUME NEW S, NEW t, \A r \in Rows : t \notin S[<<r, "tags">>]
    PROVE  Cardinality(Holding(S, t)) = 0
<1>1. Holding(S, t) = {}
  BY DEF Holding
<1> QED BY <1>1, FS_EmptySet

-----------------------------------------------------------------------------
(* The database stays sound *)

(* Every cell has a value of its field, no reference points to what is not *)
(* there, and ids that were not given out are of nobody.                   *)
Sound(S, B) ==
    /\ DOMAIN S = Cells
    /\ \A k \in Cells : S[k] \in Values(k[2])
    /\ \A k \in Cells : k[2] = "there" => S[k] \in {0, 1}
    /\ page = "team" =>
         /\ \A r \in Rows : /\ S[<<r, "tags">>] \subseteq TagsIn(S)
                            /\ S[<<r, "teamLead">>] \in RowsIn(S) \cup {NoRow}
         /\ \A r \in Rows \ B : S[<<r, "there">>] = 0 /\ S[<<r, "tags">>] = {}
         /\ \A t \in Tags \ B : S[<<t, "there">>] = 0

Whole == page \in Pages /\ Sound(stored, born)

LEMMA ThoseThere ==
    ASSUME page \in Pages, NEW S, NEW B, Sound(S, B)
    PROVE  /\ RowsIn(S) = {r \in Rows : S[<<r, "there">>] = 1}
           /\ page = "team" => TagsIn(S) = {t \in Tags : S[<<t, "there">>] = 1}
           /\ TagsIn(S) \subseteq Tags
<1>1. \A r \in Rows : S[<<r, "there">>] \in {0, 1}
  <2>1. \A r \in Rows : <<r, "there">> \in Cells
    BY RowCellsAre
  <2> QED BY <2>1 DEF Sound
<1>2. ASSUME page = "team" PROVE \A t \in Tags : S[<<t, "there">>] \in {0, 1}
  <2>1. \A t \in Tags : <<t, "there">> \in Cells
    BY <1>2, RowCellsAre
  <2> QED BY <2>1 DEF Sound
<1> QED BY <1>1, <1>2 DEF RowsIn, TagsIn

LEMMA SetIs ==
    ASSUME DOMAIN stored = Cells, NEW k \in Cells, NEW v
    PROVE  /\ DOMAIN Set(k, v) = Cells
           /\ Set(k, v)[k] = v
           /\ \A l \in Cells : l # k => Set(k, v)[l] = stored[l]
BY DEF Set

(* A field that refers to nothing. *)
LEMMA SetSound ==
    ASSUME Whole, NEW r \in Rows, NEW f \in FieldsOf[page], NEW v \in Values(f),
           page = "team" => f \notin {"tags", "teamLead"}
    PROVE  Sound(Set(<<r, f>>, v), born)
<1> DEFINE S == Set(<<r, f>>, v)
<1>1. /\ <<r, f>> \in Cells /\ f \in Names /\ f # "there"
      /\ \A q \in Rows : <<q, "there">> \in Cells
      /\ page = "team" => /\ \A q \in Rows : <<q, "tags">> \in Cells /\ <<q, "teamLead">> \in Cells
                          /\ \A t \in Tags : <<t, "there">> \in Cells
  BY RowCellsAre, Fields DEF Whole, Names
<1>2. /\ DOMAIN S = Cells /\ S[<<r, f>>] = v
      /\ \A l \in Cells : l # <<r, f>> => S[l] = stored[l]
  BY <1>1, SetIs DEF Whole, Sound
<1> HIDE DEF S
<1>3. \A k \in Cells : S[k] \in Values(k[2])
  BY <1>1, <1>2 DEF Whole, Sound
<1>4. \A k \in Cells : k[2] = "there" => S[k] = stored[k]
  BY <1>1, <1>2
<1>5. ASSUME page = "team"
      PROVE  /\ \A q \in Rows : S[<<q, "tags">>] = stored[<<q, "tags">>]
             /\ \A q \in Rows : S[<<q, "teamLead">>] = stored[<<q, "teamLead">>]
             /\ \A q \in Rows : S[<<q, "there">>] = stored[<<q, "there">>]
             /\ \A t \in Tags : S[<<t, "there">>] = stored[<<t, "there">>]
             /\ TagsIn(S) = TagsIn(stored) /\ RowsIn(S) = RowsIn(stored)
  <2>1. /\ \A q \in Rows : S[<<q, "tags">>] = stored[<<q, "tags">>]
        /\ \A q \in Rows : S[<<q, "teamLead">>] = stored[<<q, "teamLead">>]
    BY <1>1, <1>2, <1>5
  <2>2. /\ \A q \in Rows : S[<<q, "there">>] = stored[<<q, "there">>]
        /\ \A t \in Tags : S[<<t, "there">>] = stored[<<t, "there">>]
    BY <1>1, <1>4, <1>5
  <2> QED BY <2>1, <2>2 DEF TagsIn, RowsIn
<1>6. Sound(S, born)
  BY <1>2, <1>3, <1>4, <1>5 DEF Whole, Sound
<1> QED BY <1>6 DEF S

(* Tags of a row that is there. *)
LEMMA TagsSound ==
    ASSUME page \in Pages, NEW S, NEW B, Sound(S, B), "tags" \in FieldsOf[page],
           NEW r \in Rows, S[<<r, "there">>] = 1, NEW T, T \subseteq TagsIn(S)
    PROVE  Sound([S EXCEPT ![<<r, "tags">>] = T], B)
<1> DEFINE U == [S EXCEPT ![<<r, "tags">>] = T]
<1>1. /\ <<r, "tags">> \in Cells
      /\ \A q \in Rows : <<q, "there">> \in Cells
      /\ page = "team" => /\ \A q \in Rows : <<q, "tags">> \in Cells /\ <<q, "teamLead">> \in Cells
                          /\ \A t \in Tags : <<t, "there">> \in Cells
  BY RowCellsAre, Fields
<1>2. /\ DOMAIN U = Cells /\ U[<<r, "tags">>] = T
      /\ \A l \in Cells : l # <<r, "tags">> => U[l] = S[l]
  BY <1>1 DEF Sound
<1>3. T \in SUBSET Tags
  BY ThoseThere
<1> HIDE DEF U
<1>4. \A k \in Cells : U[k] \in Values(k[2])
  BY <1>1, <1>2, <1>3, ValuesAre DEF Sound
<1>5. \A k \in Cells : k[2] = "there" => U[k] = S[k]
  BY <1>1, <1>2
<1>6. ASSUME page = "team"
      PROVE  /\ \A q \in Rows : U[<<q, "tags">>] = IF q = r THEN T ELSE S[<<q, "tags">>]
             /\ \A q \in Rows : U[<<q, "teamLead">>] = S[<<q, "teamLead">>]
             /\ \A q \in Rows : U[<<q, "there">>] = S[<<q, "there">>]
             /\ \A t \in Tags : U[<<t, "there">>] = S[<<t, "there">>]
             /\ TagsIn(U) = TagsIn(S) /\ RowsIn(U) = RowsIn(S)
  <2>1. /\ \A q \in Rows : U[<<q, "tags">>] = IF q = r THEN T ELSE S[<<q, "tags">>]
        /\ \A q \in Rows : U[<<q, "teamLead">>] = S[<<q, "teamLead">>]
    BY <1>1, <1>2, <1>6
  <2>2. /\ \A q \in Rows : U[<<q, "there">>] = S[<<q, "there">>]
        /\ \A t \in Tags : U[<<t, "there">>] = S[<<t, "there">>]
    BY <1>1, <1>5, <1>6
  <2> QED BY <2>1, <2>2 DEF TagsIn, RowsIn
<1>7. Sound(U, B)
  BY <1>2, <1>4, <1>5, <1>6 DEF Sound
<1> QED BY <1>7 DEF U

LEMMA LeadSound ==
    ASSUME Whole, "teamLead" \in FieldsOf[page], NEW r \in Rows, NEW l \in {NoRow} \cup RowsIn(stored)
    PROVE  Sound(Set(<<r, "teamLead">>, l), born)
<1> DEFINE S == Set(<<r, "teamLead">>, l)
<1>1. /\ <<r, "teamLead">> \in Cells
      /\ \A q \in Rows : <<q, "there">> \in Cells
      /\ page = "team" => /\ \A q \in Rows : <<q, "tags">> \in Cells /\ <<q, "teamLead">> \in Cells
                          /\ \A t \in Tags : <<t, "there">> \in Cells
  BY RowCellsAre, Fields DEF Whole
<1>2. /\ DOMAIN S = Cells /\ S[<<r, "teamLead">>] = l
      /\ \A k \in Cells : k # <<r, "teamLead">> => S[k] = stored[k]
  BY <1>1, SetIs DEF Whole, Sound
<1>3. l \in Rows \cup {NoRow}
  BY DEF RowsIn
<1> HIDE DEF S
<1>4. \A k \in Cells : S[k] \in Values(k[2])
  BY <1>1, <1>2, <1>3, ValuesAre DEF Whole, Sound
<1>5. \A k \in Cells : k[2] = "there" => S[k] = stored[k]
  BY <1>1, <1>2
<1>6. ASSUME page = "team"
      PROVE  /\ \A q \in Rows : S[<<q, "tags">>] = stored[<<q, "tags">>]
             /\ \A q \in Rows : S[<<q, "teamLead">>] = IF q = r THEN l ELSE stored[<<q, "teamLead">>]
             /\ \A q \in Rows : S[<<q, "there">>] = stored[<<q, "there">>]
             /\ \A t \in Tags : S[<<t, "there">>] = stored[<<t, "there">>]
             /\ TagsIn(S) = TagsIn(stored) /\ RowsIn(S) = RowsIn(stored)
  <2>1. /\ \A q \in Rows : S[<<q, "tags">>] = stored[<<q, "tags">>]
        /\ \A q \in Rows : S[<<q, "teamLead">>] = IF q = r THEN l ELSE stored[<<q, "teamLead">>]
    BY <1>1, <1>2, <1>6
  <2>2. /\ \A q \in Rows : S[<<q, "there">>] = stored[<<q, "there">>]
        /\ \A t \in Tags : S[<<t, "there">>] = stored[<<t, "there">>]
    BY <1>1, <1>5, <1>6
  <2> QED BY <2>1, <2>2 DEF TagsIn, RowsIn
<1>7. Sound(S, born)
  BY <1>2, <1>4, <1>5, <1>6 DEF Whole, Sound
<1> QED BY <1>7 DEF S

(* Its tags follow a role that is given. *)
LEMMA AssignedSound ==
    ASSUME page \in Pages, NEW S, NEW B, Sound(S, B), NEW r \in Rows, S[<<r, "there">>] = 1
    PROVE  Sound(Assigned(S, r), B)
<1>1. CASE page = "team"
  <2>1. "tags" \in FieldsOf[page]
    BY <1>1, Fields
  <2>2. S[<<r, "tags">>] \cup RolesOf(S, r) \subseteq TagsIn(S)
    BY <1>1 DEF RolesOf, Sound
  <2>3. Sound([S EXCEPT ![<<r, "tags">>] = S[<<r, "tags">>] \cup RolesOf(S, r)], B)
    BY <2>1, <2>2, TagsSound
  <2> QED BY <1>1, <2>3 DEF Assigned
<1>2. CASE page # "team"
  BY <1>2 DEF Assigned
<1> QED BY <1>1, <1>2

LEMMA RoleSound ==
    ASSUME Whole, page = "team", NEW r \in Rows, There(r), NEW v \in Values("role")
    PROVE  Sound(RoleSet(r, v), born)
<1>1. "role" \in FieldsOf[page] /\ <<r, "role">> \in Cells /\ <<r, "there">> \in Cells
  BY Fields, RowCellsAre DEF Whole
<1>2. Sound(Set(<<r, "role">>, v), born)
  BY <1>1, SetSound
<1>3. Set(<<r, "role">>, v)[<<r, "there">>] = 1
  BY <1>1, SetIs DEF Whole, Sound, There
<1> QED BY <1>2, <1>3, AssignedSound DEF RoleSet, Whole

LEMMA RemovedSound ==
    ASSUME Whole, NEW r \in Rows
    PROVE  Sound(Removed(r), born)
<1> DEFINE S == Removed(r)
<1>1. /\ \A q \in Rows : <<q, "there">> \in Cells
      /\ page = "team" => /\ \A q \in Rows : <<q, "tags">> \in Cells /\ <<q, "teamLead">> \in Cells
                          /\ \A t \in Tags : <<t, "there">> \in Cells /\ t \notin Rows
  BY RowCellsAre, Fields DEF Whole
<1>2. /\ DOMAIN S = Cells
      /\ \A k \in Cells : S[k] = IF k[1] = r THEN Blank(k[2])
                                 ELSE IF k[2] = "teamLead" /\ stored[k] = r THEN NoRow ELSE stored[k]
  BY DEF Removed
<1> HIDE DEF S
<1>3. \A k \in Cells : S[k] \in Values(k[2])
  BY <1>2, BlankFits, ValuesAre DEF Whole, Sound
<1>4. \A k \in Cells : k[2] = "there" => S[k] = IF k[1] = r THEN 0 ELSE stored[k]
  BY <1>2, BlanksAre
<1>5. ASSUME page = "team"
      PROVE  /\ \A q \in Rows : S[<<q, "tags">>] = IF q = r THEN {} ELSE stored[<<q, "tags">>]
             /\ \A q \in Rows : S[<<q, "teamLead">>] =
                  IF q = r \/ stored[<<q, "teamLead">>] = r THEN NoRow ELSE stored[<<q, "teamLead">>]
             /\ \A q \in Rows : S[<<q, "there">>] = IF q = r THEN 0 ELSE stored[<<q, "there">>]
             /\ \A t \in Tags : S[<<t, "there">>] = stored[<<t, "there">>]
             /\ TagsIn(S) = TagsIn(stored) /\ RowsIn(S) = RowsIn(stored) \ {r}
  <2>1. /\ \A q \in Rows : S[<<q, "tags">>] = IF q = r THEN {} ELSE stored[<<q, "tags">>]
        /\ \A q \in Rows : S[<<q, "teamLead">>] =
             IF q = r \/ stored[<<q, "teamLead">>] = r THEN NoRow ELSE stored[<<q, "teamLead">>]
    BY <1>1, <1>2, <1>5, BlanksAre
  <2>2. /\ \A q \in Rows : S[<<q, "there">>] = IF q = r THEN 0 ELSE stored[<<q, "there">>]
        /\ \A t \in Tags : S[<<t, "there">>] = stored[<<t, "there">>]
    BY <1>1, <1>4, <1>5
  <2>3. TagsIn(S) = TagsIn(stored)
    BY <2>2, <1>5 DEF TagsIn
  <2>4. RowsIn(S) = RowsIn(stored) \ {r}
    BY <2>2 DEF RowsIn
  <2> QED BY <2>1, <2>2, <2>3, <2>4
<1>6. ASSUME page = "team", NEW q \in Rows
      PROVE  S[<<q, "tags">>] \subseteq TagsIn(S) /\ S[<<q, "teamLead">>] \in RowsIn(S) \cup {NoRow}
  BY <1>5, <1>6 DEF Whole, Sound
<1>7. Sound(S, born)
  BY <1>2, <1>3, <1>4, <1>5, <1>6 DEF Whole, Sound
<1> QED BY <1>7 DEF S

(* Before it is given its role. *)
Fresh(r) == [k \in Cells |-> IF k[1] = r THEN New(k[2]) ELSE stored[k]]

LEMMA FreshSound ==
    ASSUME Whole, NEW r \in Rows \ born
    PROVE  Sound(Fresh(r), born \cup {r}) /\ Fresh(r)[<<r, "there">>] = 1
<1> DEFINE S == Fresh(r)
<1>1. /\ \A q \in Rows : <<q, "there">> \in Cells
      /\ page = "team" => /\ \A q \in Rows : <<q, "tags">> \in Cells /\ <<q, "teamLead">> \in Cells
                          /\ \A t \in Tags : <<t, "there">> \in Cells /\ t \notin Rows
  BY RowCellsAre, Fields DEF Whole
<1>2. /\ DOMAIN S = Cells
      /\ \A k \in Cells : S[k] = IF k[1] = r THEN New(k[2]) ELSE stored[k]
  BY DEF Fresh
<1> HIDE DEF S
<1>3. \A k \in Cells : S[k] \in Values(k[2])
  BY <1>2, NewFits DEF Whole, Sound
<1>4. \A k \in Cells : k[2] = "there" => S[k] = IF k[1] = r THEN 1 ELSE stored[k]
  BY <1>2, NewAre
<1>5. ASSUME page = "team"
      PROVE  /\ \A q \in Rows : S[<<q, "tags">>] = IF q = r THEN {} ELSE stored[<<q, "tags">>]
             /\ \A q \in Rows : S[<<q, "teamLead">>] = IF q = r THEN NoRow ELSE stored[<<q, "teamLead">>]
             /\ \A q \in Rows : S[<<q, "there">>] = IF q = r THEN 1 ELSE stored[<<q, "there">>]
             /\ \A t \in Tags : S[<<t, "there">>] = stored[<<t, "there">>]
             /\ TagsIn(S) = TagsIn(stored) /\ RowsIn(stored) \subseteq RowsIn(S)
  <2>1. /\ \A q \in Rows : S[<<q, "tags">>] = IF q = r THEN {} ELSE stored[<<q, "tags">>]
        /\ \A q \in Rows : S[<<q, "teamLead">>] = IF q = r THEN NoRow ELSE stored[<<q, "teamLead">>]
    BY <1>1, <1>2, <1>5, BlanksAre, NewAre
  <2>2. /\ \A q \in Rows : S[<<q, "there">>] = IF q = r THEN 1 ELSE stored[<<q, "there">>]
        /\ \A t \in Tags : S[<<t, "there">>] = stored[<<t, "there">>]
    BY <1>1, <1>4, <1>5
  <2>3. TagsIn(S) = TagsIn(stored)
    BY <2>2, <1>5 DEF TagsIn
  <2>4. RowsIn(stored) \subseteq RowsIn(S)
    BY <2>2 DEF RowsIn
  <2> QED BY <2>1, <2>2, <2>3, <2>4
<1>6. ASSUME page = "team", NEW q \in Rows
      PROVE  S[<<q, "tags">>] \subseteq TagsIn(S) /\ S[<<q, "teamLead">>] \in RowsIn(S) \cup {NoRow}
  BY <1>5, <1>6 DEF Whole, Sound
<1>7. Sound(S, born \cup {r})
  BY <1>2, <1>3, <1>4, <1>5, <1>6 DEF Whole, Sound
<1>8. S[<<r, "there">>] = 1
  BY <1>1, <1>4
<1> QED BY <1>7, <1>8 DEF S

LEMMA CreatedIs ==
    ASSUME NEW r, NEW v
    PROVE  Created(r, v) = IF page = "team"
                           THEN Assigned([Fresh(r) EXCEPT ![<<r, "role">>] = v], r) ELSE Fresh(r)
BY DEF Created, Fresh

LEMMA CreatedSound ==
    ASSUME Whole, NEW r \in Rows \ born, NEW v \in Values("role")
    PROVE  Sound(Created(r, v), born \cup {r})
<1>1. Sound(Fresh(r), born \cup {r}) /\ Fresh(r)[<<r, "there">>] = 1
  BY FreshSound
<1>2. CASE page = "team"
  <2> DEFINE F == Fresh(r)
             S == [F EXCEPT ![<<r, "role">>] = v]
  <2>1. /\ <<r, "role">> \in Cells
        /\ \A q \in Rows : /\ <<q, "there">> \in Cells /\ <<q, "tags">> \in Cells
                           /\ <<q, "teamLead">> \in Cells
        /\ \A t \in Tags : <<t, "there">> \in Cells
    BY <1>2, RowCellsAre, Fields DEF Whole
  <2> HIDE DEF F
  <2>2. /\ DOMAIN S = Cells /\ S[<<r, "role">>] = v
        /\ \A l \in Cells : l # <<r, "role">> => S[l] = F[l]
    BY <1>1, <2>1 DEF Sound, F
  <2> HIDE DEF S
  <2>3. \A k \in Cells : S[k] \in Values(k[2])
    BY <1>1, <2>1, <2>2 DEF Sound, F
  <2>4. \A k \in Cells : k[2] = "there" => S[k] = F[k]
    BY <2>2
  <2>5. /\ \A q \in Rows : S[<<q, "tags">>] = F[<<q, "tags">>]
        /\ \A q \in Rows : S[<<q, "teamLead">>] = F[<<q, "teamLead">>]
        /\ \A q \in Rows : S[<<q, "there">>] = F[<<q, "there">>]
        /\ \A t \in Tags : S[<<t, "there">>] = F[<<t, "there">>]
    BY <2>1, <2>2
  <2>6. TagsIn(S) = TagsIn(F) /\ RowsIn(S) = RowsIn(F)
    BY <1>2, <2>5 DEF TagsIn, RowsIn
  <2>7. Sound(S, born \cup {r})
    BY <1>1, <2>2, <2>3, <2>4, <2>5, <2>6 DEF Sound, F
  <2>8. Sound(Assigned(S, r), born \cup {r})
    BY <1>1, <2>5, <2>7, AssignedSound DEF F, Whole
  <2> QED BY <1>2, <2>8, CreatedIs DEF S, F
<1>3. CASE page # "team"
  BY <1>1, <1>3, CreatedIs
<1> QED BY <1>2, <1>3

LEMMA RoleCreatedSound ==
    ASSUME Whole, page = "team", NEW t \in Tags
    PROVE  Sound(Set(<<t, "there">>, 1), born \cup {t})
<1> DEFINE S == Set(<<t, "there">>, 1)
<1>1. /\ <<t, "there">> \in Cells
      /\ \A q \in Rows : /\ <<q, "there">> \in Cells /\ <<q, "tags">> \in Cells
                         /\ <<q, "teamLead">> \in Cells /\ q # t
      /\ \A u \in Tags : <<u, "there">> \in Cells
  BY RowCellsAre, Fields DEF Whole
<1>2. /\ DOMAIN S = Cells /\ S[<<t, "there">>] = 1
      /\ \A l \in Cells : l # <<t, "there">> => S[l] = stored[l]
  BY <1>1, SetIs DEF Whole, Sound
<1> HIDE DEF S
<1>3. \A k \in Cells : S[k] \in Values(k[2])
  BY <1>1, <1>2, ValuesAre DEF Whole, Sound
<1>4. \A k \in Cells : k[2] = "there" => S[k] \in {0, 1}
  BY <1>1, <1>2 DEF Whole, Sound
<1>5. /\ \A q \in Rows : S[<<q, "tags">>] = stored[<<q, "tags">>]
      /\ \A q \in Rows : S[<<q, "teamLead">>] = stored[<<q, "teamLead">>]
      /\ \A q \in Rows : S[<<q, "there">>] = stored[<<q, "there">>]
      /\ \A u \in Tags : u # t => S[<<u, "there">>] = stored[<<u, "there">>]
  BY <1>1, <1>2
<1>6. TagsIn(stored) \subseteq TagsIn(S) /\ RowsIn(S) = RowsIn(stored)
  BY <1>2, <1>5 DEF TagsIn, RowsIn
<1>7. Sound(S, born \cup {t})
  BY <1>2, <1>3, <1>4, <1>5, <1>6 DEF Whole, Sound
<1> QED BY <1>7 DEF S

LEMMA TagRemovedSound ==
    ASSUME Whole, page = "team", NEW t \in Tags
    PROVE  Sound(TagRemoved(stored, t), born)
<1> DEFINE S == TagRemoved(stored, t)
<1>1. /\ \A q \in Rows : /\ <<q, "there">> \in Cells /\ <<q, "tags">> \in Cells
                         /\ <<q, "teamLead">> \in Cells /\ q # t
      /\ \A u \in Tags : <<u, "there">> \in Cells
  BY RowCellsAre, Fields DEF Whole
<1>2. /\ DOMAIN S = Cells
      /\ \A k \in Cells : S[k] = IF k[1] = t THEN Blank(k[2])
                                 ELSE IF k[2] = "tags" THEN stored[k] \ {t} ELSE stored[k]
  BY DEF TagRemoved, Without
<1> HIDE DEF S
<1>3. \A k \in Cells : S[k] \in Values(k[2])
  <2> SUFFICES ASSUME NEW k \in Cells PROVE S[k] \in Values(k[2])
    OBVIOUS
  <2>1. CASE k[1] = t
    BY <1>2, <2>1, BlankFits
  <2>2. CASE k[1] # t /\ k[2] = "tags"
    BY <1>2, <2>2, ValuesAre DEF Whole, Sound
  <2>3. CASE k[1] # t /\ k[2] # "tags"
    BY <1>2, <2>3 DEF Whole, Sound
  <2> QED BY <2>1, <2>2, <2>3
<1>4. \A k \in Cells : k[2] = "there" => S[k] = IF k[1] = t THEN 0 ELSE stored[k]
  BY <1>2, BlanksAre
<1>5. /\ \A q \in Rows : S[<<q, "tags">>] = stored[<<q, "tags">>] \ {t}
      /\ \A q \in Rows : S[<<q, "teamLead">>] = stored[<<q, "teamLead">>]
      /\ \A q \in Rows : S[<<q, "there">>] = stored[<<q, "there">>]
      /\ \A u \in Tags : S[<<u, "there">>] = IF u = t THEN 0 ELSE stored[<<u, "there">>]
  BY <1>1, <1>2, <1>4
<1>6. TagsIn(S) = TagsIn(stored) \ {t} /\ RowsIn(S) = RowsIn(stored)
  BY <1>5 DEF TagsIn, RowsIn
<1>7. Sound(S, born)
  BY <1>2, <1>3, <1>4, <1>5, <1>6 DEF Whole, Sound
<1> QED BY <1>7 DEF S

LEMMA StampedSound ==
    ASSUME Whole, page = "request", NEW r \in Rows, NEW v \in 0..2
    PROVE  Sound(Stamped(r, v), born)
<1>1. FieldsOf[page] = {"status", "steps"} /\ <<r, "status">> \in Cells /\ <<r, "steps">> \in Cells
  BY Fields, RowCellsAre DEF Whole
<1>2. /\ DOMAIN Stamped(r, v) = Cells
      /\ \A k \in Cells : Stamped(r, v)[k] =
           IF k \in {<<r, "status">>, <<r, "steps">>} THEN v ELSE stored[k]
  BY <1>1 DEF Stamped, Whole, Sound
<1> HIDE DEF Stamped
<1> QED BY <1>1, <1>2, ValuesAre DEF Whole, Sound

Allocated(r, v) == [stored EXCEPT ![<<r, "there">>] = 1, ![<<r, "allocatedAmount">>] = v]

LEMMA AllocatedSound ==
    ASSUME Whole, page = "finance", NEW r \in Rows, NEW v \in BOOLEAN
    PROVE  Sound(Allocated(r, v), born)
<1>1. <<r, "there">> \in Cells /\ <<r, "allocatedAmount">> \in Cells
  BY RowCellsAre DEF Whole, FieldsOf
<1>2. /\ DOMAIN Allocated(r, v) = Cells
      /\ \A k \in Cells : Allocated(r, v)[k] =
           IF k = <<r, "there">> THEN 1
           ELSE IF k = <<r, "allocatedAmount">> THEN v ELSE stored[k]
  BY <1>1 DEF Allocated, Whole, Sound
<1> HIDE DEF Allocated
<1>3. \A k \in Cells : Allocated(r, v)[k] \in Values(k[2])
  BY <1>1, <1>2, ValuesAre DEF Whole, Sound
<1> QED BY <1>1, <1>2, <1>3 DEF Whole, Sound

-----------------------------------------------------------------------------
(* What a page asks, and what the server makes of it *)

(* The calls each page makes, besides the one that loads it. *)
OpsOf ==
    [team        |-> {"role", "department", "teamLead", "isOnLeave", "isActive", "tags", "remove",
                      "create", "createRole", "editRole", "deleteRole", "send", "pool", "catalog"},
     tenants     |-> {"isActive", "remove", "create"},
     admins      |-> {"isActive", "remove", "create"},
     tenantUsers |-> {"isActive", "remove", "create"},
     finance     |-> {"name", "allocatedAmount", "remove"},
     delegations |-> {"isActive", "create"},
     policies    |-> {"create"},
     profile     |-> {"name", "isOnLeave", "hasPassword", "slackUserId"},
     account     |-> {"name"},
     request     |-> {"decide", "proof"}]

Switches == {"department", "isOnLeave", "isActive", "name", "hasPassword", "slackUserId"}

(* What they are about and what they carry. *)
ArgFits(c) ==
    /\ c.op = "tags" => c.on \in Rows /\ c.arg \in [tag : Tags, ids : SUBSET Tags]
    /\ c.op = "role" => c.on \in Rows /\ c.arg \in Values("role")
    /\ c.op = "teamLead" => c.on \in Rows /\ c.arg \in Values("teamLead")
    /\ c.op \in Switches \cup {"allocatedAmount", "pool", "remove"} =>
         c.on \in Rows /\ c.arg \in BOOLEAN
    /\ c.op = "create" => c.on \in Rows \cup {NoRow} /\ c.arg \in Values("role")
    /\ c.op = "createRole" => c.on \in Tags \cup {NoRow} /\ c.arg \in BOOLEAN
    /\ c.op \in {"editRole", "deleteRole"} => c.on \in Tags /\ c.arg \in BOOLEAN
    /\ c.op \in {"decide", "proof"} => c.on \in Rows /\ c.arg \in 1..2
    /\ c.op \in Fetches \cup {"send"} => c.on = NoRow /\ c.arg \in BOOLEAN

(* The ids a call may be given. *)
Given(c) == CASE c.op = "create"     -> Rows \ born
              [] c.op = "createRole" -> Tags \ born
              [] OTHER               -> {c.on}

Asks(c) == c.op \in OpsOf[page] \ Fetches /\ ArgFits(c)

LEMMA OpsAre ==
    ASSUME page \in Pages, NEW c, Asks(c)
    PROVE  /\ c.op \in Ops \ Fetches
           /\ c.op \in {"tags", "role", "createRole", "editRole", "deleteRole", "send", "pool",
                        "department", "teamLead"} => page = "team"
           /\ c.op \in {"decide", "proof"} => page = "request"
           /\ c.op = "allocatedAmount" => page = "finance"
           /\ c.op \in Switches => c.op \in FieldsOf[page]
           /\ page = "team" => c.op \in OpsOf["team"] \ Fetches
           /\ \/ c.op \in {"tags", "role", "teamLead", "remove", "create", "createRole", "editRole",
                           "deleteRole", "send", "pool", "allocatedAmount", "decide", "proof"}
              \/ c.op \in Switches
BY DEF Asks, OpsOf, Ops, Fetches, FieldsOf, Switches

LEMMA AfterIs ==
    ASSUME NEW c, NEW x
    PROVE  /\ c.op = "tags" => After(c, x) = Set(<<c.on, "tags">>, c.arg.ids)
           /\ c.op = "role" => After(c, x) = RoleSet(c.on, c.arg)
           /\ c.op = "teamLead" => After(c, x) = Set(<<c.on, "teamLead">>, c.arg)
           /\ c.op = "remove" => After(c, x) = Removed(c.on)
           /\ c.op = "create" => After(c, x) = Created(x, c.arg)
           /\ c.op = "createRole" => After(c, x) = Set(<<x, "there">>, 1)
           /\ c.op = "deleteRole" => After(c, x) = TagRemoved(stored, c.on)
           /\ c.op = "allocatedAmount" => After(c, x) = Allocated(c.on, c.arg)
           /\ c.op \in {"decide", "proof"} => After(c, x) = Stamped(c.on, c.arg)
           /\ c.op \in {"send", "pool", "editRole"} => After(c, x) = stored
           /\ c.op \in Switches => After(c, x) = Set(<<c.on, c.op>>, c.arg)
BY DEF After, Allocated, Switches

LEMMA GivenIs ==
    ASSUME NEW c
    PROVE  /\ c.op = "create" => Given(c) = Rows \ born
           /\ c.op = "createRole" => Given(c) = Tags \ born
           /\ c.op \notin {"create", "createRole"} => Given(c) = {c.on}
BY DEF Given

LEMMA AcceptsIs ==
    ASSUME NEW c, Accepts(c)
    PROVE  /\ c.op = "tags" => There(c.on) /\ c.arg.ids \subseteq TagsIn(stored)
           /\ c.op = "teamLead" => There(c.on) /\ c.arg \in {NoRow} \cup RowsIn(stored)
           /\ c.op \in {"role", "deleteRole"} => There(c.on)
BY DEF Accepts

(* The ids given out after the call. *)
Borne(c, x) == IF c.op \in {"create", "createRole"} THEN born \cup {x} ELSE born

LEMMA AfterSound ==
    ASSUME Whole, NEW c, Asks(c), Accepts(c), NEW x \in Given(c)
    PROVE  Sound(After(c, x), Borne(c, x))
<1>1. page \in Pages
  BY DEF Whole
<1>2. CASE c.op = "tags"
  <2>1. page = "team" /\ "tags" \in FieldsOf[page] /\ c.on \in Rows
    BY <1>1, <1>2, OpsAre, Fields DEF Asks, ArgFits
  <2>2. stored[<<c.on, "there">>] = 1 /\ c.arg.ids \subseteq TagsIn(stored)
    BY <1>2, AcceptsIs DEF There
  <2>3. Sound([stored EXCEPT ![<<c.on, "tags">>] = c.arg.ids], born)
    BY <2>1, <2>2, TagsSound DEF Whole
  <2> QED BY <1>2, <2>3, AfterIs DEF Set, Borne
<1>3. CASE c.op = "role"
  <2>1. page = "team" /\ c.on \in Rows /\ c.arg \in Values("role") /\ There(c.on)
    BY <1>1, <1>3, OpsAre, AcceptsIs DEF Asks, ArgFits
  <2>2. Sound(RoleSet(c.on, c.arg), born)
    BY <2>1, RoleSound
  <2> QED BY <1>3, <2>2, AfterIs DEF Borne
<1>4. CASE c.op = "teamLead"
  <2>1. "teamLead" \in FieldsOf[page] /\ c.on \in Rows /\ c.arg \in {NoRow} \cup RowsIn(stored)
    BY <1>1, <1>4, OpsAre, AcceptsIs, Fields DEF Asks, ArgFits
  <2>2. Sound(Set(<<c.on, "teamLead">>, c.arg), born)
    BY <2>1, LeadSound
  <2> QED BY <1>4, <2>2, AfterIs DEF Borne
<1>5. CASE c.op = "remove"
  <2>1. c.on \in Rows
    BY <1>5 DEF Asks, ArgFits
  <2> QED BY <1>5, <2>1, RemovedSound, AfterIs DEF Borne
<1>6. CASE c.op = "create"
  <2>1. c.arg \in Values("role") /\ x \in Rows \ born
    BY <1>6, GivenIs DEF Asks, ArgFits
  <2> QED BY <1>6, <2>1, CreatedSound, AfterIs DEF Borne
<1>7. CASE c.op = "createRole"
  <2>1. page = "team" /\ x \in Tags
    BY <1>1, <1>7, OpsAre, GivenIs
  <2> QED BY <1>7, <2>1, RoleCreatedSound, AfterIs DEF Borne
<1>8. CASE c.op = "deleteRole"
  <2>1. page = "team" /\ c.on \in Tags
    BY <1>1, <1>8, OpsAre DEF Asks, ArgFits
  <2> QED BY <1>8, <2>1, TagRemovedSound, AfterIs DEF Borne
<1>9. CASE c.op = "allocatedAmount"
  <2>1. page = "finance" /\ c.on \in Rows /\ c.arg \in BOOLEAN
    BY <1>1, <1>9, OpsAre DEF Asks, ArgFits
  <2> QED BY <1>9, <2>1, AllocatedSound, AfterIs DEF Borne
<1>10. CASE c.op \in {"decide", "proof"}
  <2>1. page = "request" /\ c.on \in Rows /\ c.arg \in 0..2
    BY <1>1, <1>10, OpsAre DEF Asks, ArgFits
  <2> QED BY <1>10, <2>1, StampedSound, AfterIs DEF Borne
<1>11. CASE c.op \in {"send", "pool", "editRole"}
  BY <1>11, AfterIs DEF Borne, Whole
<1>12. CASE c.op \in Switches
  <2>1. c.op \in FieldsOf[page] /\ c.on \in Rows /\ c.arg \in BOOLEAN
    BY <1>1, <1>12, OpsAre DEF Asks, ArgFits
  <2>2. Values(c.op) = BOOLEAN /\ c.op \notin {"tags", "teamLead", "create", "createRole"}
    BY <1>12, ValuesAre DEF Switches
  <2>3. Sound(Set(<<c.on, c.op>>, c.arg), born)
    BY <2>1, <2>2, SetSound
  <2> QED BY <1>12, <2>2, <2>3, AfterIs DEF Borne
<1> QED BY <1>1, <1>2, <1>3, <1>4, <1>5, <1>6, <1>7, <1>8, <1>9, <1>10, <1>11, <1>12, OpsAre

-----------------------------------------------------------------------------
(* Which cells a call changes, reads and leaves to be fetched *)

LEMMA ReadsAre ==
    ASSUME page \in Pages, NEW c, Asks(c), NEW x
    PROVE  /\ c.op = "create" => Reads(c, x) = RowCells(x)
           /\ c.op = "createRole" => Reads(c, x) = {x} \X {"there", "members"}
           /\ c.op = "deleteRole" => Reads(c, x) = {c.on} \X {"there", "members"}
           /\ c.op = "editRole" => Reads(c, x) = {<<c.on, "members">>}
           /\ c.op \in {"send", "pool", "allocatedAmount"} => Reads(c, x) = {}
           /\ c.op = "remove" => Reads(c, x) \in {RowCells(c.on), {}}
           /\ c.op = "remove" /\ page # "finance" => Reads(c, x) = RowCells(c.on)
           /\ c.op \in {"tags", "role", "teamLead"} => Reads(c, x) = {<<c.on, c.op>>}
           /\ c.op \in Switches => Reads(c, x) \subseteq {c.on} \X FieldsOf[page]
           /\ c.op \in Switches /\ page \notin {"finance", "account"} => <<c.on, c.op>> \in Reads(c, x)
           /\ c.op \in {"decide", "proof"} => Reads(c, x) = {c.on} \X FieldsOf[page]
<1>1. page \in DOMAIN FieldsOf
  OBVIOUS
<1>2. CASE page = "team"
  <2>1. c.op \in {"role", "department", "teamLead", "isOnLeave", "isActive", "tags", "remove",
                  "create", "createRole", "editRole", "deleteRole", "send", "pool"}
        /\ FieldsOf[page] = {"role", "department", "teamLead", "isOnLeave", "isActive", "tags"}
    BY <1>2, Fields DEF Asks, OpsOf, Fetches
  <2>2. Reads(c, x) = TeamReads(c, x)
    BY <1>2 DEF Reads
  <2> QED BY <1>2, <2>1, <2>2 DEF TeamReads, Switches
<1>3. CASE page \in {"tenants", "admins", "tenantUsers", "policies"}
  <2>1. c.op \in {"isActive", "remove", "create"} /\ (c.op = "isActive" => c.op \in FieldsOf[page])
    BY <1>3 DEF Asks, OpsOf, FieldsOf, Fetches
  <2>2. Reads(c, x) = PlatformReads(c, x)
    BY <1>3 DEF Reads
  <2> QED BY <1>3, <2>1, <2>2 DEF PlatformReads, Switches
<1>4. CASE page = "profile"
  <2>1. c.op \in {"name", "isOnLeave", "hasPassword", "slackUserId"} /\ c.op \in FieldsOf[page]
    BY <1>4 DEF Asks, OpsOf, FieldsOf, Fetches
  <2>2. Reads(c, x) = ProfileReads(c)
    BY <1>4 DEF Reads
  <2> QED BY <1>4, <2>1, <2>2 DEF ProfileReads, Switches
<1>5. CASE page = "delegations"
  <2>1. c.op \in {"isActive", "create"} /\ (c.op = "isActive" => c.op \in FieldsOf[page])
    BY <1>5 DEF Asks, OpsOf, FieldsOf, Fetches
  <2>2. Reads(c, x) = DelegationReads(c, x)
    BY <1>5 DEF Reads
  <2> QED BY <1>5, <2>1, <2>2 DEF DelegationReads, Switches
<1>6. CASE page = "request"
  <2>1. c.op \in {"decide", "proof"}
    BY <1>6 DEF Asks, OpsOf, Fetches
  <2>2. Reads(c, x) = {c.on} \X FieldsOf[page]
    BY <1>6 DEF Reads
  <2> QED BY <1>6, <2>1, <2>2 DEF Switches
<1>7. CASE page \in {"finance", "account"}
  <2>1. c.op \in {"name", "allocatedAmount", "remove"}
    BY <1>7 DEF Asks, OpsOf, Fetches
  <2>2. Reads(c, x) = {}
    BY <1>7 DEF Reads
  <2>3. c.op = "remove" => page = "finance"
    BY <1>7 DEF Asks, OpsOf, Fetches
  <2> QED BY <1>7, <2>1, <2>2, <2>3 DEF Switches
<1> QED BY <1>1, <1>2, <1>3, <1>4, <1>5, <1>6, <1>7 DEF FieldsOf

LEMMA ReadsCells ==
    ASSUME Whole, NEW c, Asks(c), NEW x \in Given(c)
    PROVE  Reads(c, x) \subseteq Cells /\ Reads(c, x) \cap Untold(c) = {}
<1>1. page \in Pages
  BY DEF Whole
<1>2. \A r \in Rows : RowCells(r) \subseteq Cells /\ {r} \X FieldsOf[page] \subseteq RowCells(r)
  BY DEF Cells, UserCells, RowCells
<1>3. c.op # "remove" => Untold(c) = {}
  BY DEF Untold
<1>4. CASE c.op = "create"
  <2>1. x \in Rows /\ Reads(c, x) = RowCells(x)
    BY <1>1, <1>4, ReadsAre, GivenIs
  <2> QED BY <1>2, <1>3, <1>4, <2>1
<1>5. CASE c.op \in {"createRole", "editRole", "deleteRole"}
  <2>1. page = "team" /\ x \in Tags /\ (c.op # "createRole" => c.on \in Tags)
    BY <1>1, <1>5, OpsAre, GivenIs DEF Asks, ArgFits
  <2>2. \A t \in Tags : {t} \X {"there", "members"} \subseteq Cells /\ <<t, "members">> \in Cells
    <3>1. CatalogCells = Tags \X {"there", "members"} /\ CatalogCells \subseteq Cells
      BY <2>1 DEF CatalogCells, Cells
    <3> QED BY <3>1
  <2>3. /\ c.op = "createRole" => Reads(c, x) = {x} \X {"there", "members"}
        /\ c.op = "deleteRole" => Reads(c, x) = {c.on} \X {"there", "members"}
        /\ c.op = "editRole" => Reads(c, x) = {<<c.on, "members">>}
    BY <1>1, ReadsAre
  <2> QED BY <1>3, <1>5, <2>1, <2>2, <2>3
<1>6. CASE c.op \in {"send", "pool", "allocatedAmount"}
  BY <1>1, <1>6, ReadsAre
<1>7. CASE c.op = "remove"
  <2>1. c.on \in Rows
    BY <1>7 DEF Asks, ArgFits
  <2>2. RowCells(c.on) \cap Untold(c) = {}
    BY <1>7, <2>1 DEF Untold, RowCells, CatalogCells
  <2>3. Reads(c, x) \in {RowCells(c.on), {}}
    BY <1>1, <1>7, ReadsAre
  <2> QED BY <1>2, <2>1, <2>2, <2>3
<1>8. CASE c.op \in {"tags", "role", "teamLead"}
  <2>1. c.on \in Rows /\ page = "team"
    BY <1>1, <1>8, OpsAre DEF Asks, ArgFits
  <2>2. <<c.on, c.op>> \in Cells
    BY <1>1, <1>8, <2>1, Fields, RowCellsAre
  <2> QED BY <1>1, <1>3, <1>8, <2>2, ReadsAre
<1>9. CASE c.op \in Switches
  <2>1. c.on \in Rows
    BY <1>9 DEF Asks, ArgFits
  <2>2. c.op # "remove"
    BY <1>9 DEF Switches
  <2> QED BY <1>1, <1>2, <1>3, <1>9, <2>1, <2>2, ReadsAre
<1>10. CASE c.op \in {"decide", "proof"}
  <2>1. c.on \in Rows
    BY <1>10 DEF Asks, ArgFits
  <2>2. Reads(c, x) = {c.on} \X FieldsOf[page] /\ Untold(c) = {}
    BY <1>1, <1>3, <1>10, ReadsAre
  <2> QED BY <1>2, <2>1, <2>2
<1> QED BY <1>1, <1>4, <1>5, <1>6, <1>7, <1>8, <1>9, <1>10, OpsAre

LEMMA ChangedIs ==
    ASSUME NEW S
    PROVE  /\ Changed(S) \subseteq Cells
           /\ \A k \in Changed(S) : k[2] # "members" => S[k] # stored[k]
           /\ \A k \in Cells \ Changed(S) : Counted(S)[k] = Truth[k]
BY CountedIs DEF Changed, Truth

(* A count changes with somebody's tags. *)
LEMMA CountedTags ==
    ASSUME NEW S, NEW k \in Changed(S), k[2] = "members"
    PROVE  \E r \in Rows : ~(k[1] \in S[<<r, "tags">>] <=> k[1] \in stored[<<r, "tags">>])
<1>1. k \in Cells /\ Counted(S)[k] # Truth[k]
  BY DEF Changed
<1>2. Holding(S, k[1]) # Holding(stored, k[1])
  BY <1>1, CountedIs DEF Truth
<1> QED BY <1>2 DEF Holding

LEMMA SameTagsSameCounts ==
    ASSUME NEW S, \A r \in Rows : S[<<r, "tags">>] = stored[<<r, "tags">>],
           NEW k \in Changed(S)
    PROVE  k[2] # "members"
BY CountedTags

LEMMA MembersAreOfTags ==
    ASSUME page \in Pages, NEW k \in Cells, k[2] = "members"
    PROVE  page = "team" /\ k \in CatalogCells /\ k[1] \in Tags
BY CellsAre, Fields DEF CatalogCells, Names

LEMMA SetChanges ==
    ASSUME Whole, NEW r \in Rows, NEW f \in FieldsOf[page], NEW v
    PROVE  /\ Changed(Set(<<r, f>>, v)) \subseteq {<<r, f>>} \cup CatalogCells
           /\ f # "tags" => Changed(Set(<<r, f>>, v)) \subseteq {<<r, f>>}
<1> DEFINE S == Set(<<r, f>>, v)
<1>1. page \in Pages /\ <<r, f>> \in Cells
  BY RowCellsAre DEF Whole
<1>2. \A l \in Cells : l # <<r, f>> => S[l] = stored[l]
  BY <1>1, SetIs DEF Whole, Sound
<1> HIDE DEF S
<1>3. \A k \in Changed(S) : k \in Cells /\ (k[2] # "members" => k = <<r, f>>)
  BY <1>2, ChangedIs
<1>4. Changed(S) \subseteq {<<r, f>>} \cup CatalogCells
  BY <1>1, <1>3, MembersAreOfTags
<1>5. ASSUME f # "tags" PROVE Changed(S) \subseteq {<<r, f>>}
  <2> SUFFICES ASSUME NEW k \in Changed(S), k[2] = "members" PROVE FALSE
    BY <1>3
  <2>1. page = "team"
    BY <1>1, <1>3, MembersAreOfTags
  <2>2. \A q \in Rows : <<q, "tags">> \in Cells
    BY <1>1, <2>1, RowCellsAre, Fields
  <2>3. \A q \in Rows : S[<<q, "tags">>] = stored[<<q, "tags">>]
    BY <1>2, <1>5, <2>2
  <2> QED BY <2>3, SameTagsSameCounts
<1> QED BY <1>4, <1>5 DEF S

LEMMA SameChangesNothing == Changed(stored) = {}
BY DEF Changed, Truth

LoadsAgain(c) == \/ page = "team" /\ c.op \in {"role", "create"} /\ c.arg = "SYSTEM_ADMIN"
                 \/ page \in {"finance", "account", "request"} /\ c.op \notin Fetches
CatalogAgain(c) == page = "team" /\ c.op \in {"tags", "send"}

LEMMA RefetchIs ==
    ASSUME NEW c
    PROVE  /\ LoadsAgain(c) => Refetch(c) = <<"load">>
           /\ CatalogAgain(c) => Refetch(c) = <<"catalog">>
           /\ ~LoadsAgain(c) /\ ~CatalogAgain(c) => Refetch(c) = <<>>
           /\ ~(LoadsAgain(c) /\ CatalogAgain(c))
BY DEF Refetch, LoadsAgain, CatalogAgain

(* The cells it has fetched again. *)
Again(c) == IF LoadsAgain(c) THEN Cells ELSE IF CatalogAgain(c) THEN CatalogCells ELSE {}

TagCells == {k \in Cells : k[2] = "tags"}

(* Whatever a call changes its answer tells, or the page fetches it again, *)
(* or takes the tag off its rows itself, or is not told.                   *)
LEMMA Footprint ==
    ASSUME Whole, NEW c, Asks(c), Accepts(c), NEW x \in Given(c)
    PROVE  Changed(After(c, x)) \ Untold(c) \subseteq
             Reads(c, x) \cup Again(c) \cup (IF c.op = "deleteRole" THEN TagCells ELSE {})
<1> DEFINE S == After(c, x)
           E == IF c.op = "deleteRole" THEN TagCells ELSE {}
<1>0. /\ c.op = "tags" => S = Set(<<c.on, "tags">>, c.arg.ids)
      /\ c.op = "role" => S = RoleSet(c.on, c.arg)
      /\ c.op = "teamLead" => S = Set(<<c.on, "teamLead">>, c.arg)
      /\ c.op = "remove" => S = Removed(c.on)
      /\ c.op = "create" => S = Created(x, c.arg)
      /\ c.op = "createRole" => S = Set(<<x, "there">>, 1)
      /\ c.op = "deleteRole" => S = TagRemoved(stored, c.on)
      /\ c.op \in {"send", "pool", "editRole"} => S = stored
      /\ c.op \in Switches => S = Set(<<c.on, c.op>>, c.arg)
  BY AfterIs
<1>e. c.op = "deleteRole" => E = TagCells
  OBVIOUS
<1> HIDE DEF S, E
<1> SUFFICES Changed(S) \ Untold(c) \subseteq Reads(c, x) \cup Again(c) \cup E
  BY DEF S, E
<1>1. page \in Pages /\ DOMAIN stored = Cells
  BY DEF Whole, Sound
<1>2. Changed(S) \subseteq Cells
  BY ChangedIs
<1>3. CASE c.op = "tags"
  <2>1. page = "team" /\ c.on \in Rows /\ "tags" \in FieldsOf[page]
    BY <1>1, <1>3, OpsAre, Fields DEF Asks, ArgFits
  <2>2. Changed(S) \subseteq {<<c.on, "tags">>} \cup CatalogCells
    <3>1. Changed(Set(<<c.on, "tags">>, c.arg.ids)) \subseteq {<<c.on, "tags">>} \cup CatalogCells
      BY <2>1, SetChanges
    <3> QED BY <1>0, <1>3, <3>1
  <2>3. Reads(c, x) = {<<c.on, "tags">>} /\ Again(c) = CatalogCells
    BY <1>1, <1>3, <2>1, ReadsAre DEF Again, LoadsAgain, CatalogAgain
  <2> QED BY <2>2, <2>3
<1>4. CASE c.op \in {"role", "create"} /\ c.arg = "SYSTEM_ADMIN" /\ page = "team"
  <2>1. Again(c) = Cells
    BY <1>4 DEF Again, LoadsAgain
  <2> QED BY <1>2, <2>1
<1>5. CASE c.op = "role" /\ c.arg # "SYSTEM_ADMIN"
  <2>1. page = "team" /\ c.on \in Rows /\ "role" \in FieldsOf[page]
    BY <1>1, <1>5, OpsAre, Fields DEF Asks, ArgFits
  <2> DEFINE U == Set(<<c.on, "role">>, c.arg)
  <2>2. /\ DOMAIN U = Cells /\ U[<<c.on, "role">>] = c.arg
        /\ <<c.on, "tags">> \in Cells
    BY <1>1, <2>1, SetIs, RowCellsAre, Fields
  <2>3. Changed(U) \subseteq {<<c.on, "role">>}
    BY <2>1, SetChanges
  <2>4. S = Assigned(U, c.on)
    BY <1>5, <1>0 DEF RoleSet
  <2> HIDE DEF U
  <2>5. RolesOf(U, c.on) = {}
    BY <1>5, <2>2 DEF RolesOf
  <2>6. Assigned(U, c.on) = U
    <3>1. U[<<c.on, "tags">>] \cup {} = U[<<c.on, "tags">>]
      OBVIOUS
    <3>2. U = [l \in Cells |-> U[l]]
      BY <1>1 DEF U, Set
    <3>3. [U EXCEPT ![<<c.on, "tags">>] = U[<<c.on, "tags">>]] = U
      BY <2>2, <3>2
    <3> QED BY <2>1, <2>5, <3>1, <3>3 DEF Assigned
  <2>7. Reads(c, x) = {<<c.on, "role">>}
    BY <1>1, <1>5, ReadsAre
  <2> QED BY <2>3, <2>4, <2>6, <2>7
<1>6. CASE c.op = "teamLead"
  <2>1. c.on \in Rows /\ "teamLead" \in FieldsOf[page]
    BY <1>1, <1>6, OpsAre, Fields DEF Asks, ArgFits
  <2>2. Changed(S) \subseteq {<<c.on, "teamLead">>}
    <3>1. Changed(Set(<<c.on, "teamLead">>, c.arg)) \subseteq {<<c.on, "teamLead">>}
      BY <2>1, SetChanges
    <3> QED BY <1>0, <1>6, <3>1
  <2>3. Reads(c, x) = {<<c.on, "teamLead">>}
    <3>1. Reads(c, x) = {<<c.on, c.op>>}
      BY <1>1, <1>6, ReadsAre
    <3> QED BY <1>6, <3>1
  <2> QED BY <2>2, <2>3
<1>7. CASE c.op = "remove"
  <2>1. c.on \in Rows
    BY <1>7 DEF Asks, ArgFits
  <2>2. CASE page = "finance"
    BY <1>2, <1>7, <2>2 DEF Again, LoadsAgain, Fetches
  <2>3. CASE page # "finance"
    <3>1. Reads(c, x) = RowCells(c.on)
      BY <1>1, <1>7, <2>3, ReadsAre
    <3>2. ASSUME NEW k \in Changed(S), k \notin CatalogCells, k[1] # c.on
          PROVE  k[2] = "teamLead" /\ k[1] \in Rows
      <4>1. k \in Cells /\ k[2] # "members"
        BY <1>1, <1>2, <3>2, MembersAreOfTags
      <4>2. S[k] # stored[k]
        BY <3>2, <4>1, ChangedIs
      <4>3. S[k] = IF k[2] = "teamLead" /\ stored[k] = c.on THEN NoRow ELSE stored[k]
        BY <1>0, <1>7, <3>2, <4>1 DEF Removed
      <4>4. k[2] = "teamLead"
        BY <4>2, <4>3
      <4> QED BY <1>1, <4>1, <4>4, CellsAre
    <3>3. ASSUME NEW k \in Changed(S), k \notin CatalogCells, k[1] = c.on
          PROVE  k \in RowCells(c.on)
      <4>1. k \in Cells
        BY <1>2
      <4>2. k = <<k[1], k[2]>> /\ k[2] \in {"there"} \cup FieldsOf[page]
        BY <1>1, <2>1, <3>3, <4>1, CellsAre
      <4> QED BY <3>3, <4>2 DEF RowCells
    <3>4. ASSUME NEW k \in Changed(S) PROVE k \in Untold(c) \cup RowCells(c.on)
      <4>1. k = <<k[1], k[2]>>
        BY <1>1, <1>2, CellsAre
      <4> QED BY <1>7, <3>2, <3>3, <4>1 DEF Untold
    <3> QED BY <3>1, <3>4
  <2> QED BY <2>2, <2>3
<1>8. CASE c.op = "create" /\ ~(c.arg = "SYSTEM_ADMIN" /\ page = "team")
  <2>1. x \in Rows \ born /\ Reads(c, x) = RowCells(x)
    BY <1>1, <1>8, ReadsAre, GivenIs
  <2>2. \A k \in Cells : k[1] = x => k \in RowCells(x)
    BY <1>1, <2>1, CellsAre DEF RowCells
  <2> DEFINE F == Fresh(x)
             U == [F EXCEPT ![<<x, "role">>] = c.arg]
  <2>3. DOMAIN F = Cells /\ \A k \in Cells : k[1] # x => F[k] = stored[k]
    BY DEF Fresh
  <2>4. ASSUME page = "team", NEW r \in Rows
        PROVE  F[<<r, "tags">>] = stored[<<r, "tags">>]
    <3>1. \A q \in Rows : <<q, "tags">> \in Cells
      BY <1>1, <2>4, RowCellsAre, Fields
    <3>2. F[<<x, "tags">>] = {}
      BY <2>1, <3>1, NewAre, BlanksAre DEF Fresh
    <3>3. stored[<<x, "tags">>] = {}
      BY <2>1, <2>4 DEF Whole, Sound
    <3> QED BY <2>3, <3>1, <3>2, <3>3
  <2> HIDE DEF F
  <2>5. DOMAIN U = Cells /\ \A k \in Cells : k # <<x, "role">> => U[k] = F[k]
    BY <2>3
  <2> HIDE DEF U
  <2>6. ASSUME page = "team", NEW r \in Rows
        PROVE  U[<<r, "tags">>] = stored[<<r, "tags">>]
    <3>1. <<r, "tags">> \in Cells
      BY <1>1, <2>6, RowCellsAre, Fields
    <3> QED BY <2>4, <2>5, <2>6, <3>1
  <2>7. S = IF page = "team" THEN U ELSE F
    <3>1. CASE page = "team"
      <4>1. S = Assigned(U, x)
        BY <1>8, <3>1, <1>0, CreatedIs DEF U, F
      <4>2. <<x, "role">> \in Cells /\ <<x, "tags">> \in Cells
        BY <1>1, <2>1, <3>1, RowCellsAre, Fields
      <4>3. U[<<x, "role">>] = c.arg
        BY <2>3, <4>2 DEF U
      <4>4. RolesOf(U, x) = {}
        BY <1>8, <3>1, <4>3 DEF RolesOf
      <4>5. Assigned(U, x) = U
        <5>1. U[<<x, "tags">>] \cup {} = U[<<x, "tags">>]
          OBVIOUS
        <5>2. U = [l \in Cells |-> U[l]]
          BY <2>3 DEF U
        <5>3. [U EXCEPT ![<<x, "tags">>] = U[<<x, "tags">>]] = U
          BY <2>5, <4>2, <5>2
        <5> QED BY <3>1, <4>4, <5>1, <5>3 DEF Assigned
      <4> QED BY <3>1, <4>1, <4>5
    <3>2. CASE page # "team"
      BY <1>8, <3>2, <1>0, CreatedIs DEF F
    <3> QED BY <3>1, <3>2
  <2>8. ASSUME NEW k \in Changed(S), k[1] # x PROVE FALSE
    <3>1. k \in Cells
      BY <1>2
    <3>2. S[k] = stored[k]
      BY <2>3, <2>5, <2>7, <2>8, <3>1
    <3>3. k[2] = "members"
      BY <3>2, ChangedIs
    <3>4. page = "team"
      BY <1>1, <3>1, <3>3, MembersAreOfTags
    <3>5. \A r \in Rows : S[<<r, "tags">>] = stored[<<r, "tags">>]
      BY <2>6, <2>7, <3>4
    <3> QED BY <3>3, <3>5, SameTagsSameCounts
  <2> QED BY <1>2, <2>1, <2>2, <2>8
<1>9. CASE c.op = "createRole"
  <2>1. page = "team" /\ x \in Tags /\ Reads(c, x) = {x} \X {"there", "members"}
    <3>1. page = "team"
      BY <1>1, <1>9, OpsAre
    <3>2. x \in Tags
      BY <1>9, GivenIs
    <3>3. Reads(c, x) = {x} \X {"there", "members"}
      BY <1>1, <1>9, ReadsAre
    <3> QED BY <3>1, <3>2, <3>3
  <2>2. /\ \A r \in Rows : <<r, "tags">> \in Cells
        /\ <<x, "there">> \in Cells
    BY <1>1, <2>1, RowCellsAre, Fields
  <2>3. \A k \in Cells : k # <<x, "there">> => S[k] = stored[k]
    BY <1>1, <1>9, <2>2, SetIs, <1>0
  <2>4. \A r \in Rows : S[<<r, "tags">>] = stored[<<r, "tags">>]
    BY <2>2, <2>3
  <2>5. \A k \in Changed(S) : k[2] # "members"
    BY <2>4, SameTagsSameCounts
  <2>6. Changed(S) \subseteq {<<x, "there">>}
    BY <1>2, <2>3, <2>5, ChangedIs
  <2> QED BY <2>1, <2>6
<1>10. CASE c.op = "deleteRole"
  <2>1. page = "team" /\ c.on \in Tags /\ Reads(c, x) = {c.on} \X {"there", "members"}
    BY <1>1, <1>10, OpsAre, ReadsAre DEF Asks, ArgFits
  <2>2. \A r \in Rows : <<r, "tags">> \in Cells /\ r # c.on
    BY <1>1, <2>1, RowCellsAre, Fields
  <2>3. \A k \in Cells : S[k] = IF k[1] = c.on THEN Blank(k[2])
                                ELSE IF k[2] = "tags" THEN stored[k] \ {c.on} ELSE stored[k]
    BY <1>10, <1>0 DEF TagRemoved, Without
  <2>4. \A r \in Rows : S[<<r, "tags">>] = stored[<<r, "tags">>] \ {c.on}
    BY <2>2, <2>3
  <2>5. ASSUME NEW k \in Changed(S), k[1] # c.on PROVE k \in TagCells
    <3>1. k \in Cells
      BY <1>2
    <3>2. CASE k[2] = "members"
      <4>1. PICK r \in Rows : ~(k[1] \in S[<<r, "tags">>] <=> k[1] \in stored[<<r, "tags">>])
        BY <2>5, <3>2, CountedTags
      <4> QED BY <2>4, <2>5, <4>1
    <3>3. CASE k[2] # "members"
      <4>1. S[k] # stored[k]
        BY <3>3, ChangedIs
      <4> QED BY <2>3, <2>5, <3>1, <4>1 DEF TagCells
    <3> QED BY <3>2, <3>3
  <2>6. ASSUME NEW k \in Changed(S), k[1] = c.on PROVE k \in Reads(c, x)
    <3>1. k \in Cells
      BY <1>2
    <3>2. k = <<k[1], k[2]>> /\ k[2] \in {"there", "members"}
      BY <1>1, <2>1, <2>6, <3>1, CellsAre
    <3> QED BY <2>1, <2>6, <3>2
  <2> QED BY <1>e, <1>10, <2>5, <2>6
<1>11. CASE c.op \in {"send", "pool", "editRole"}
  BY <1>11, <1>0, SameChangesNothing
<1>12. CASE c.op \in {"allocatedAmount", "decide", "proof"}
  <2>1. Again(c) = Cells
    BY <1>1, <1>12, OpsAre DEF Again, LoadsAgain
  <2> QED BY <1>2, <2>1
<1>13. CASE c.op \in Switches
  <2>1. c.on \in Rows /\ c.op \in FieldsOf[page] /\ c.op # "tags"
    BY <1>1, <1>13, OpsAre DEF Asks, ArgFits, Switches
  <2>2. Changed(S) \subseteq {<<c.on, c.op>>}
    <3>1. Changed(Set(<<c.on, c.op>>, c.arg)) \subseteq {<<c.on, c.op>>}
      BY <2>1, SetChanges
    <3> QED BY <1>0, <1>13, <3>1
  <2>3. CASE page \in {"finance", "account"}
    BY <1>2, <2>3 DEF Again, LoadsAgain, Asks
  <2>4. CASE page \notin {"finance", "account"}
    BY <1>1, <1>13, <2>2, <2>4, ReadsAre
  <2> QED BY <2>3, <2>4
<1> QED BY <1>1, <1>3, <1>4, <1>5, <1>6, <1>7, <1>8, <1>9, <1>10, <1>11, <1>12, <1>13, OpsAre

(* A tag that has gone does not come back. *)
LEMMA GoneForGood ==
    ASSUME Whole, page = "team", NEW c, Asks(c), Accepts(c), NEW x \in Given(c),
           NEW t \in Tags \cap born, stored[<<t, "there">>] = 0
    PROVE  After(c, x)[<<t, "there">>] = 0
<1> DEFINE S == After(c, x)
           k == <<t, "there">>
<1>1. page \in Pages /\ k \in Cells /\ k[1] = t /\ k[2] = "there" /\ t \notin Rows
      /\ DOMAIN stored = Cells /\ stored[k] = 0
  BY RowCellsAre DEF Whole, Sound
<1>2. ASSUME NEW r \in Rows, NEW f \in FieldsOf[page], NEW v
      PROVE  Set(<<r, f>>, v)[k] = 0 /\ DOMAIN Set(<<r, f>>, v) = Cells
  <2>1. <<r, f>> \in Cells /\ <<r, f>> # k
    BY <1>1, RowCellsAre
  <2> QED BY <1>1, <2>1, SetIs
<1>3. ASSUME NEW U, U[k] = 0, DOMAIN U = Cells, NEW r \in Rows PROVE Assigned(U, r)[k] = 0
  <2>1. <<r, "tags">> # k
    BY <1>1
  <2> QED BY <1>1, <1>3, <2>1 DEF Assigned
<1>4. CASE c.op = "role"
  <2>1. c.on \in Rows /\ "role" \in FieldsOf[page]
    BY <1>1, <1>4, Fields DEF Asks, ArgFits
  <2>2. RoleSet(c.on, c.arg)[k] = 0
    BY <1>2, <1>3, <2>1 DEF RoleSet
  <2> QED BY <1>4, <2>2, AfterIs
<1>5. CASE c.op \in {"tags", "teamLead"} \cup Switches
  <2>1. c.on \in Rows /\ c.op \in FieldsOf[page]
    BY <1>1, <1>5, Fields, OpsAre DEF Asks, ArgFits
  <2>2. \E v : S = Set(<<c.on, c.op>>, v)
    BY <1>5, AfterIs
  <2> QED BY <1>2, <2>1, <2>2
<1>6. CASE c.op = "remove"
  <2>1. c.on \in Rows /\ S = Removed(c.on)
    BY <1>6, AfterIs DEF Asks, ArgFits
  <2>2. Removed(c.on)[k] = 0
    BY <1>1, <2>1 DEF Removed
  <2> QED BY <2>1, <2>2
<1>7. CASE c.op = "create"
  <2>1. x \in Rows
    BY <1>7, GivenIs
  <2>2. Fresh(x)[k] = 0 /\ DOMAIN Fresh(x) = Cells
    BY <1>1, <2>1 DEF Fresh
  <2> DEFINE F == Fresh(x)
             U == [F EXCEPT ![<<x, "role">>] = c.arg]
  <2>3. U[k] = 0 /\ DOMAIN U = Cells
    <3> HIDE DEF F
    <3> QED BY <1>1, <2>1, <2>2 DEF F
  <2> HIDE DEF U
  <2>4. S = Assigned(U, x)
    BY <1>7, AfterIs, CreatedIs DEF U
  <2> QED BY <1>3, <2>1, <2>3, <2>4
<1>8. CASE c.op = "createRole"
  <2>1. x \notin born /\ x \in Tags /\ S = Set(<<x, "there">>, 1)
    BY <1>8, GivenIs, AfterIs
  <2>2. <<x, "there">> \in Cells /\ <<x, "there">> # k
    BY <2>1, RowCellsAre
  <2>3. Set(<<x, "there">>, 1)[k] = stored[k]
    BY <1>1, <2>2, SetIs
  <2> QED BY <1>1, <2>1, <2>3
<1>9. CASE c.op = "deleteRole"
  <2>1. TagRemoved(stored, c.on)[k] = 0
    BY <1>1, BlanksAre DEF TagRemoved
  <2> QED BY <1>9, <2>1, AfterIs
<1>10. CASE c.op \in {"send", "pool", "editRole"}
  BY <1>1, <1>10, AfterIs
<1>11. c.op \notin {"allocatedAmount", "decide", "proof"}
  BY <1>1, OpsAre
<1> QED BY <1>1, <1>4, <1>5, <1>6, <1>7, <1>8, <1>9, <1>10, <1>11, OpsAre

-----------------------------------------------------------------------------
(* Calls *)

Someone == Rows \cup Tags \cup {NoRow}

AnyValue == BOOLEAN \cup Values("role") \cup Values("teamLead") \cup (SUBSET Tags)
            \cup Nat \cup [tag : Tags, ids : SUBSET Tags]

Answers == {<<>>} \cup UNION {[K -> AnyValue] : K \in SUBSET Cells}

CallRec == [op : Ops, on : Someone, arg : AnyValue, live : BOOLEAN,
            state : {"asked", "served", "refused"}, answer : Answers,
            late : SUBSET Cells, due : SUBSET Cells, clean : BOOLEAN]

CallFits(c) ==
    /\ c.op \in OpsOf[page] \cup {"load"}
    /\ c.state # "refused" => ArgFits(c)
    /\ DOMAIN c.answer \subseteq Cells
    /\ \A k \in DOMAIN c.answer : /\ c.answer[k] \in Values(k[2])
                                  /\ k[2] = "there" => c.answer[k] # 2
    /\ c.state = "refused" => c.answer = <<>>

LEMMA NoAnswer == DOMAIN <<>> = {} /\ <<>> \in Answers
BY DEF Answers

LEMMA ValuesAny == \A f : Values(f) \subseteq AnyValue
<1> SUFFICES ASSUME NEW f PROVE Values(f) \subseteq AnyValue
  OBVIOUS
<1>1. Values(f) \in {0..2, {"EMPLOYEE", "SYSTEM_ADMIN"}, Rows \cup {NoRow}, SUBSET Tags,
                     0..Cardinality(Rows), BOOLEAN}
  BY DEF Values
<1>2. 0..2 \subseteq Nat /\ 0..Cardinality(Rows) \subseteq Nat
  BY RowsCount
<1> QED BY <1>1, <1>2, ValuesAre DEF AnyValue

LEMMA NewCall ==
    ASSUME NEW op \in Ops, NEW x \in Someone, NEW v \in AnyValue
    PROVE  Call(op, x, v) \in CallRec
BY NoAnswer DEF Call, CallRec

LEMMA CallKept ==
    \A c \in CallRec :
      /\ c.op \in Ops /\ c.on \in Someone /\ c.arg \in AnyValue /\ c.live \in BOOLEAN
      /\ c.state \in {"asked", "served", "refused"} /\ c.answer \in Answers
      /\ c.late \subseteq Cells /\ c.due \subseteq Cells /\ c.clean \in BOOLEAN
BY DEF CallRec

LEMMA CallOf ==
    ASSUME page \in Pages, NEW c, CallFits(c)
    PROVE  /\ c.op \notin Fetches /\ c.state # "refused" => Asks(c)
           /\ c.op = "catalog" => page = "team"
           /\ c.op \in Ops
BY DEF CallFits, Asks, Fetches, OpsOf, FieldsOf, Ops

-----------------------------------------------------------------------------
(* Every click asks for one call *)

Seen == \E r \in Rows : shown[<<r, "there">>] > 0

(* A call as a click makes it: saves are asked for one at a time, and tags *)
(* from what is shown.                                                     *)
Clicked(c) ==
    /\ c \in CallRec /\ CallFits(c)
    /\ c.state = "asked" /\ c.live /\ c.due = {} /\ c.late = {} /\ c.answer = <<>>
    /\ c.op \notin Fetches \cup {"tags"} => Enabled(c.op, c.on)
    /\ c.op \notin Fetches /\ page = "team" => loaded \/ Seen
    /\ c.op = "tags" => /\ c.clean => UpToDate(c.on)
                        /\ shown[<<c.on, "tags">>] \ c.arg.ids \subseteq {c.arg.tag}
    /\ c.op \in Fetches => page = "request"

Click == \E c \in CallRec : Clicked(c) /\ Ask(c)

LEMMA SaveClicks ==
    ASSUME page \in Pages, NEW op \in OpsOf[page] \ (Fetches \cup {"tags"}), NEW x \in Someone,
           NEW v \in AnyValue, ArgFits(Call(op, x, v)), Save(op, x, v),
           page = "team" => loaded \/ Seen
    PROVE  Click
<1> DEFINE c == Call(op, x, v)
<1>1. op \in Ops
  BY DEF OpsOf, Ops, FieldsOf, Fetches
<1>2. c \in CallRec
  BY <1>1, NewCall
<1>3. /\ c.op = op /\ c.on = x /\ c.state = "asked" /\ c.live /\ c.due = {} /\ c.late = {}
      /\ c.answer = <<>>
  BY DEF Call
<1>4. ArgFits(c) /\ Ask(c) /\ Enabled(op, x)
  BY DEF Save
<1> HIDE DEF c
<1>5. CallFits(c)
  BY <1>3, <1>4, NoAnswer DEF CallFits
<1>6. Clicked(c)
  BY <1>2, <1>3, <1>5, <1>4 DEF Clicked
<1> QED BY <1>2, <1>4, <1>6 DEF Click

LEMMA TagsClick ==
    ASSUME page = "team", page \in Pages, NEW r \in Rows, NEW t \in Tags, NEW ids \in SUBSET Tags,
           ChangeTags(r, t, ids), shown[<<r, "there">>] > 0,
           shown[<<r, "tags">>] \ ids \subseteq {t}
    PROVE  Click
<1> DEFINE a == [tag |-> t, ids |-> ids]
           d == Call("tags", r, a)
           c == [d EXCEPT !.clean = UpToDate(r)]
<1>1. "tags" \in Ops /\ "tags" \in OpsOf[page] /\ "tags" \notin Fetches /\ a \in AnyValue
      /\ a \in [tag : Tags, ids : SUBSET Tags]
  BY DEF OpsOf, Ops, Fetches, AnyValue
<1>2. d \in CallRec
  BY <1>1, NewCall DEF Someone
<1>3. /\ d.op = "tags" /\ d.on = r /\ d.arg = a /\ d.state = "asked" /\ d.live /\ d.due = {}
      /\ d.late = {} /\ d.answer = <<>>
  BY DEF Call
<1>4. Ask(c)
  BY DEF ChangeTags
<1>5. UpToDate(r) \in BOOLEAN
  BY DEF UpToDate
<1>6. a.tag = t /\ a.ids = ids
  OBVIOUS
<1> HIDE DEF d, a
<1>7. c \in CallRec
  BY <1>2, <1>5 DEF CallRec
<1>8. /\ c.op = "tags" /\ c.on = r /\ c.arg = a /\ c.state = "asked" /\ c.live /\ c.due = {}
      /\ c.late = {} /\ c.answer = <<>> /\ c.clean = UpToDate(r)
  BY <1>2, <1>3 DEF CallRec
<1> HIDE DEF c
<1>9. ArgFits(c)
  BY <1>1, <1>8 DEF ArgFits, Fetches, Switches
<1>10. CallFits(c)
  BY <1>1, <1>8, <1>9, NoAnswer DEF CallFits
<1>11. Clicked(c)
  BY <1>1, <1>6, <1>7, <1>8, <1>10 DEF Clicked, Seen
<1> QED BY <1>4, <1>7, <1>11 DEF Click

(* What the saves of a row, of a tag and of the page carry. *)
LEMMA RowArgs ==
    ASSUME NEW r \in Rows
    PROVE  /\ \A v \in Values("role") : ArgFits(Call("role", r, v)) /\ v \in AnyValue
           /\ \A l \in Values("teamLead") : ArgFits(Call("teamLead", r, l)) /\ l \in AnyValue
           /\ \A op \in Switches \cup {"allocatedAmount", "pool", "remove"} : \A b \in BOOLEAN :
                ArgFits(Call(op, r, b)) /\ b \in AnyValue
           /\ \A op \in {"decide", "proof"} : \A v \in 1..2 :
                ArgFits(Call(op, r, v)) /\ v \in AnyValue
           /\ r \in Someone
BY DEF ArgFits, Call, AnyValue, Fetches, Switches, Someone

LEMMA TagArgs ==
    ASSUME NEW t \in Tags
    PROVE  /\ ArgFits(Call("editRole", t, TRUE)) /\ ArgFits(Call("deleteRole", t, TRUE))
           /\ t \in Someone
BY DEF ArgFits, Call, Fetches, Switches, Someone

LEMMA PageArgs ==
    /\ \A v \in Values("role") : ArgFits(Call("create", NoRow, v)) /\ v \in AnyValue
    /\ ArgFits(Call("createRole", NoRow, TRUE)) /\ ArgFits(Call("send", NoRow, TRUE))
    /\ ArgFits(Call("load", NoRow, FALSE))
    /\ NoRow \in Someone /\ TRUE \in AnyValue /\ FALSE \in AnyValue
    /\ "EMPLOYEE" \in Values("role") /\ "SYSTEM_ADMIN" \in Values("role")
BY ValuesAre DEF ArgFits, Call, AnyValue, Fetches, Switches, Someone

(* What is shown has values of its fields. *)
ShownFits ==
    /\ DOMAIN shown = Cells
    /\ \A k \in Cells : shown[k] \in Values(k[2])

LEMMA FlippedFits ==
    ASSUME ShownFits, page \in Pages, NEW r \in Rows, NEW f \in FieldsOf[page]
    PROVE  Flipped(r, f) \in BOOLEAN
BY DEF Flipped

LEMMA TeamOps ==
    ASSUME page = "team"
    PROVE  OpsOf[page] \ (Fetches \cup {"tags"}) =
             {"role", "department", "teamLead", "isOnLeave", "isActive", "remove",
              "create", "createRole", "editRole", "deleteRole", "send", "pool"}
BY DEF OpsOf, Fetches

LEMMA TeamClicks ==
    ASSUME page \in Pages, ShownFits, TeamClick, ~SelectView
    PROVE  Click
<1> USE DEF On, Team
<1>1. ASSUME NEW r \in Rows, NEW v \in Values("role"), ApplyRoleChange(r, v) PROVE Click
  <2>1. Save("role", r, v) /\ page = "team" /\ Seen
    BY <1>1 DEF ApplyRoleChange, Seen
  <2>2. "role" \in OpsOf[page] \ (Fetches \cup {"tags"})
    BY <2>1, TeamOps
  <2>3. ArgFits(Call("role", r, v)) /\ v \in AnyValue /\ r \in Someone
    BY RowArgs
  <2> QED BY <2>1, <2>2, <2>3, SaveClicks
<1>2. ASSUME NEW r \in Rows, ApplyDepartmentChange(r) PROVE Click
  <2> DEFINE v == Flipped(r, "department")
  <2>1. Save("department", r, v) /\ page = "team" /\ Seen
    BY <1>2 DEF ApplyDepartmentChange, Seen
  <2>2. "department" \in OpsOf[page] \ (Fetches \cup {"tags"})
    BY <2>1, TeamOps
  <2>3. v \in BOOLEAN /\ "department" \in Switches
    BY DEF Flipped, Switches
  <2> HIDE DEF v
  <2>4. ArgFits(Call("department", r, v)) /\ v \in AnyValue /\ r \in Someone
    BY <2>3, RowArgs
  <2> QED BY <2>1, <2>2, <2>4, SaveClicks
<1>3. ASSUME NEW r \in Rows, NEW l \in Values("teamLead"), ApplyTeamLeadChange(r, l) PROVE Click
  <2>1. Save("teamLead", r, l) /\ page = "team" /\ Seen
    BY <1>3 DEF ApplyTeamLeadChange, Seen
  <2>2. "teamLead" \in OpsOf[page] \ (Fetches \cup {"tags"})
    BY <2>1, TeamOps
  <2>3. ArgFits(Call("teamLead", r, l)) /\ l \in AnyValue /\ r \in Someone
    BY RowArgs
  <2> QED BY <2>1, <2>2, <2>3, SaveClicks
<1>4. ASSUME NEW r \in Rows, ApplyLeaveChange(r) PROVE Click
  <2> DEFINE v == Flipped(r, "isOnLeave")
  <2>1. Save("isOnLeave", r, v) /\ page = "team" /\ Seen
    BY <1>4 DEF ApplyLeaveChange, Seen
  <2>2. "isOnLeave" \in OpsOf[page] \ (Fetches \cup {"tags"})
    BY <2>1, TeamOps
  <2>3. v \in BOOLEAN /\ "isOnLeave" \in Switches
    BY DEF Flipped, Switches
  <2> HIDE DEF v
  <2>4. ArgFits(Call("isOnLeave", r, v)) /\ v \in AnyValue /\ r \in Someone
    BY <2>3, RowArgs
  <2> QED BY <2>1, <2>2, <2>4, SaveClicks
<1>5. ASSUME NEW r \in Rows, NEW t \in Tags, AddTag(r, t) PROVE Click
  <2>1. /\ page = "team" /\ shown[<<r, "there">>] > 0
        /\ ChangeTags(r, t, shown[<<r, "tags">>] \cup {t})
    BY <1>5 DEF AddTag
  <2>2. shown[<<r, "tags">>] \in SUBSET Tags
    BY <2>1, RowCellsAre, Fields, ValuesAre DEF ShownFits
  <2>3. shown[<<r, "tags">>] \cup {t} \in SUBSET Tags
        /\ shown[<<r, "tags">>] \ (shown[<<r, "tags">>] \cup {t}) \subseteq {t}
    BY <2>2
  <2> QED BY <2>1, <2>3, TagsClick
<1>6. ASSUME NEW r \in Rows, NEW t \in Tags, RemoveTag(r, t) PROVE Click
  <2>1. /\ page = "team" /\ shown[<<r, "there">>] > 0
        /\ ChangeTags(r, t, shown[<<r, "tags">>] \ {t})
    BY <1>6 DEF RemoveTag, Without
  <2>2. shown[<<r, "tags">>] \in SUBSET Tags
    BY <2>1, RowCellsAre, Fields, ValuesAre DEF ShownFits
  <2>3. shown[<<r, "tags">>] \ {t} \in SUBSET Tags
        /\ shown[<<r, "tags">>] \ (shown[<<r, "tags">>] \ {t}) \subseteq {t}
    BY <2>2
  <2> QED BY <2>1, <2>3, TagsClick
<1>7. ASSUME NEW r \in Rows, ConfirmBlockToggle(r) PROVE Click
  <2> DEFINE v == Flipped(r, "isActive")
  <2>1. Save("isActive", r, v) /\ page = "team" /\ Seen
    BY <1>7 DEF ConfirmBlockToggle, Seen
  <2>2. "isActive" \in OpsOf[page] \ (Fetches \cup {"tags"})
    BY <2>1, TeamOps
  <2>3. v \in BOOLEAN /\ "isActive" \in Switches
    BY DEF Flipped, Switches
  <2> HIDE DEF v
  <2>4. ArgFits(Call("isActive", r, v)) /\ v \in AnyValue /\ r \in Someone
    BY <2>3, RowArgs
  <2> QED BY <2>1, <2>2, <2>4, SaveClicks
<1>8. ASSUME NEW r \in Rows, ConfirmRemove(r) PROVE Click
  <2>1. Save("remove", r, TRUE) /\ page = "team" /\ Seen
    BY <1>8 DEF ConfirmRemove, Seen
  <2>2. "remove" \in OpsOf[page] \ (Fetches \cup {"tags"})
    BY <2>1, TeamOps
  <2>3. ArgFits(Call("remove", r, TRUE)) /\ TRUE \in AnyValue /\ r \in Someone
    BY RowArgs
  <2> QED BY <2>1, <2>2, <2>3, SaveClicks
<1>9. ASSUME NEW r \in Rows, RegisterDepartment(r) PROVE Click
  <2>1. Save("pool", r, TRUE) /\ page = "team" /\ Seen
    BY <1>9 DEF RegisterDepartment, Seen
  <2>2. "pool" \in OpsOf[page] \ (Fetches \cup {"tags"})
    BY <2>1, TeamOps
  <2>3. ArgFits(Call("pool", r, TRUE)) /\ TRUE \in AnyValue /\ r \in Someone
    BY RowArgs
  <2> QED BY <2>1, <2>2, <2>3, SaveClicks
<1>10. ASSUME NEW v \in Values("role"), HandleCreate(v) PROVE Click
  <2>1. Save("create", NoRow, v) /\ page = "team" /\ loaded
    BY <1>10 DEF HandleCreate
  <2>2. "create" \in OpsOf[page] \ (Fetches \cup {"tags"})
    BY <2>1, TeamOps
  <2> QED BY <2>1, <2>2, PageArgs, SaveClicks
<1>11. ASSUME CreateRole PROVE Click
  <2>1. Save("createRole", NoRow, TRUE) /\ page = "team" /\ loaded
    BY <1>11 DEF CreateRole
  <2>2. "createRole" \in OpsOf[page] \ (Fetches \cup {"tags"})
    BY <2>1, TeamOps
  <2> QED BY <2>1, <2>2, PageArgs, SaveClicks
<1>12. ASSUME NEW t \in Tags, EditRole(t) PROVE Click
  <2>1. Save("editRole", t, TRUE) /\ page = "team" /\ loaded
    BY <1>12 DEF EditRole
  <2>2. "editRole" \in OpsOf[page] \ (Fetches \cup {"tags"})
    BY <2>1, TeamOps
  <2> QED BY <2>1, <2>2, TagArgs, PageArgs, SaveClicks
<1>13. ASSUME NEW t \in Tags, DeleteRole(t) PROVE Click
  <2>1. Save("deleteRole", t, TRUE) /\ page = "team" /\ loaded
    BY <1>13 DEF DeleteRole
  <2>2. "deleteRole" \in OpsOf[page] \ (Fetches \cup {"tags"})
    BY <2>1, TeamOps
  <2> QED BY <2>1, <2>2, TagArgs, PageArgs, SaveClicks
<1>14. ASSUME SendBroadcast PROVE Click
  <2>1. Save("send", NoRow, TRUE) /\ page = "team" /\ loaded
    BY <1>14 DEF SendBroadcast
  <2>2. "send" \in OpsOf[page] \ (Fetches \cup {"tags"})
    BY <2>1, TeamOps
  <2> QED BY <2>1, <2>2, PageArgs, SaveClicks
<1> QED BY <1>1, <1>2, <1>3, <1>4, <1>5, <1>6, <1>7, <1>8, <1>9, <1>10, <1>11, <1>12, <1>13,
           <1>14 DEF TeamClick

LEMMA RowSave ==
    ASSUME page \in Pages, page # "team", NEW r \in Rows, NEW b \in BOOLEAN,
           NEW op \in Switches \cup {"allocatedAmount", "remove"}, op \in OpsOf[page], Save(op, r, b)
    PROVE  Click
<1>1. op \in OpsOf[page] \ (Fetches \cup {"tags"})
  BY DEF Switches, Fetches
<1>2. ArgFits(Call(op, r, b)) /\ b \in AnyValue /\ r \in Someone
  BY RowArgs
<1> QED BY <1>1, <1>2, SaveClicks

LEMMA PageSave ==
    ASSUME page \in Pages, page # "team", "create" \in OpsOf[page],
           NEW v \in Values("role"), Save("create", NoRow, v)
    PROVE  Click
<1>1. "create" \in OpsOf[page] \ (Fetches \cup {"tags"})
  BY DEF Fetches
<1> QED BY <1>1, PageArgs, SaveClicks

LEMMA PlatformClicks ==
    ASSUME page \in Pages, ShownFits, PlatformClick
    PROVE  Click
<1>1. ASSUME NEW r \in Rows, page \in {"tenants", "admins", "tenantUsers"}, ToggleActive(r) PROVE Click
  <2> DEFINE v == Flipped(r, "isActive")
  <2>1. Save("isActive", r, v) /\ v \in BOOLEAN
    BY <1>1 DEF ToggleActive, Flipped
  <2>2. "isActive" \in OpsOf[page] /\ page # "team" /\ "isActive" \in Switches
    BY <1>1 DEF OpsOf, Switches
  <2> HIDE DEF v
  <2> QED BY <2>1, <2>2, RowSave
<1>2. ASSUME NEW r \in Rows, page \in {"tenants", "admins", "tenantUsers"}, Save("remove", r, TRUE)
      PROVE  Click
  <2>1. "remove" \in OpsOf[page] /\ page # "team"
    BY <1>2 DEF OpsOf
  <2> QED BY <1>2, <2>1, RowSave
<1>3. ASSUME NEW v \in Values("role"), page \in {"tenants", "admins", "tenantUsers"}, Save("create", NoRow, v)
      PROVE  Click
  <2>1. "create" \in OpsOf[page] /\ page # "team"
    BY <1>3 DEF OpsOf
  <2> QED BY <1>3, <2>1, PageSave
<1>4. ASSUME NEW r \in Rows, SaveAccount(r) PROVE Click
  <2> DEFINE v == Flipped(r, "name")
  <2>1. Save("name", r, v) /\ v \in BOOLEAN /\ page = "account"
    BY <1>4 DEF SaveAccount, Flipped, On
  <2>2. "name" \in OpsOf[page] /\ page # "team" /\ "name" \in Switches
    BY <2>1 DEF OpsOf, Switches
  <2> HIDE DEF v
  <2> QED BY <2>1, <2>2, RowSave
<1>5. ASSUME NEW r \in Rows,
             ToggleTenant(r) \/ ToggleAdmin(r) \/ ToggleTenantUser(r)
      PROVE  Click
  BY <1>1, <1>5 DEF ToggleTenant, ToggleAdmin, ToggleTenantUser, On
<1>6. ASSUME NEW r \in Rows, DeleteTenant(r) \/ DeleteAdmin(r) \/ RemoveTenantAdmin(r) PROVE Click
  BY <1>2, <1>6 DEF DeleteTenant, DeleteAdmin, RemoveTenantAdmin, On
<1>7. ASSUME CreateTenant \/ CreateAdmin \/ CreateTenantAdmin PROVE Click
  BY <1>3, <1>7, PageArgs DEF CreateTenant, CreateAdmin, CreateTenantAdmin
<1> QED BY <1>4, <1>5, <1>6, <1>7 DEF PlatformClick

LEMMA OtherClicks ==
    ASSUME page \in Pages, ShownFits, OtherClick
    PROVE  Click
<1>1. ASSUME NEW r \in Rows, NEW f \in Switches \cup {"allocatedAmount"}, f \in OpsOf[page],
             page # "team", Save(f, r, Flipped(r, f))
      PROVE  Click
  <2> DEFINE v == Flipped(r, f)
  <2>1. Save(f, r, v) /\ v \in BOOLEAN
    BY <1>1 DEF Flipped
  <2> HIDE DEF v
  <2> QED BY <1>1, <2>1, RowSave
<1>2. ASSUME NEW r \in Rows, UpsertBudget(r) \/ RenameBudget(r) PROVE Click
  BY <1>1, <1>2 DEF UpsertBudget, RenameBudget, On, OpsOf, Switches
<1>3. ASSUME NEW r \in Rows, DeleteBudget(r) PROVE Click
  BY <1>3, RowSave DEF DeleteBudget, On, OpsOf
<1>4. ASSUME NEW r \in Rows, RevokeDelegation(r) PROVE Click
  BY <1>4, RowSave DEF RevokeDelegation, On, OpsOf, Switches
<1>5. ASSUME NEW r \in Rows, SaveDetails(r) \/ ToggleAvailability(r) PROVE Click
  BY <1>1, <1>5 DEF SaveDetails, ToggleAvailability, On, OpsOf, Switches
<1>6. ASSUME NEW r \in Rows, ChangePassword(r) \/ UnlinkSlack(r) PROVE Click
  <2>1. CASE ChangePassword(r)
    BY <2>1, RowSave DEF ChangePassword, On, OpsOf, Switches
  <2>2. CASE UnlinkSlack(r)
    BY <2>2, RowSave DEF UnlinkSlack, On, OpsOf, Switches
  <2> QED BY <1>6, <2>1, <2>2
<1>7. ASSUME NEW r \in Rows, NEW op \in {"decide", "proof"}, NEW v \in 1..2, page = "request",
             Save(op, r, v)
      PROVE  Click
  <2>1. op \in OpsOf[page] \ (Fetches \cup {"tags"})
    BY <1>7 DEF OpsOf, Fetches
  <2>2. ArgFits(Call(op, r, v)) /\ v \in AnyValue /\ r \in Someone
    BY RowArgs
  <2> QED BY <1>7, <2>1, <2>2, SaveClicks
<1>8. ASSUME NEW r \in Rows, Decide(r) \/ AttachProof(r) PROVE Click
  BY <1>7, <1>8 DEF Decide, AttachProof, On
<1>9. ASSUME GrantDelegation \/ UploadPolicy PROVE Click
  <2>1. page \in {"delegations", "policies"} /\ Save("create", NoRow, "EMPLOYEE")
    BY <1>9 DEF GrantDelegation, UploadPolicy
  <2>2. "create" \in OpsOf[page] /\ page # "team"
    BY <2>1 DEF OpsOf
  <2> QED BY <2>1, <2>2, PageArgs, PageSave
<1>10. ASSUME RequestChanged PROVE Click
  <2> DEFINE c == Call("load", NoRow, FALSE)
  <2>1. page = "request" /\ Ask(c)
    BY <1>10 DEF RequestChanged
  <2>2. "load" \in Ops /\ "load" \in Fetches
    BY DEF Ops, Fetches
  <2>3. c \in CallRec /\ ArgFits(c)
    BY <2>2, NewCall, PageArgs
  <2>4. /\ c.op = "load" /\ c.state = "asked" /\ c.live /\ c.due = {} /\ c.late = {}
        /\ c.answer = <<>>
    BY DEF Call
  <2> HIDE DEF c
  <2>5. CallFits(c)
    BY <2>3, <2>4, NoAnswer DEF CallFits
  <2>6. Clicked(c)
    BY <2>1, <2>2, <2>3, <2>4, <2>5 DEF Clicked
  <2> QED BY <2>1, <2>3, <2>6 DEF Click
<1> QED BY <1>2, <1>3, <1>4, <1>5, <1>6, <1>8, <1>9, <1>10 DEF OtherClick

LEMMA Clicks ==
    ASSUME page \in Pages, ShownFits, TeamClick \/ PlatformClick \/ OtherClick
    PROVE  SelectView \/ Click
BY TeamClicks, PlatformClicks, OtherClicks

-----------------------------------------------------------------------------
(* The page and its calls are well formed *)

(* A row is shown twice only if an answer appended it again. *)
ShownOk(S, B) ==
    /\ DOMAIN S = Cells
    /\ \A k \in Cells : S[k] \in Values(k[2])
    /\ \A k \in Cells : k[2] = "there" /\ S[k] = 2 => k[1] \in B

CallsOk(q) == q \in Seq(CallRec) /\ \A j \in DOMAIN q : CallFits(q[j])

(* A row or a tag that was created and is yet to be shown. *)
Brand(c) == Appends(c) /\ c.state = "served"

(* It is appended once. *)
AppendedOk(q, S, B) ==
    \A i \in DOMAIN q : Brand(q[i]) =>
      /\ q[i].on \in B \cap (Rows \cup Tags)
      /\ S[<<q[i].on, "there">>] # 2
      /\ \A k \in DOMAIN q[i].answer : k[2] = "there" => k[1] = q[i].on /\ q[i].answer[k] = 1
      /\ \A j \in DOMAIN q : Brand(q[j]) /\ q[j].on = q[i].on => j = i

RestOk(B, l, o, b, K) ==
    /\ B \subseteq Rows \cup Tags
    /\ l \in BOOLEAN /\ o \in BOOLEAN
    /\ b \subseteq Ops \X Someone
    /\ K \subseteq Cells

TypeInv ==
    /\ page \in Pages
    /\ Sound(stored, born)
    /\ ShownOk(shown, born)
    /\ CallsOk(calls)
    /\ AppendedOk(calls, shown, born)
    /\ RestOk(born, loaded, option, busy, behind)

LEMMA TypeInvIs ==
    ASSUME TypeInv
    PROVE  /\ Whole /\ ShownFits /\ calls \in Seq(CallRec) /\ page \in Pages
           /\ \A j \in DOMAIN calls : calls[j] \in CallRec /\ CallFits(calls[j])
<1>1. calls \in Seq(CallRec) => \A j \in DOMAIN calls : calls[j] \in CallRec
  OBVIOUS
<1> QED BY <1>1 DEF TypeInv, Whole, ShownFits, ShownOk, CallsOk

LEMMA TypeOkFollows ==
    ASSUME TypeInv
    PROVE  TypeOK
<1>1. /\ page \in Pages
      /\ DOMAIN stored = Cells /\ DOMAIN shown = Cells
      /\ \A k \in Cells : stored[k] \in Values(k[2]) /\ shown[k] \in Values(k[2])
  BY DEF TypeInv, Sound, ShownOk
<1>2. \A r \in Rows : stored[<<r, "there">>] \in {0, 1}
  <2>1. \A r \in Rows : <<r, "there">> \in Cells
    BY RowCellsAre
  <2> QED BY <2>1 DEF TypeInv, Sound
<1>3. page = "team" => \A r \in Rows :
         /\ stored[<<r, "tags">>] \subseteq TagsIn(stored)
         /\ stored[<<r, "teamLead">>] \in RowsIn(stored) \cup {NoRow}
  BY DEF TypeInv, Sound
<1>4. /\ born \subseteq Rows \cup Tags
      /\ {loaded, option} \subseteq BOOLEAN
      /\ busy \subseteq Ops \X (Rows \cup Tags \cup {NoRow})
      /\ behind \subseteq Cells
  BY DEF TypeInv, RestOk, Someone
<1>5. ASSUME NEW i \in DOMAIN calls
      PROVE  /\ calls[i].op \in Ops
             /\ calls[i].state \in {"asked", "served", "refused"}
             /\ calls[i].late \cup calls[i].due \subseteq Cells
             /\ \A k \in DOMAIN calls[i].answer : calls[i].answer[k] \in Values(k[2])
  <2>1. calls[i] \in CallRec /\ CallFits(calls[i])
    BY TypeInvIs
  <2> QED BY <2>1 DEF CallRec, CallFits
<1> QED BY <1>1, <1>2, <1>3, <1>4, <1>5 DEF TypeOK

LEMMA PageStays ==
    ASSUME page' = page
    PROVE  /\ Cells' = Cells /\ CatalogCells' = CatalogCells /\ UserCells' = UserCells
           /\ Answers' = Answers /\ CallRec' = CallRec
<1>1. /\ Cells' = Cells /\ CatalogCells' = CatalogCells /\ UserCells' = UserCells
  BY DEF Cells, UserCells, CatalogCells, RowCells
<1>2. Answers' = Answers
  BY <1>1 DEF Answers
<1> QED BY <1>1, <1>2 DEF CallRec

LEMMA TypeThen ==
    ASSUME page \in Pages, page' = page, Sound(stored', born'), ShownOk(shown', born'),
           CallsOk(calls'), AppendedOk(calls', shown', born'),
           RestOk(born', loaded', option', busy', behind')
    PROVE  TypeInv'
<1>1. Cells' = Cells /\ CallRec' = CallRec
  BY PageStays
<1>2. Sound(stored, born)'
  BY <1>1 DEF Sound, TagsIn, RowsIn
<1>3. ShownOk(shown, born)'
  BY <1>1 DEF ShownOk
<1>4. CallsOk(calls)'
  BY <1>1 DEF CallsOk, CallFits
<1>5. AppendedOk(calls, shown, born)'
  BY DEF AppendedOk
<1>6. RestOk(born, loaded, option, busy, behind)'
  BY <1>1 DEF RestOk
<1> QED BY <1>2, <1>3, <1>4, <1>5, <1>6 DEF TypeInv

(* What others have in hand when the cells of K change. *)
Older(c, K) ==
    [c EXCEPT !.late  = @ \cup (K \cap DOMAIN c.answer),
              !.clean = @ /\ ~(c.op = "tags" /\ c.state = "asked" /\ <<c.on, "tags">> \in K)]

LEMMA OlderIs ==
    ASSUME NEW c \in CallRec, NEW K \in SUBSET Cells
    PROVE  /\ Older(c, K) \in CallRec
           /\ Older(c, K).op = c.op /\ Older(c, K).on = c.on /\ Older(c, K).arg = c.arg
           /\ Older(c, K).live = c.live /\ Older(c, K).state = c.state
           /\ Older(c, K).answer = c.answer /\ Older(c, K).due = c.due
           /\ Older(c, K).late = c.late \cup (K \cap DOMAIN c.answer)
           /\ Older(c, K).clean <=>
                c.clean /\ ~(c.op = "tags" /\ c.state = "asked" /\ <<c.on, "tags">> \in K)
<1>1. c.late \cup (K \cap DOMAIN c.answer) \in SUBSET Cells
  BY DEF CallRec
<1>2. (c.clean /\ ~(c.op = "tags" /\ c.state = "asked" /\ <<c.on, "tags">> \in K)) \in BOOLEAN
  OBVIOUS
<1> DEFINE l == c.late \cup (K \cap DOMAIN c.answer)
           b == c.clean /\ ~(c.op = "tags" /\ c.state = "asked" /\ <<c.on, "tags">> \in K)
<1>3. Older(c, K) = [c EXCEPT !.late = l, !.clean = b]
  BY DEF Older
<1> HIDE DEF l, b
<1>4. l \in SUBSET Cells /\ b \in BOOLEAN
  BY <1>1, <1>2 DEF l, b
<1>5. /\ [c EXCEPT !.late = l, !.clean = b] \in CallRec
      /\ [c EXCEPT !.late = l, !.clean = b].late = l
      /\ [c EXCEPT !.late = l, !.clean = b].clean = b
  BY <1>4 DEF CallRec
<1>6. /\ Older(c, K).op = c.op /\ Older(c, K).on = c.on /\ Older(c, K).arg = c.arg
      /\ Older(c, K).live = c.live /\ Older(c, K).state = c.state
      /\ Older(c, K).answer = c.answer /\ Older(c, K).due = c.due
  BY <1>3 DEF CallRec
<1> QED BY <1>3, <1>5, <1>6 DEF l, b

LEMMA AgedIs ==
    ASSUME NEW K, NEW i
    PROVE  /\ DOMAIN Aged(K, i) = DOMAIN calls
           /\ \A j \in DOMAIN calls : Aged(K, i)[j] = IF j = i THEN calls[j] ELSE Older(calls[j], K)
BY DEF Aged, Older

(* A sequence of as many calls. *)
LEMMA AsMany ==
    ASSUME calls \in Seq(CallRec), NEW q, q = [j \in DOMAIN calls |-> q[j]],
           \A j \in DOMAIN calls : q[j] \in CallRec
    PROVE  q \in Seq(CallRec) /\ DOMAIN q = DOMAIN calls
<1>1. DOMAIN calls = 1..Len(calls) /\ Len(calls) \in Nat
  OBVIOUS
<1>2. q \in [1..Len(calls) -> CallRec]
  BY <1>1
<1> QED BY <1>1, <1>2

LEMMA AppendedKept ==
    ASSUME AppendedOk(calls, shown, born), NEW q, NEW g, NEW S, NEW B, born \subseteq B,
           \A j \in DOMAIN q : Brand(q[j]) =>
             /\ g[j] \in DOMAIN calls /\ Brand(calls[g[j]])
             /\ q[j].on = calls[g[j]].on /\ q[j].answer = calls[g[j]].answer
             /\ S[<<q[j].on, "there">>] # 2,
           \A j, l \in DOMAIN q : Brand(q[j]) /\ Brand(q[l]) /\ g[j] = g[l] => j = l
    PROVE  AppendedOk(q, S, B)
<1> SUFFICES ASSUME NEW i \in DOMAIN q, Brand(q[i])
             PROVE  /\ q[i].on \in B \cap (Rows \cup Tags)
                    /\ S[<<q[i].on, "there">>] # 2
                    /\ \A k \in DOMAIN q[i].answer :
                         k[2] = "there" => k[1] = q[i].on /\ q[i].answer[k] = 1
                    /\ \A j \in DOMAIN q : Brand(q[j]) /\ q[j].on = q[i].on => j = i
  BY DEF AppendedOk
<1>1. g[i] \in DOMAIN calls /\ Brand(calls[g[i]]) /\ q[i].on = calls[g[i]].on
      /\ q[i].answer = calls[g[i]].answer
  OBVIOUS
<1>2. /\ calls[g[i]].on \in born \cap (Rows \cup Tags)
      /\ \A k \in DOMAIN calls[g[i]].answer :
           k[2] = "there" => k[1] = calls[g[i]].on /\ calls[g[i]].answer[k] = 1
      /\ \A l \in DOMAIN calls : Brand(calls[l]) /\ calls[l].on = calls[g[i]].on => l = g[i]
  BY <1>1 DEF AppendedOk
<1>3. ASSUME NEW j \in DOMAIN q, Brand(q[j]), q[j].on = q[i].on PROVE j = i
  <2>1. g[j] \in DOMAIN calls /\ Brand(calls[g[j]]) /\ calls[g[j]].on = calls[g[i]].on
    BY <1>1, <1>3
  <2>2. g[j] = g[i]
    BY <1>2, <2>1
  <2> QED BY <1>3, <2>2
<1> QED BY <1>1, <1>2, <1>3

LEMMA InitType ==
    ASSUME Init
    PROVE  TypeInv
<1>1. page \in Pages /\ DOMAIN stored = Cells /\ shown = Empty
  BY DEF Init
<1>2. PICK me \in InitRows :
         stored = [k \in Cells |->
           IF k[1] \in (IF page \in {"profile", "account", "request"} THEN {me} ELSE InitRows) \cup InitTags
           THEN New(k[2]) ELSE Blank(k[2])]
  BY DEF Init
<1> DEFINE there == IF page \in {"profile", "account", "request"} THEN {me} ELSE InitRows
<1>3. there \subseteq InitRows /\ (page = "team" => there = InitRows)
  OBVIOUS
<1>4. \A k \in Cells : stored[k] = IF k[1] \in there \cup InitTags THEN New(k[2]) ELSE Blank(k[2])
  BY <1>2
<1> HIDE DEF there
<1>5. \A k \in Cells : stored[k] \in Values(k[2]) /\ (k[2] = "there" => stored[k] \in {0, 1})
  BY <1>4, NewFits, BlankFits, NewAre, BlanksAre
<1>6. ASSUME page = "team"
      PROVE  /\ \A r \in Rows : stored[<<r, "tags">>] = {} /\ stored[<<r, "teamLead">>] = NoRow
             /\ \A r \in Rows \ born : stored[<<r, "there">>] = 0
             /\ \A t \in Tags \ born : stored[<<t, "there">>] = 0
  <2>1. /\ \A r \in Rows : /\ <<r, "tags">> \in Cells /\ <<r, "teamLead">> \in Cells
                           /\ <<r, "there">> \in Cells
        /\ \A t \in Tags : <<t, "there">> \in Cells
    BY <1>1, <1>6, RowCellsAre, Fields
  <2>2. born = InitRows \cup InitTags
    BY DEF Init
  <2>3. \A r \in Rows : stored[<<r, "tags">>] = {} /\ stored[<<r, "teamLead">>] = NoRow
    BY <1>4, <2>1, NewAre, BlanksAre
  <2>4. ASSUME NEW k \in Cells, k[2] = "there", k[1] \notin born PROVE stored[k] = 0
    BY <1>3, <1>4, <2>2, <2>4, BlanksAre
  <2>5. \A r \in Rows \ born : stored[<<r, "there">>] = 0
    BY <2>1, <2>4
  <2>6. \A t \in Tags \ born : stored[<<t, "there">>] = 0
    BY <2>1, <2>4
  <2> QED BY <2>3, <2>5, <2>6
<1>7. Sound(stored, born)
  BY <1>1, <1>5, <1>6 DEF Sound
<1>8. ShownOk(shown, born)
  <2>1. DOMAIN shown = Cells /\ \A k \in Cells : shown[k] = Blank(k[2])
    BY <1>1 DEF Empty
  <2> QED BY <2>1, BlankFits, BlanksAre DEF ShownOk
<1> DEFINE c == Call("load", NoRow, FALSE)
<1>9. calls = <<c>>
  BY DEF Init
<1>10. "load" \in Ops /\ "load" \in Fetches
  BY DEF Ops, Fetches
<1>11. c \in CallRec /\ ArgFits(c)
  BY <1>10, NewCall, PageArgs
<1>12. c.op = "load" /\ c.state = "asked" /\ c.answer = <<>>
  BY DEF Call
<1> HIDE DEF c
<1>13. calls \in Seq(CallRec) /\ \A j \in DOMAIN calls : calls[j] = c
  BY <1>9, <1>11
<1>14. CallsOk(calls)
  BY <1>11, <1>12, <1>13, NoAnswer DEF CallsOk, CallFits
<1>15. AppendedOk(calls, shown, born)
  BY <1>12, <1>13 DEF AppendedOk, Brand
<1>16. RestOk(born, loaded, option, busy, behind)
  BY DEF Init, RestOk
<1> QED BY <1>1, <1>7, <1>8, <1>14, <1>15, <1>16 DEF TypeInv

LEMMA AskType ==
    ASSUME TypeInv, NEW c \in CallRec, Clicked(c), Ask(c)
    PROVE  TypeInv'
<1>1. /\ calls \in Seq(CallRec) /\ CallFits(c) /\ c.state = "asked"
      /\ \A j \in DOMAIN calls : CallFits(calls[j])
  BY TypeInvIs DEF Clicked
<1>2. /\ calls' = Append(calls, c) /\ page' = page /\ stored' = stored /\ born' = born
      /\ shown' = shown /\ loaded' = loaded /\ option' = option /\ behind' = behind
  BY DEF Ask, server
<1>3. /\ calls' \in Seq(CallRec) /\ DOMAIN calls' = DOMAIN calls \cup {Len(calls) + 1}
      /\ calls'[Len(calls) + 1] = c /\ \A j \in DOMAIN calls : calls'[j] = calls[j]
  BY <1>1, <1>2, Added
<1>4. CallsOk(calls')
  BY <1>1, <1>3 DEF CallsOk
<1>5. AppendedOk(calls', shown', born')
  <2> DEFINE g == [j \in DOMAIN calls' |-> j]
  <2>1. ASSUME NEW j \in DOMAIN calls', Brand(calls'[j])
        PROVE  /\ g[j] \in DOMAIN calls /\ Brand(calls[g[j]])
               /\ calls'[j].on = calls[g[j]].on /\ calls'[j].answer = calls[g[j]].answer
               /\ shown'[<<calls'[j].on, "there">>] # 2
    <3>1. j \in DOMAIN calls /\ calls'[j] = calls[j]
      BY <1>1, <1>3, <2>1 DEF Brand
    <3> QED BY <1>2, <2>1, <3>1 DEF TypeInv, AppendedOk
  <2>2. \A j, l \in DOMAIN calls' : g[j] = g[l] => j = l
    OBVIOUS
  <2>3. AppendedOk(calls, shown, born) /\ born \subseteq born'
    BY <1>2 DEF TypeInv
  <2> HIDE DEF g
  <2> QED BY <2>1, <2>2, <2>3, AppendedKept
<1>6. RestOk(born', loaded', option', busy', behind')
  <2>1. busy' \subseteq Ops \X Someone
    <3>1. Flag(c.op, c.on) \in Ops \X Someone
      BY CallKept DEF Flag, Someone
    <3> QED BY <3>1 DEF Ask, Raised, TypeInv, RestOk
  <2> QED BY <1>2, <2>1 DEF TypeInv, RestOk
<1>7. Sound(stored', born') /\ ShownOk(shown', born') /\ page \in Pages
  BY <1>2 DEF TypeInv
<1> QED BY <1>2, <1>4, <1>5, <1>6, <1>7, TypeThen

(* Calls that change but for what they ask, carry and answered. *)
LEMMA MappedType ==
    ASSUME TypeInv, page' = page, shown' = shown, loaded' = loaded, option' = option,
           Sound(stored', born'), born \subseteq born', born' \subseteq Rows \cup Tags,
           busy' \subseteq Ops \X Someone, behind' \subseteq Cells,
           calls' = [j \in DOMAIN calls |-> calls'[j]],
           \A j \in DOMAIN calls :
             /\ calls'[j] \in CallRec /\ CallFits(calls'[j])
             /\ Brand(calls'[j]) => /\ Brand(calls[j])
                                    /\ calls'[j].on = calls[j].on
                                    /\ calls'[j].answer = calls[j].answer
    PROVE  TypeInv'
<1>1. calls \in Seq(CallRec)
  BY TypeInvIs
<1>2. calls' \in Seq(CallRec) /\ DOMAIN calls' = DOMAIN calls
  BY <1>1, AsMany
<1>3. CallsOk(calls')
  BY <1>2 DEF CallsOk
<1>4. AppendedOk(calls', shown', born')
  <2> DEFINE g == [j \in DOMAIN calls' |-> j]
  <2>1. ASSUME NEW j \in DOMAIN calls', Brand(calls'[j])
        PROVE  /\ g[j] \in DOMAIN calls /\ Brand(calls[g[j]])
               /\ calls'[j].on = calls[g[j]].on /\ calls'[j].answer = calls[g[j]].answer
               /\ shown'[<<calls'[j].on, "there">>] # 2
    BY <1>2, <2>1 DEF TypeInv, AppendedOk
  <2>2. \A j, l \in DOMAIN calls' : g[j] = g[l] => j = l
    OBVIOUS
  <2>3. AppendedOk(calls, shown, born)
    BY DEF TypeInv
  <2> HIDE DEF g
  <2> QED BY <2>1, <2>2, <2>3, AppendedKept
<1>5. ShownOk(shown', born')
  BY DEF TypeInv, ShownOk
<1>6. RestOk(born', loaded', option', busy', behind') /\ page \in Pages
  BY DEF TypeInv, RestOk
<1> QED BY <1>3, <1>4, <1>5, <1>6, TypeThen

LEMMA SelectViewType ==
    ASSUME TypeInv, SelectView
    PROVE  TypeInv'
<1>1. /\ page' = page /\ stored' = stored /\ born' = born /\ shown' = shown /\ loaded' = loaded
      /\ option' = option /\ behind' = behind /\ busy' = {}
      /\ calls' = [i \in DOMAIN calls |-> [calls[i] EXCEPT !.live = calls[i].op \in Fetches]]
  BY DEF SelectView, server
<1>2. calls' = [j \in DOMAIN calls |-> calls'[j]]
  BY <1>1
<1>3. ASSUME NEW j \in DOMAIN calls
      PROVE  /\ calls'[j] \in CallRec /\ CallFits(calls'[j])
             /\ Brand(calls'[j]) => /\ Brand(calls[j])
                                    /\ calls'[j].on = calls[j].on
                                    /\ calls'[j].answer = calls[j].answer
  <2> DEFINE c == calls[j]
             b == c.op \in Fetches
             d == [c EXCEPT !.live = b]
  <2>1. c \in CallRec /\ CallFits(c)
    BY TypeInvIs
  <2>2. b \in BOOLEAN
    OBVIOUS
  <2>3. calls'[j] = d
    BY <1>1
  <2> HIDE DEF c, b
  <2>4. /\ d \in CallRec /\ d.op = c.op /\ d.on = c.on /\ d.arg = c.arg /\ d.state = c.state
        /\ d.answer = c.answer
    BY <2>1, <2>2 DEF CallRec
  <2> HIDE DEF d
  <2>5. CallFits(d)
    BY <2>1, <2>4 DEF CallFits, ArgFits
  <2> QED BY <2>3, <2>4, <2>5 DEF Brand, Appends, c
<1>4. /\ Sound(stored', born') /\ born' \subseteq Rows \cup Tags
      /\ busy' \subseteq Ops \X Someone /\ behind' \subseteq Cells /\ born \subseteq born'
  BY <1>1 DEF TypeInv, RestOk
<1> QED BY <1>1, <1>2, <1>3, <1>4, MappedType

LEMMA AgedType ==
    ASSUME TypeInv, NEW K \in SUBSET Cells, NEW j \in DOMAIN calls
    PROVE  /\ Older(calls[j], K) \in CallRec /\ CallFits(Older(calls[j], K))
           /\ Brand(Older(calls[j], K)) => Brand(calls[j])
           /\ Older(calls[j], K).on = calls[j].on /\ Older(calls[j], K).answer = calls[j].answer
<1> DEFINE c == calls[j]
           d == Older(c, K)
<1>1. c \in CallRec /\ CallFits(c)
  BY TypeInvIs
<1> HIDE DEF c
<1>2. /\ d \in CallRec /\ d.op = c.op /\ d.on = c.on /\ d.arg = c.arg /\ d.state = c.state
      /\ d.answer = c.answer
  BY <1>1, OlderIs
<1> HIDE DEF d
<1>3. CallFits(d)
  BY <1>1, <1>2 DEF CallFits, ArgFits
<1> QED BY <1>2, <1>3 DEF Brand, Appends, c, d

LEMMA ElsewhereType ==
    ASSUME TypeInv, NEW S, Elsewhere(S), Sound(S, born)
    PROVE  TypeInv'
<1>1. /\ page' = page /\ stored' = S /\ born' = born /\ shown' = shown /\ loaded' = loaded
      /\ option' = option /\ busy' = busy /\ behind' = behind \cup Changed(S)
      /\ calls' = Aged(Changed(S), 0)
  BY DEF Elsewhere, view
<1>2. Changed(S) \in SUBSET Cells
  BY ChangedIs
<1>3. calls' = [j \in DOMAIN calls |-> calls'[j]]
  BY <1>1 DEF Aged
<1>4. \A j \in DOMAIN calls : calls'[j] = Older(calls[j], Changed(S))
  <2>1. 0 \notin DOMAIN calls
    BY TypeInvIs
  <2> QED BY <1>1, <2>1, AgedIs
<1>5. \A j \in DOMAIN calls :
             /\ calls'[j] \in CallRec /\ CallFits(calls'[j])
             /\ Brand(calls'[j]) => /\ Brand(calls[j])
                                    /\ calls'[j].on = calls[j].on
                                    /\ calls'[j].answer = calls[j].answer
  BY <1>2, <1>4, AgedType
<1>6. /\ Sound(stored', born') /\ born' \subseteq Rows \cup Tags
      /\ busy' \subseteq Ops \X Someone /\ behind' \subseteq Cells /\ born \subseteq born'
  BY <1>1, <1>2 DEF TypeInv, RestOk
<1> QED BY <1>1, <1>3, <1>5, <1>6, MappedType

LEMMA TruthFits ==
    ASSUME Whole, NEW k \in Cells
    PROVE  Truth[k] \in Values(k[2]) /\ (k[2] = "there" => Truth[k] = stored[k] /\ Truth[k] # 2)
<1>1. CASE k[2] = "members"
  <2>1. Truth[k] = Cardinality(Holding(stored, k[1]))
    BY <1>1, CountedIs DEF Truth
  <2>2. Cardinality(Holding(stored, k[1])) \in 0..Cardinality(Rows)
    BY CountFits
  <2>3. Values(k[2]) = 0..Cardinality(Rows)
    BY <1>1, ValuesAre
  <2> QED BY <1>1, <2>1, <2>2, <2>3
<1>2. CASE k[2] # "members"
  <2>1. Truth[k] = stored[k]
    BY <1>2, CountedIs DEF Truth
  <2> QED BY <2>1 DEF Whole, Sound
<1> QED BY <1>1, <1>2

LEMMA PartsCells ==
    ASSUME NEW c
    PROVE  \A K \in Parts(c) : K \subseteq Cells
BY DEF Parts, Cells

LEMMA ServeFetchType ==
    ASSUME TypeInv, NEW i \in DOMAIN calls, ServeFetch(i)
    PROVE  TypeInv'
<1> DEFINE c == calls[i]
<1>1. c \in CallRec /\ CallFits(c) /\ calls \in Seq(CallRec) /\ Whole
  BY TypeInvIs
<1>2. PICK K \in Parts(c) :
         LET read == K \cup DOMAIN c.answer
         IN  calls' = [calls EXCEPT ![i] =
               [c EXCEPT !.answer = [k \in read |-> IF k \in K THEN Truth[k] ELSE c.answer[k]],
                         !.state  = IF read = UNION Parts(c) THEN "served" ELSE @]]
  BY DEF ServeFetch
<1> DEFINE read == K \cup DOMAIN c.answer
           a == [k \in read |-> IF k \in K THEN Truth[k] ELSE c.answer[k]]
           s == IF read = UNION Parts(c) THEN "served" ELSE c.state
           d == [c EXCEPT !.answer = a, !.state = s]
<1>3. c.state = "asked" /\ c.op \in Fetches
  BY DEF ServeFetch
<1>4. calls' = [calls EXCEPT ![i] = d]
  BY <1>2
<1>5. read \subseteq Cells
  BY <1>1, PartsCells DEF CallFits
<1>6. \A k \in read : /\ a[k] \in Values(k[2])
                      /\ k[2] = "there" => a[k] # 2
  <2>1. K \subseteq Cells
    BY PartsCells
  <2> QED BY <1>1, <2>1, TruthFits DEF CallFits
<1>7. a \in Answers /\ DOMAIN a = read
  <2>1. \A k \in read : a[k] \in AnyValue
    BY <1>6, ValuesAny
  <2> HIDE DEF read
  <2>2. a \in [read -> AnyValue]
    BY <2>1
  <2> QED BY <1>5, <2>2 DEF Answers
<1>8. s \in {"asked", "served"}
  BY <1>3
<1> HIDE DEF c, read, a, s
<1>9. /\ d \in CallRec /\ d.op = c.op /\ d.on = c.on /\ d.arg = c.arg /\ d.state = s /\ d.answer = a
  BY <1>1, <1>7, <1>8 DEF CallRec
<1> HIDE DEF d
<1>10. CallFits(d)
  BY <1>1, <1>3, <1>5, <1>6, <1>7, <1>8, <1>9 DEF CallFits, ArgFits
<1>11. ~Brand(d)
  BY <1>3, <1>9 DEF Brand, Appends, Fetches
<1>12. calls' = [j \in DOMAIN calls |-> calls'[j]]
  BY <1>4
<1>13. ASSUME NEW j \in DOMAIN calls
       PROVE  /\ calls'[j] \in CallRec /\ CallFits(calls'[j])
              /\ Brand(calls'[j]) => /\ Brand(calls[j])
                                     /\ calls'[j].on = calls[j].on
                                     /\ calls'[j].answer = calls[j].answer
  <2>1. calls'[j] = IF j = i THEN d ELSE calls[j]
    BY <1>4
  <2>2. CASE j = i
    BY <1>9, <1>10, <1>11, <2>1, <2>2
  <2>3. CASE j # i
    BY <2>1, <2>3, TypeInvIs
  <2> QED BY <2>2, <2>3
<1>14. /\ page' = page /\ stored' = stored /\ born' = born /\ shown' = shown /\ loaded' = loaded
       /\ option' = option /\ busy' = busy /\ behind' = behind
  BY DEF ServeFetch, server, view
<1>15. /\ Sound(stored', born') /\ born' \subseteq Rows \cup Tags
       /\ busy' \subseteq Ops \X Someone /\ behind' \subseteq Cells /\ born \subseteq born'
  BY <1>14 DEF TypeInv, RestOk
<1> QED BY <1>12, <1>13, <1>14, <1>15, MappedType

(* A call that was refused, or whose answer was lost. *)
Lost(c) == [Call(c.op, c.on, FALSE) EXCEPT !.live = c.live, !.due = c.due, !.state = "refused"]

LEMMA LostIs ==
    ASSUME NEW c \in CallRec
    PROVE  /\ Lost(c) \in CallRec
           /\ Lost(c).op = c.op /\ Lost(c).on = c.on /\ Lost(c).live = c.live /\ Lost(c).due = c.due
           /\ Lost(c).state = "refused" /\ Lost(c).answer = <<>> /\ Lost(c).late = {}
<1> DEFINE d == Call(c.op, c.on, FALSE)
<1>1. /\ c.op \in Ops /\ c.on \in Someone /\ FALSE \in AnyValue
      /\ c.live \in BOOLEAN /\ c.due \in SUBSET Cells
  BY PageArgs DEF CallRec
<1>2. d \in CallRec
  BY <1>1, NewCall
<1>3. d.op = c.op /\ d.on = c.on /\ d.answer = <<>> /\ d.late = {}
  BY DEF Call
<1>4. Lost(c) = [d EXCEPT !.live = c.live, !.due = c.due, !.state = "refused"]
  BY DEF Lost
<1> HIDE DEF d
<1> QED BY <1>1, <1>2, <1>3, <1>4 DEF CallRec

LEMMA RefuseIs ==
    ASSUME NEW i \in DOMAIN calls, Refuse(i)
    PROVE  /\ calls' = [calls EXCEPT ![i] = Lost(calls[i])]
           /\ calls' = [j \in DOMAIN calls |-> calls'[j]]
           /\ \A j \in DOMAIN calls : calls'[j] = IF j = i THEN Lost(calls[i]) ELSE calls[j]
BY DEF Refuse, Lost

LEMMA RefuseType ==
    ASSUME TypeInv, NEW i \in DOMAIN calls, Refuse(i)
    PROVE  TypeInv'
<1> DEFINE c == calls[i]
           d == Lost(c)
<1>1. c \in CallRec /\ CallFits(c) /\ calls \in Seq(CallRec)
  BY TypeInvIs
<1>2. \A j \in DOMAIN calls : calls'[j] = IF j = i THEN d ELSE calls[j]
  BY RefuseIs
<1>3. calls' = [j \in DOMAIN calls |-> calls'[j]]
  BY RefuseIs
<1> HIDE DEF c
<1>4. d \in CallRec /\ d.op = c.op /\ d.state = "refused" /\ d.answer = <<>>
  BY <1>1, LostIs
<1> HIDE DEF d
<1>5. CallFits(d) /\ ~Brand(d)
  BY <1>1, <1>4, NoAnswer DEF CallFits, Brand
<1>6. ASSUME NEW j \in DOMAIN calls
      PROVE  /\ calls'[j] \in CallRec /\ CallFits(calls'[j])
             /\ Brand(calls'[j]) => /\ Brand(calls[j])
                                    /\ calls'[j].on = calls[j].on
                                    /\ calls'[j].answer = calls[j].answer
  <2>1. CASE j = i
    BY <1>2, <1>4, <1>5, <2>1
  <2>2. CASE j # i
    BY <1>2, <2>2, TypeInvIs
  <2> QED BY <2>1, <2>2
<1>7. /\ page' = page /\ stored' = stored /\ born' = born /\ shown' = shown /\ loaded' = loaded
      /\ option' = option /\ busy' = busy /\ behind' = behind
  BY DEF Refuse, server, view
<1>8. /\ Sound(stored', born') /\ born' \subseteq Rows \cup Tags
      /\ busy' \subseteq Ops \X Someone /\ behind' \subseteq Cells /\ born \subseteq born'
  BY <1>7 DEF TypeInv, RestOk
<1> QED BY <1>3, <1>6, <1>7, <1>8, MappedType

(* A row that is created is there, and so is a tag. *)
LEMMA CreatedThere ==
    ASSUME Whole, NEW c, Asks(c), Appends(c), NEW x \in Given(c)
    PROVE  /\ x \in (Rows \cup Tags) \ born /\ <<x, "there">> \in Cells
           /\ After(c, x)[<<x, "there">>] = 1
           /\ \A k \in Reads(c, x) : k[2] = "there" => k = <<x, "there">>
<1>1. page \in Pages
  BY DEF Whole
<1>2. CASE c.op = "create"
  <2>1. x \in Rows \ born /\ Reads(c, x) = RowCells(x) /\ <<x, "there">> \in Cells
    BY <1>1, <1>2, ReadsAre, GivenIs, RowCellsAre
  <2>2. Fresh(x)[<<x, "there">>] = 1 /\ DOMAIN Fresh(x) = Cells
    BY <2>1, FreshSound DEF Fresh
  <2> DEFINE F == Fresh(x)
             U == [F EXCEPT ![<<x, "role">>] = c.arg]
  <2>3. U[<<x, "there">>] = 1 /\ DOMAIN U = Cells
    <3> HIDE DEF F
    <3> QED BY <2>1, <2>2 DEF F
  <2>4. After(c, x) = IF page = "team" THEN Assigned(U, x) ELSE F
    BY <1>2, AfterIs, CreatedIs
  <2> HIDE DEF F, U
  <2>5. Assigned(U, x)[<<x, "there">>] = 1
    BY <2>1, <2>3 DEF Assigned
  <2>6. After(c, x)[<<x, "there">>] = 1
    BY <2>2, <2>4, <2>5 DEF F
  <2> QED BY <2>1, <2>6 DEF RowCells
<1>3. CASE c.op = "createRole"
  <2>1. page = "team" /\ Reads(c, x) = {x} \X {"there", "members"}
    BY <1>1, <1>3, OpsAre, ReadsAre
  <2>2. x \in Tags \ born
    BY <1>3, GivenIs
  <2>3. <<x, "there">> \in Cells
    BY <2>1, <2>2, RowCellsAre
  <2>4. Set(<<x, "there">>, 1)[<<x, "there">>] = 1
    BY <2>3, SetIs DEF Whole, Sound
  <2>5. After(c, x)[<<x, "there">>] = 1
    BY <1>3, <2>4, AfterIs
  <2> QED BY <2>1, <2>2, <2>3, <2>5
<1> QED BY <1>2, <1>3 DEF Appends

LEMMA BornGrows ==
    ASSUME NEW c, NEW x
    PROVE  /\ born \subseteq Borne(c, x)
           /\ Appends(c) => x \in Borne(c, x)
           /\ ~Appends(c) => Borne(c, x) = born
           /\ Borne(c, x) \subseteq born \cup {x}
BY DEF Borne, Appends

(* What the call that is served becomes. *)
Answering(c, x) ==
    [c EXCEPT !.state = "served", !.on = x, !.answer = Answered(c, After(c, x), Reads(c, x)),
              !.due = Changed(After(c, x)) \ Untold(c)]

LEMMA ServeIs ==
    ASSUME TypeInv, NEW i \in DOMAIN calls, Serve(i)
    PROVE  \E x \in Given(calls[i]) :
             LET c == calls[i]
                 S == After(c, x)
             IN  /\ Asks(c) /\ Accepts(c) /\ c.state = "asked"
                 /\ Sound(S, Borne(c, x)) /\ Changed(S) \subseteq Cells
                 /\ page' = page /\ stored' = S /\ born' = Borne(c, x) /\ shown' = shown
                 /\ loaded' = loaded /\ option' = option /\ busy' = busy
                 /\ behind' = behind \cup (Changed(S) \cap (Untold(c) \ Reads(c, x)))
                 /\ calls' = [j \in DOMAIN calls |-> calls'[j]]
                 /\ calls'[i] = Answering(c, x)
                 /\ \A j \in DOMAIN calls : j # i => calls'[j] = Older(calls[j], Changed(S))
<1> DEFINE c == calls[i]
<1>1. c \in CallRec /\ CallFits(c) /\ Whole /\ page \in Pages
  BY TypeInvIs
<1>2. c.state = "asked" /\ c.op \notin Fetches /\ Accepts(c)
  BY DEF Serve
<1>3. Asks(c)
  BY <1>1, <1>2, CallOf
<1>4. PICK x \in Given(c) :
         LET S == After(c, x)
             K == Reads(c, x)
         IN  /\ stored' = S
             /\ born' = IF c.op \in {"create", "createRole"} THEN born \cup {x} ELSE born
             /\ behind' = behind \cup (Changed(S) \cap (Untold(c) \ K))
             /\ calls' = [Aged(Changed(S), i) EXCEPT ![i] =
                  [c EXCEPT !.state = "served", !.on = x, !.answer = Answered(c, S, K),
                            !.due = Changed(S) \ Untold(c)]]
  BY DEF Serve, Given
<1> DEFINE S == After(c, x)
           A == Aged(Changed(S), i)
<1>5. /\ page' = page /\ shown' = shown /\ loaded' = loaded /\ option' = option /\ busy' = busy
      /\ stored' = S /\ born' = Borne(c, x)
      /\ behind' = behind \cup (Changed(S) \cap (Untold(c) \ Reads(c, x)))
      /\ calls' = [A EXCEPT ![i] = Answering(c, x)]
  BY <1>4 DEF Serve, view, Borne, Answering
<1>6. Sound(S, Borne(c, x))
  BY <1>1, <1>2, <1>3, AfterSound
<1>7. Changed(S) \subseteq Cells
  BY ChangedIs
<1> HIDE DEF c
<1>8. /\ DOMAIN A = DOMAIN calls
      /\ \A j \in DOMAIN calls : j # i => A[j] = Older(calls[j], Changed(S))
  BY AgedIs
<1> HIDE DEF A
<1>9. /\ calls' = [j \in DOMAIN calls |-> calls'[j]]
      /\ calls'[i] = Answering(c, x)
      /\ \A j \in DOMAIN calls : j # i => calls'[j] = A[j]
  BY <1>5, <1>8
<1> QED BY <1>2, <1>3, <1>5, <1>6, <1>7, <1>8, <1>9 DEF c

LEMMA AnsweringIs ==
    ASSUME Whole, NEW c \in CallRec, CallFits(c), Asks(c), Accepts(c), NEW x \in Given(c),
           Sound(After(c, x), Borne(c, x))
    PROVE  LET d == Answering(c, x)
               S == After(c, x)
           IN  /\ d \in CallRec
               /\ d.op = c.op /\ d.on = x /\ d.arg = c.arg /\ d.live = c.live /\ d.state = "served"
               /\ d.late = c.late /\ d.due = Changed(S) \ Untold(c)
               /\ d.answer = Answered(c, S, Reads(c, x)) /\ DOMAIN d.answer = Reads(c, x)
               /\ \A k \in Reads(c, x) :
                    d.answer[k] = IF k \in Narrow(c) THEN Blank(k[2]) ELSE Counted(S)[k]
               /\ CallFits(d)
<1> DEFINE S == After(c, x)
           a == Answered(c, S, Reads(c, x))
           u == Changed(S) \ Untold(c)
           d == [c EXCEPT !.state = "served", !.on = x, !.answer = a, !.due = u]
<1>1. Answering(c, x) = d
  BY DEF Answering
<1>2. x \in Someone /\ (c.op \notin {"create", "createRole"} => x = c.on)
      /\ (c.op = "create" => x \in Rows) /\ (c.op = "createRole" => x \in Tags)
  BY GivenIs DEF CallRec, Someone
<1>3. Reads(c, x) \subseteq Cells /\ page \in Pages
  BY ReadsCells DEF Whole
<1>4. /\ DOMAIN a = Reads(c, x)
      /\ \A k \in Reads(c, x) : a[k] = IF k \in Narrow(c) THEN Blank(k[2]) ELSE Counted(S)[k]
  BY DEF Answered
<1>5. ASSUME NEW k \in Reads(c, x)
      PROVE  a[k] \in Values(k[2]) /\ (k[2] = "there" => a[k] # 2)
  <2>1. k \in Cells
    BY <1>3
  <2>2. CASE k \in Narrow(c)
    BY <1>4, <2>2, BlankFits, BlanksAre
  <2>3. CASE k \notin Narrow(c) /\ k[2] = "members"
    <3>1. a[k] = Cardinality(Holding(S, k[1]))
      BY <1>4, <2>1, <2>3, CountedIs
    <3>2. Cardinality(Holding(S, k[1])) \in 0..Cardinality(Rows)
      BY CountFits
    <3>3. Values(k[2]) = 0..Cardinality(Rows)
      BY <2>3, ValuesAre
    <3> QED BY <2>3, <3>1, <3>2, <3>3
  <2>4. CASE k \notin Narrow(c) /\ k[2] # "members"
    <3>1. a[k] = S[k]
      BY <1>4, <2>1, <2>4, CountedIs
    <3> HIDE DEF S, a
    <3> QED BY <2>1, <3>1 DEF Sound, S
  <2> QED BY <2>2, <2>3, <2>4
<1>6. a \in Answers
  <2>1. \A k \in Reads(c, x) : a[k] \in AnyValue
    BY <1>5, ValuesAny
  <2>2. a \in [Reads(c, x) -> AnyValue]
    BY <2>1 DEF Answered
  <2> QED BY <1>3, <2>2 DEF Answers
<1>7. u \in SUBSET Cells
  BY ChangedIs
<1> HIDE DEF S, a, u
<1>8. /\ d \in CallRec
      /\ d.op = c.op /\ d.on = x /\ d.arg = c.arg /\ d.live = c.live /\ d.state = "served"
      /\ d.late = c.late /\ d.due = u /\ d.answer = a
  BY <1>2, <1>6, <1>7 DEF CallRec
<1> HIDE DEF d
<1>9. ArgFits(d)
  <2>1. ArgFits(c)
    BY DEF Asks
  <2> QED BY <1>2, <1>8, <2>1 DEF ArgFits, Switches, Fetches
<1>10. CallFits(d)
  BY <1>3, <1>4, <1>5, <1>8, <1>9 DEF CallFits
<1> QED BY <1>1, <1>4, <1>8, <1>10 DEF S, a, u

LEMMA ServeType ==
    ASSUME TypeInv, NEW i \in DOMAIN calls, Serve(i)
    PROVE  TypeInv'
<1> DEFINE c == calls[i]
<1>1. PICK x \in Given(c) :
        LET S == After(c, x)
        IN  /\ Asks(c) /\ Accepts(c) /\ c.state = "asked"
            /\ Sound(S, Borne(c, x)) /\ Changed(S) \subseteq Cells
            /\ page' = page /\ stored' = S /\ born' = Borne(c, x) /\ shown' = shown
            /\ loaded' = loaded /\ option' = option /\ busy' = busy
            /\ behind' = behind \cup (Changed(S) \cap (Untold(c) \ Reads(c, x)))
            /\ calls' = [j \in DOMAIN calls |-> calls'[j]]
            /\ calls'[i] = Answering(c, x)
            /\ \A j \in DOMAIN calls : j # i => calls'[j] = Older(calls[j], Changed(S))
  BY ServeIs
<1> DEFINE S == After(c, x)
           d == Answering(c, x)
<1>2. c \in CallRec /\ CallFits(c) /\ Whole /\ page \in Pages /\ calls \in Seq(CallRec)
  BY TypeInvIs
<1>3. Asks(c) /\ Accepts(c) /\ Sound(S, Borne(c, x)) /\ Changed(S) \in SUBSET Cells
  BY <1>1
<1>4. /\ d \in CallRec /\ CallFits(d) /\ d.op = c.op /\ d.on = x /\ d.state = "served"
      /\ DOMAIN d.answer = Reads(c, x)
      /\ \A k \in Reads(c, x) :
           d.answer[k] = IF k \in Narrow(c) THEN Blank(k[2]) ELSE Counted(S)[k]
  BY <1>2, <1>3, AnsweringIs
<1>5. /\ page' = page /\ stored' = S /\ born' = Borne(c, x) /\ shown' = shown
      /\ loaded' = loaded /\ option' = option /\ busy' = busy
      /\ behind' = behind \cup (Changed(S) \cap (Untold(c) \ Reads(c, x)))
      /\ calls' = [j \in DOMAIN calls |-> calls'[j]]
      /\ calls'[i] = d
      /\ \A j \in DOMAIN calls : j # i => calls'[j] = Older(calls[j], Changed(S))
  BY <1>1
<1>6. Appends(c) =>
        /\ x \in (Rows \cup Tags) \ born /\ <<x, "there">> \in Cells
        /\ S[<<x, "there">>] = 1
        /\ \A k \in Reads(c, x) : k[2] = "there" => k = <<x, "there">>
  BY <1>2, <1>3, CreatedThere
<1>7. born \subseteq Borne(c, x) /\ (Appends(c) => x \in Borne(c, x))
      /\ (~Appends(c) => Borne(c, x) = born) /\ Borne(c, x) \subseteq born \cup {x}
  BY BornGrows
<1> HIDE DEF c, S, d
<1>8. \A j \in DOMAIN calls : calls'[j] \in CallRec /\ CallFits(calls'[j])
  BY <1>3, <1>4, <1>5, AgedType
<1>9. calls' \in Seq(CallRec) /\ DOMAIN calls' = DOMAIN calls
  BY <1>2, <1>5, <1>8, AsMany
<1>10. CallsOk(calls')
  BY <1>8, <1>9 DEF CallsOk
<1>11. ASSUME NEW j \in DOMAIN calls, j # i, Brand(calls'[j])
       PROVE  /\ Brand(calls[j]) /\ calls'[j].on = calls[j].on
              /\ calls'[j].answer = calls[j].answer /\ calls[j].on \in born
  <2>1. Brand(calls[j]) /\ calls'[j].on = calls[j].on /\ calls'[j].answer = calls[j].answer
    BY <1>3, <1>5, <1>11, AgedType
  <2> QED BY <2>1 DEF TypeInv, AppendedOk
<1>12. AppendedOk(calls', shown', born')
  <2> SUFFICES ASSUME NEW j \in DOMAIN calls, Brand(calls'[j])
               PROVE  /\ calls'[j].on \in born' \cap (Rows \cup Tags)
                      /\ shown[<<calls'[j].on, "there">>] # 2
                      /\ \A k \in DOMAIN calls'[j].answer : k[2] = "there" =>
                           k[1] = calls'[j].on /\ calls'[j].answer[k] = 1
                      /\ \A l \in DOMAIN calls : Brand(calls'[l]) /\ calls'[l].on = calls'[j].on => l = j
    BY <1>5, <1>9 DEF AppendedOk
  <2>1. CASE j = i
    <3>1. Appends(c) /\ calls'[j] = d
      BY <1>4, <1>5, <2>1 DEF Brand, Appends
    <3>2. x \in (Rows \cup Tags) \ born /\ x \in born'
      BY <1>5, <1>6, <1>7, <3>1
    <3>3. shown[<<x, "there">>] # 2
      BY <1>6, <3>1, <3>2 DEF TypeInv, ShownOk
    <3>4. \A k \in DOMAIN d.answer : k[2] = "there" => k[1] = x /\ d.answer[k] = 1
      <4> SUFFICES ASSUME NEW k \in Reads(c, x), k[2] = "there" PROVE k[1] = x /\ d.answer[k] = 1
        BY <1>4
      <4>1. k = <<x, "there">> /\ k \in Cells
        BY <1>6, <3>1
      <4>2. k \notin Narrow(c)
        BY <4>1 DEF Narrow, LeftOut
      <4>3. Counted(S)[k] = S[k]
        BY <4>1, CountedIs
      <4> QED BY <1>4, <1>6, <3>1, <4>1, <4>2, <4>3
    <3>5. \A l \in DOMAIN calls : Brand(calls'[l]) /\ calls'[l].on = x => l = j
      BY <1>11, <2>1, <3>2
    <3> QED BY <1>4, <3>1, <3>2, <3>3, <3>4, <3>5
  <2>2. CASE j # i
    <3>1. /\ Brand(calls[j]) /\ calls'[j].on = calls[j].on /\ calls'[j].answer = calls[j].answer
          /\ calls[j].on \in born
      BY <1>11, <2>2
    <3>2. /\ calls[j].on \in born \cap (Rows \cup Tags)
          /\ shown[<<calls[j].on, "there">>] # 2
          /\ \A k \in DOMAIN calls[j].answer : k[2] = "there" =>
               k[1] = calls[j].on /\ calls[j].answer[k] = 1
          /\ \A l \in DOMAIN calls : Brand(calls[l]) /\ calls[l].on = calls[j].on => l = j
      BY <3>1 DEF TypeInv, AppendedOk
    <3>3. ASSUME NEW l \in DOMAIN calls, Brand(calls'[l]), calls'[l].on = calls'[j].on PROVE l = j
      <4>1. CASE l = i
        <5>1. Appends(c) /\ calls'[l].on = x
          BY <1>4, <1>5, <3>3, <4>1 DEF Brand, Appends
        <5> QED BY <1>6, <3>1, <3>3, <5>1
      <4>2. CASE l # i
        BY <1>11, <3>1, <3>2, <3>3, <4>2
      <4> QED BY <4>1, <4>2
    <3> QED BY <1>5, <1>7, <3>1, <3>2, <3>3
  <2> QED BY <2>1, <2>2
<1>13. ShownOk(shown', born')
  BY <1>5, <1>7 DEF TypeInv, ShownOk
<1>14. RestOk(born', loaded', option', busy', behind')
  <2>1. born' \subseteq Rows \cup Tags
    BY <1>5, <1>6, <1>7 DEF TypeInv, RestOk
  <2> QED BY <1>3, <1>5, <2>1 DEF TypeInv, RestOk
<1>15. Sound(stored', born')
  BY <1>3, <1>5
<1> QED BY <1>2, <1>5, <1>10, <1>12, <1>13, <1>14, <1>15, TypeThen

-----------------------------------------------------------------------------
(* An answer arrives *)

(* A cell of the copy after the answer to c.                               *)
LEMMA PatchedIs ==
    ASSUME NEW c
    PROVE  /\ DOMAIN Patched(c) = Cells
           /\ \A k \in Cells :
                /\ k \notin Written(c) /\ c.op # "deleteRole" => Patched(c)[k] = shown[k]
                /\ k \in Written(c) /\ c.op # "deleteRole" =>
                     Patched(c)[k] = IF Appends(c) /\ k[2] = "there" THEN shown[k] + 1 ELSE c.answer[k]
                /\ c.op = "deleteRole" /\ k[1] = c.on => Patched(c)[k] = Blank(k[2])
                /\ c.op = "deleteRole" /\ k[1] # c.on /\ k[2] = "tags" =>
                     Patched(c)[k] = (IF k \in Written(c) THEN c.answer[k] ELSE shown[k]) \ {c.on}
                /\ c.op = "deleteRole" /\ k[1] # c.on /\ k[2] # "tags" =>
                     Patched(c)[k] = IF k \in Written(c) THEN c.answer[k] ELSE shown[k]
<1>1. c.op = "deleteRole" => ~Appends(c)
  BY DEF Appends
<1> QED BY <1>1 DEF Patched, TagRemoved, Without

LEMMA WrittenIn ==
    ASSUME NEW c
    PROVE  Written(c) \subseteq DOMAIN c.answer
           /\ (c.op \in Fetches \cup {"remove", "deleteRole"} \/ Appends(c) => Written(c) = DOMAIN c.answer)
BY DEF Written

(* A call that follows an answer: the assignment of a department that was  *)
(* registered, or a fetch that is due what the answer did not bring.       *)
Following(c, d) ==
    /\ d \in CallRec /\ CallFits(d)
    /\ d.state = "asked" /\ d.late = {} /\ d.answer = <<>>
    /\ \/ c.op = "pool" /\ d.op = "department" /\ d.on = c.on /\ d.live = c.live /\ d.due = {}
       \/ /\ c.op # "pool" /\ d.op \in Fetches /\ d.due = Wanted(c)
          /\ d.op = "load" => LoadsAgain(c)
          /\ d.op = "catalog" => CatalogAgain(c)

LEMMA PoolFollows ==
    ASSUME page \in Pages, NEW c \in CallRec, CallFits(c), c.state = "served", c.op = "pool"
    PROVE  LET d == [Call("department", c.on, TRUE) EXCEPT !.live = c.live]
           IN  Following(c, d)
<1> DEFINE e == Call("department", c.on, TRUE)
           d == [e EXCEPT !.live = c.live]
<1>1. page = "team" /\ c.on \in Rows /\ c.live \in BOOLEAN
  BY OpsAre, CallOf DEF Asks, ArgFits, Fetches, CallRec
<1>2. "department" \in Ops /\ "department" \in OpsOf[page] /\ "department" \in Switches
  BY <1>1 DEF Ops, OpsOf, Switches
<1>3. e \in CallRec /\ ArgFits(e)
  BY <1>1, <1>2, NewCall, RowArgs
<1>4. /\ e.op = "department" /\ e.on = c.on /\ e.arg = TRUE /\ e.state = "asked" /\ e.due = {}
      /\ e.late = {} /\ e.answer = <<>>
  BY DEF Call
<1> HIDE DEF e
<1>5. /\ d \in CallRec /\ d.op = "department" /\ d.on = c.on /\ d.arg = e.arg /\ d.state = "asked"
      /\ d.due = {} /\ d.late = {} /\ d.answer = <<>> /\ d.live = c.live
  BY <1>1, <1>3, <1>4 DEF CallRec
<1> HIDE DEF d
<1>6. CallFits(d)
  BY <1>2, <1>3, <1>4, <1>5, NoAnswer DEF CallFits, ArgFits
<1>7. Following(c, d)
  BY <1>5, <1>6 DEF Following
<1> QED BY <1>7 DEF d, e

LEMMA FetchFollows ==
    ASSUME page \in Pages, NEW c \in CallRec, CallFits(c), c.op # "pool", NEW op \in Fetches,
           op = "load" => LoadsAgain(c), op = "catalog" => CatalogAgain(c)
    PROVE  Following(c, Fetch(op, Wanted(c)))
<1> DEFINE e == Call(op, NoRow, FALSE)
           u == Wanted(c)
           d == [e EXCEPT !.due = u]
<1>1. op \in Ops /\ op \in OpsOf[page] \cup {"load"} /\ NoRow \in Someone /\ FALSE \in AnyValue
  <2>1. op \in {"load", "catalog"} /\ op \in Ops
    BY DEF Ops, Fetches
  <2>2. CASE op = "catalog"
    <3>1. page = "team"
      BY <2>2 DEF CatalogAgain
    <3>2. op \in OpsOf[page]
      BY <2>2, <3>1 DEF OpsOf
    <3> QED BY <2>1, <3>2, PageArgs
  <2> QED BY <2>1, <2>2, PageArgs
<1>2. e \in CallRec
  BY <1>1, NewCall
<1>3. /\ e.op = op /\ e.on = NoRow /\ e.arg = FALSE /\ e.state = "asked" /\ e.late = {} /\ e.answer = <<>>
  BY DEF Call
<1>4. u \in SUBSET Cells
  <2>1. Written(c) \subseteq DOMAIN c.answer
    BY WrittenIn
  <2>2. c.due \in SUBSET Cells /\ DOMAIN c.answer \in SUBSET Cells
    BY DEF CallRec, Answers
  <2> QED BY <2>1, <2>2 DEF Wanted, Blanked
<1>5. Fetch(op, u) = d
  BY DEF Fetch
<1> HIDE DEF e, u
<1>6. /\ d \in CallRec /\ d.op = op /\ d.on = NoRow /\ d.arg = FALSE /\ d.state = "asked"
      /\ d.due = u /\ d.late = {} /\ d.answer = <<>>
  BY <1>2, <1>3, <1>4 DEF CallRec
<1> HIDE DEF d
<1>7. ArgFits(d)
  BY <1>6 DEF ArgFits, Fetches, Switches
<1>8. CallFits(d)
  BY <1>1, <1>6, <1>7, NoAnswer DEF CallFits
<1>9. Following(c, d)
  BY <1>6, <1>8 DEF Following, u
<1> QED BY <1>5, <1>9 DEF u

LEMMA FollowIs ==
    ASSUME page \in Pages, NEW c \in CallRec, CallFits(c), c.state = "served"
    PROVE  /\ Follow(c) \in Seq(CallRec)
           /\ \A l \in DOMAIN Follow(c) : Following(c, Follow(c)[l])
           /\ c.op # "pool" /\ LoadsAgain(c) => \E l \in DOMAIN Follow(c) : Follow(c)[l].op = "load"
           /\ c.op # "pool" /\ CatalogAgain(c) => \E l \in DOMAIN Follow(c) : Follow(c)[l].op = "catalog"
           /\ c.op = "pool" => \E l \in DOMAIN Follow(c) : Follow(c)[l].op = "department"
<1> DEFINE F == Follow(c)
<1>1. CASE c.op = "pool"
  <2> DEFINE d == [Call("department", c.on, TRUE) EXCEPT !.live = c.live]
  <2>1. Following(c, d) /\ F = <<d>>
    BY <1>1, PoolFollows DEF Follow
  <2> HIDE DEF d, F
  <2>2. d \in CallRec /\ d.op = "department"
    BY <1>1, <2>1 DEF Following
  <2>3. F \in Seq(CallRec) /\ DOMAIN F = {1} /\ F[1] = d
    BY <2>1, <2>2
  <2> QED BY <1>1, <2>1, <2>2, <2>3 DEF F
<1>2. ASSUME NEW op \in Fetches, c.op # "pool", Refetch(c) = <<op>>,
             op = "load" => LoadsAgain(c), op = "catalog" => CatalogAgain(c)
      PROVE  /\ F \in Seq(CallRec)
             /\ \A l \in DOMAIN F : Following(c, F[l])
             /\ \E l \in DOMAIN F : F[l].op = op
  <2> DEFINE d == Fetch(op, Wanted(c))
  <2>1. Following(c, d)
    BY <1>2, FetchFollows
  <2>2. DOMAIN <<op>> = 1..1 /\ <<op>>[1] = op
    OBVIOUS
  <2>3. F = [j \in 1..1 |-> d]
    <3>1. F = [j \in DOMAIN Refetch(c) |-> Fetch(Refetch(c)[j], Wanted(c))]
      BY <1>2 DEF Follow
    <3>2. F = [j \in 1..1 |-> Fetch(<<op>>[j], Wanted(c))]
      BY <1>2, <2>2, <3>1
    <3>3. \A j \in 1..1 : <<op>>[j] = op
      OBVIOUS
    <3> QED BY <3>2, <3>3
  <2>4. d.op = op
    BY DEF Fetch, Call
  <2> HIDE DEF d, F
  <2>5. d \in CallRec
    BY <2>1 DEF Following
  <2>6. F \in Seq(CallRec) /\ DOMAIN F = {1} /\ F[1] = d
    BY <2>3, <2>5
  <2> QED BY <2>1, <2>4, <2>6
<1>3. CASE c.op # "pool" /\ LoadsAgain(c)
  <2>1. Refetch(c) = <<"load">> /\ "load" \in Fetches /\ ~CatalogAgain(c)
    BY <1>3, RefetchIs DEF Fetches
  <2> HIDE DEF F
  <2>2. /\ F \in Seq(CallRec) /\ \A l \in DOMAIN F : Following(c, F[l])
        /\ \E l \in DOMAIN F : F[l].op = "load"
    BY <1>2, <1>3, <2>1
  <2> QED BY <1>3, <2>1, <2>2 DEF F
<1>4. CASE c.op # "pool" /\ CatalogAgain(c)
  <2>1. Refetch(c) = <<"catalog">> /\ "catalog" \in Fetches /\ ~LoadsAgain(c)
    BY <1>4, RefetchIs DEF Fetches
  <2> HIDE DEF F
  <2>2. /\ F \in Seq(CallRec) /\ \A l \in DOMAIN F : Following(c, F[l])
        /\ \E l \in DOMAIN F : F[l].op = "catalog"
    BY <1>2, <1>4, <2>1
  <2> QED BY <1>4, <2>1, <2>2 DEF F
<1>5. CASE c.op # "pool" /\ ~LoadsAgain(c) /\ ~CatalogAgain(c)
  <2>1. Refetch(c) = <<>>
    BY <1>5, RefetchIs
  <2>2. F = [j \in DOMAIN <<>> |-> Fetch(<<>>[j], Wanted(c))]
    BY <1>5, <2>1 DEF Follow
  <2>3. DOMAIN F = {}
    BY <2>2
  <2>4. F \in [1..0 -> CallRec]
    BY <2>2
  <2>5. F \in Seq(CallRec)
    BY <2>4
  <2> QED BY <1>5, <2>3, <2>5
<1> QED BY <1>1, <1>3, <1>4, <1>5

LEMMA ArriveIs ==
    ASSUME TypeInv, NEW i \in DOMAIN calls, Arrive(i)
    PROVE  LET c == calls[i]
           IN  /\ c \in CallRec /\ CallFits(c) /\ c.state = "served"
               /\ page' = page /\ stored' = stored /\ born' = born
               /\ shown' = Patched(c)
               /\ loaded' = (loaded \/ c.op = "load")
               /\ option' = (option \/ c.op = "pool")
               /\ behind' = (behind \ Written(c)) \cup
                            (DOMAIN c.answer \cap c.late) \cup Forgone(c) \cup
                            (DOMAIN c.answer \ Written(c)) \cup Twice(c)
               /\ calls' = RemoveAt(calls, i) \o Follow(c)
               /\ Follow(c) \in Seq(CallRec)
<1>1. calls[i] \in CallRec /\ CallFits(calls[i]) /\ page \in Pages
  BY TypeInvIs
<1>2. calls[i].state = "served"
  BY DEF Arrive
<1>3. Follow(calls[i]) \in Seq(CallRec)
  BY <1>1, <1>2, FollowIs
<1> QED BY <1>1, <1>2, <1>3 DEF Arrive, server

(* What is in flight afterwards was in flight before, or follows.          *)
LEMMA Afterwards ==
    ASSUME TypeInv, NEW i \in DOMAIN calls, NEW t \in Seq(CallRec),
           calls' = RemoveAt(calls, i) \o t, NEW j \in DOMAIN calls'
    PROVE  \/ From(i, j) \in DOMAIN calls \ {i} /\ j \in 1..Len(calls)-1 /\ calls'[j] = calls[From(i, j)]
           \/ j \notin 1..Len(calls)-1 /\ \E l \in DOMAIN t : calls'[j] = t[l]
<1>1. calls \in Seq(CallRec)
  BY TypeInvIs
<1>2. \/ /\ j \in 1..Len(calls)-1
         /\ From(i, j) \in DOMAIN calls \ {i}
         /\ (RemoveAt(calls, i) \o t)[j] = calls[From(i, j)]
      \/ /\ j \notin 1..Len(calls)-1
         /\ \E l \in DOMAIN t : j = Len(calls) - 1 + l /\ (RemoveAt(calls, i) \o t)[j] = t[l]
  BY <1>1, Remains
<1> QED BY <1>2

(* The calls that are left are well formed. *)
LEMMA GoneType ==
    ASSUME TypeInv, NEW i \in DOMAIN calls, NEW t \in Seq(CallRec),
           calls' = RemoveAt(calls, i) \o t, NEW S,
           \A l \in DOMAIN t : CallFits(t[l]) /\ t[l].state = "asked",
           \A j \in DOMAIN calls : j # i /\ Brand(calls[j]) => S[<<calls[j].on, "there">>] # 2
    PROVE  CallsOk(calls') /\ AppendedOk(calls', S, born)
<1>1. calls \in Seq(CallRec) /\ \A j \in DOMAIN calls : calls[j] \in CallRec /\ CallFits(calls[j])
  BY TypeInvIs
<1>2. calls' \in Seq(CallRec)
  <2>1. RemoveAt(calls, i) \o t \in Seq(CallRec)
    BY <1>1, Gone
  <2> QED BY <2>1
<1>3. ASSUME NEW j \in DOMAIN calls'
      PROVE  \/ From(i, j) \in DOMAIN calls \ {i} /\ j \in 1..Len(calls)-1 /\ calls'[j] = calls[From(i, j)]
             \/ j \notin 1..Len(calls)-1 /\ \E l \in DOMAIN t : calls'[j] = t[l]
  BY Afterwards
<1>4. CallsOk(calls')
  <2> SUFFICES ASSUME NEW j \in DOMAIN calls' PROVE CallFits(calls'[j])
    BY <1>2 DEF CallsOk
  <2>1. CASE From(i, j) \in DOMAIN calls \ {i} /\ calls'[j] = calls[From(i, j)]
    BY <1>1, <2>1
  <2>2. CASE \E l \in DOMAIN t : calls'[j] = t[l]
    BY <2>2
  <2> QED BY <1>3, <2>1, <2>2
<1>5. AppendedOk(calls', S, born)
  <2>1. ASSUME NEW j \in DOMAIN calls', Brand(calls'[j])
        PROVE  /\ From(i, j) \in DOMAIN calls /\ Brand(calls[From(i, j)]) /\ j \in 1..Len(calls)-1
               /\ calls'[j].on = calls[From(i, j)].on /\ calls'[j].answer = calls[From(i, j)].answer
               /\ S[<<calls'[j].on, "there">>] # 2
    <3>1. CASE From(i, j) \in DOMAIN calls \ {i} /\ j \in 1..Len(calls)-1 /\ calls'[j] = calls[From(i, j)]
      BY <2>1, <3>1
    <3>2. CASE \E l \in DOMAIN t : calls'[j] = t[l]
      BY <2>1, <3>2 DEF Brand
    <3> QED BY <1>3, <3>1, <3>2
  <2>2. ASSUME NEW j \in DOMAIN calls', NEW l \in DOMAIN calls', Brand(calls'[j]), Brand(calls'[l]),
               From(i, j) = From(i, l)
        PROVE  j = l
    <3>1. j \in 1..Len(calls)-1 /\ l \in 1..Len(calls)-1
      BY <2>1, <2>2
    <3>2. Len(calls) \in Nat /\ i \in 1..Len(calls)
      BY <1>1
    <3> QED BY <2>2, <3>1, <3>2, FromIsOne
  <2>3. AppendedOk(calls, shown, born) /\ born \subseteq born
    BY DEF TypeInv
  <2> DEFINE q == calls'
             g == [j \in DOMAIN calls' |-> From(i, j)]
  <2>4. \A j \in DOMAIN q : Brand(q[j]) =>
             /\ g[j] \in DOMAIN calls /\ Brand(calls[g[j]])
             /\ q[j].on = calls[g[j]].on /\ q[j].answer = calls[g[j]].answer
             /\ S[<<q[j].on, "there">>] # 2
    BY <2>1
  <2>5. \A j, l \in DOMAIN q : Brand(q[j]) /\ Brand(q[l]) /\ g[j] = g[l] => j = l
    BY <2>2
  <2> HIDE DEF g, q
  <2>6. AppendedOk(q, S, born)
    BY <2>3, <2>4, <2>5, AppendedKept
  <2> QED BY <2>6 DEF q
<1> QED BY <1>4, <1>5

LEMMA LoweredIn == \A c : Lowered(c) \subseteq busy
BY DEF Lowered

LEMMA ArriveType ==
    ASSUME TypeInv, NEW i \in DOMAIN calls, Arrive(i)
    PROVE  TypeInv'
<1> DEFINE c == calls[i]
           S == Patched(c)
<1>1. /\ c \in CallRec /\ CallFits(c) /\ c.state = "served"
      /\ page' = page /\ stored' = stored /\ born' = born
      /\ shown' = S
      /\ loaded' = (loaded \/ c.op = "load")
      /\ option' = (option \/ c.op = "pool")
      /\ behind' = (behind \ Written(c)) \cup
                   (DOMAIN c.answer \cap c.late) \cup Forgone(c) \cup
                   (DOMAIN c.answer \ Written(c)) \cup Twice(c)
      /\ calls' = RemoveAt(calls, i) \o Follow(c)
      /\ Follow(c) \in Seq(CallRec)
  BY ArriveIs
<1>2. page \in Pages /\ ShownOk(shown, born) /\ Written(c) \subseteq DOMAIN c.answer
  BY WrittenIn DEF TypeInv
<1>3. Brand(c) =>
        /\ c.on \in born \cap (Rows \cup Tags)
        /\ shown[<<c.on, "there">>] # 2
        /\ \A k \in DOMAIN c.answer : k[2] = "there" => k[1] = c.on /\ c.answer[k] = 1
        /\ \A j \in DOMAIN calls : Brand(calls[j]) /\ calls[j].on = c.on => j = i
  BY DEF TypeInv, AppendedOk
<1> DEFINE P == Patched(c)
<1>4. /\ DOMAIN S = Cells
      /\ \A k \in Cells :
           /\ k \notin Written(c) /\ c.op # "deleteRole" => S[k] = shown[k]
           /\ k \in Written(c) /\ c.op # "deleteRole" =>
                S[k] = IF Appends(c) /\ k[2] = "there" THEN shown[k] + 1 ELSE c.answer[k]
           /\ c.op = "deleteRole" /\ k[1] = c.on => S[k] = Blank(k[2])
           /\ c.op = "deleteRole" /\ k[1] # c.on /\ k[2] = "tags" =>
                S[k] = (IF k \in Written(c) THEN c.answer[k] ELSE shown[k]) \ {c.on}
           /\ c.op = "deleteRole" /\ k[1] # c.on /\ k[2] # "tags" =>
                S[k] = IF k \in Written(c) THEN c.answer[k] ELSE shown[k]
  BY PatchedIs
<1>5. \A k \in DOMAIN c.answer : /\ c.answer[k] \in Values(k[2])
                                 /\ k[2] = "there" => c.answer[k] # 2
  BY <1>1 DEF CallFits
<1>6. \A k \in Cells : shown[k] \in Values(k[2]) /\ (k[2] = "there" /\ shown[k] = 2 => k[1] \in born)
  BY <1>2 DEF ShownOk
<1> HIDE DEF c, S
(* A cell that says whether the row is there. *)
<1>7. ASSUME NEW k \in Cells, k[2] = "there", S[k] # 0
      PROVE  \/ S[k] = shown[k]
             \/ k \in DOMAIN c.answer /\ S[k] = c.answer[k]
             \/ Brand(c) /\ k \in DOMAIN c.answer /\ S[k] = shown[k] + 1
  <2>1. CASE c.op = "deleteRole"
    BY <1>2, <1>4, <1>7, <2>1, BlanksAre
  <2>2. CASE c.op # "deleteRole"
    BY <1>1, <1>2, <1>4, <1>7, <2>2 DEF Brand
  <2> QED BY <2>1, <2>2
<1>8. ASSUME NEW k \in Cells, k[2] = "there"
      PROVE  S[k] \in 0..2 /\ (S[k] = 2 => \/ shown[k] = 2
                                           \/ Brand(c) /\ k[1] = c.on)
  <2>1. shown[k] \in 0..2
    BY <1>6, <1>8, ValuesAre
  <2>2. CASE S[k] = 0
    BY <2>2
  <2>3. CASE S[k] = shown[k]
    BY <2>1, <2>3
  <2>4. CASE k \in DOMAIN c.answer /\ S[k] = c.answer[k]
    BY <1>5, <1>8, <2>4, ValuesAre
  <2>5. CASE Brand(c) /\ k \in DOMAIN c.answer /\ S[k] = shown[k] + 1
    <3>1. k[1] = c.on /\ k = <<c.on, "there">>
      BY <1>2, <1>3, <1>8, <2>5, CellsAre
    <3>2. shown[k] # 2
      BY <1>3, <2>5, <3>1
    <3> QED BY <2>1, <2>5, <3>1, <3>2
  <2> QED BY <1>7, <1>8, <2>2, <2>3, <2>4, <2>5
<1>9. \A k \in Cells : S[k] \in Values(k[2])
  <2> SUFFICES ASSUME NEW k \in Cells PROVE S[k] \in Values(k[2])
    OBVIOUS
  <2>1. CASE k[2] = "there"
    BY <1>8, <2>1, ValuesAre
  <2>2. CASE k[2] # "there" /\ c.op # "deleteRole"
    BY <1>2, <1>4, <1>5, <1>6, <2>2
  <2>3. CASE k[2] # "there" /\ c.op = "deleteRole" /\ k[1] = c.on
    BY <1>4, <2>3, BlankFits
  <2>4. CASE k[2] # "there" /\ c.op = "deleteRole" /\ k[1] # c.on /\ k[2] # "tags"
    BY <1>2, <1>4, <1>5, <1>6, <2>4
  <2>5. CASE c.op = "deleteRole" /\ k[1] # c.on /\ k[2] = "tags"
    <3> DEFINE b == IF k \in Written(c) THEN c.answer[k] ELSE shown[k]
    <3>1. b \in SUBSET Tags
      BY <1>2, <1>5, <1>6, <2>5, ValuesAre
    <3>2. S[k] = b \ {c.on}
      BY <1>4, <2>5
    <3> HIDE DEF b
    <3> QED BY <2>5, <3>1, <3>2, ValuesAre
  <2> QED BY <2>1, <2>2, <2>3, <2>4, <2>5
<1>10. ShownOk(shown', born')
  <2>1. ASSUME NEW k \in Cells, k[2] = "there", S[k] = 2 PROVE k[1] \in born
    BY <1>3, <1>6, <1>8, <2>1
  <2> QED BY <1>1, <1>4, <1>9, <2>1 DEF ShownOk
<1>11. \A l \in DOMAIN Follow(c) : CallFits(Follow(c)[l]) /\ Follow(c)[l].state = "asked"
  <2>1. \A l \in DOMAIN Follow(c) : Following(c, Follow(c)[l])
    BY <1>1, <1>2, FollowIs
  <2> QED BY <2>1 DEF Following
<1>12. ASSUME NEW j \in DOMAIN calls, j # i, Brand(calls[j])
       PROVE  S[<<calls[j].on, "there">>] # 2
  <2> DEFINE k == <<calls[j].on, "there">>
  <2>1. calls[j].on \in born \cap (Rows \cup Tags) /\ shown[k] # 2
    BY <1>12 DEF TypeInv, AppendedOk
  <2>2. Brand(c) => calls[j].on # c.on
    BY <1>3, <1>12
  <2>3. k \in Cells
    <3>1. Asks(calls[j]) /\ calls[j].op \in {"create", "createRole"}
      BY <1>2, <1>12, TypeInvIs, CallOf DEF Brand, Appends, Fetches
    <3>2. calls[j].op = "createRole" => page = "team"
      BY <1>2, <3>1, OpsAre
    <3>3. calls[j].on \in Rows \/ (page = "team" /\ calls[j].on \in Tags)
      BY <2>1, <3>1, <3>2 DEF Asks, ArgFits
    <3> QED BY <3>3, RowCellsAre
  <2> QED BY <1>8, <2>1, <2>2, <2>3
<1>13. CallsOk(calls') /\ AppendedOk(calls', S, born)
  BY <1>1, <1>11, <1>12, GoneType
<1>14. RestOk(born', loaded', option', busy', behind')
  <2>1. busy' \subseteq Ops \X Someone
    <3>1. busy' = IF c.op = "pool" /\ c.live
                  THEN {b \in Lowered(c) : b[1] # "department"} \cup {<<"department", c.on>>}
                  ELSE Lowered(c)
      BY DEF Arrive, c
    <3>2. "department" \in Ops /\ c.on \in Someone
      BY <1>1 DEF Ops, CallRec
    <3> QED BY <3>1, <3>2, LoweredIn DEF TypeInv, RestOk
  <2>2. behind' \subseteq Cells
    <3>1. DOMAIN c.answer \subseteq Cells
      BY <1>1 DEF CallFits
    <3>2. Twice(c) \subseteq Cells
      <4>1. c.op = "create" \/ c.op = "createRole" => <<c.on, "there">> \in Cells
        <5>1. Appends(c) => Brand(c)
          BY <1>1 DEF Brand
        <5>2. Appends(c) => Asks(c)
          BY <1>1, <1>2, CallOf DEF Appends, Fetches
        <5>3. c.op = "createRole" => page = "team" /\ c.on \in Tags
          BY <1>2, <1>3, <5>1, <5>2, OpsAre DEF Appends, Asks, ArgFits
        <5>4. c.op = "create" => c.on \in Rows
          BY <1>3, <5>1, <5>2 DEF Appends, Asks, ArgFits
        <5> QED BY <5>3, <5>4, RowCellsAre
      <4> QED BY <4>1 DEF Twice, Appends
    <3>3. behind \subseteq Cells
      BY DEF TypeInv, RestOk
    <3>4. Forgone(c) \subseteq Cells
      BY <1>2, <3>1 DEF Forgone, Blanked
    <3> QED BY <1>1, <3>1, <3>2, <3>3, <3>4
  <2>3. loaded' \in BOOLEAN /\ option' \in BOOLEAN
    BY <1>1 DEF TypeInv, RestOk
  <2> QED BY <1>1, <2>1, <2>2, <2>3 DEF TypeInv, RestOk
<1>15. Sound(stored', born')
  BY <1>1 DEF TypeInv
<1> QED BY <1>1, <1>2, <1>10, <1>13, <1>14, <1>15, TypeThen

LEMMA FailIs ==
    ASSUME TypeInv, NEW i \in DOMAIN calls, Fail(i)
    PROVE  /\ calls' = RemoveAt(calls, i) \o <<>> /\ <<>> \in Seq(CallRec)
           /\ calls[i].state = "refused" /\ behind' = behind \cup calls[i].due
           /\ busy' = Lowered(calls[i]) /\ calls[i] \in CallRec
           /\ page' = page /\ stored' = stored /\ born' = born /\ shown' = shown
           /\ loaded' = loaded /\ option' = option
<1>1. calls \in Seq(CallRec) /\ calls[i] \in CallRec
  BY TypeInvIs
<1>2. RemoveAt(calls, i) \in Seq(CallRec)
  BY <1>1, Left
<1>3. RemoveAt(calls, i) \o <<>> = RemoveAt(calls, i)
  BY <1>2, ConcatEmptySeq
<1>4. <<>> \in Seq(CallRec)
  OBVIOUS
<1> QED BY <1>1, <1>3, <1>4 DEF Fail, server

LEMMA FailType ==
    ASSUME TypeInv, NEW i \in DOMAIN calls, Fail(i)
    PROVE  TypeInv'
<1> DEFINE t == <<>>
<1>1. /\ calls' = RemoveAt(calls, i) \o t /\ t \in Seq(CallRec)
      /\ calls[i].state = "refused" /\ behind' = behind \cup calls[i].due
      /\ busy' = Lowered(calls[i]) /\ calls[i] \in CallRec
      /\ page' = page /\ stored' = stored /\ born' = born /\ shown' = shown
      /\ loaded' = loaded /\ option' = option
  BY FailIs
<1>2. \A l \in DOMAIN t : CallFits(t[l]) /\ t[l].state = "asked"
  OBVIOUS
<1>3. \A j \in DOMAIN calls : j # i /\ Brand(calls[j]) => shown[<<calls[j].on, "there">>] # 2
  BY DEF TypeInv, AppendedOk
<1> HIDE DEF t
<1>4. CallsOk(calls') /\ AppendedOk(calls', shown, born)
  BY <1>1, <1>2, <1>3, GoneType
<1>5. RestOk(born', loaded', option', busy', behind')
  <2>1. calls[i].due \subseteq Cells
    BY <1>1, CallKept
  <2> QED BY <1>1, <2>1, LoweredIn DEF TypeInv, RestOk
<1>6. Sound(stored', born') /\ ShownOk(shown', born') /\ page \in Pages
  BY <1>1 DEF TypeInv
<1> QED BY <1>1, <1>4, <1>5, <1>6, TypeThen

(* What is changed from elsewhere. *)
Stirred(S) ==
    \/ \E r \in Rows, f \in FieldsOf[page] : There(r) /\ \E v \in Settable(r, f) : S = Set(<<r, f>>, v)
    \/ page = "team" /\ \E r \in Rows, v \in Values("role") : There(r) /\ S = RoleSet(r, v)
    \/ page = "request" /\ \E r \in Rows, v \in 1..2 : S = Stamped(r, v)

LEMMA OthersStir ==
    ASSUME Others
    PROVE  \E S : Stirred(S) /\ Elsewhere(S)
<1>1. PICK r \in Rows : There(r) /\ (FieldChanged(r) \/ RoleChanged(r) \/ RequestMoved(r))
  BY DEF Others
<1>2. CASE FieldChanged(r)
  <2>1. PICK f \in FieldsOf[page] \cap Touched : \E v \in Settable(r, f) : Elsewhere(Set(<<r, f>>, v))
    BY <1>2 DEF FieldChanged
  <2>2. PICK v \in Settable(r, f) : Elsewhere(Set(<<r, f>>, v))
    BY <2>1
  <2>3. Stirred(Set(<<r, f>>, v))
    BY <1>1 DEF Stirred
  <2> QED BY <2>2, <2>3
<1>3. CASE RoleChanged(r)
  <2>1. PICK v \in Values("role") : page = "team" /\ Elsewhere(RoleSet(r, v))
    BY <1>3 DEF RoleChanged
  <2>2. Stirred(RoleSet(r, v))
    BY <1>1, <2>1 DEF Stirred
  <2> QED BY <2>1, <2>2
<1>4. CASE RequestMoved(r)
  <2>1. PICK v \in 1..2 : page = "request" /\ Elsewhere(Stamped(r, v))
    BY <1>4 DEF RequestMoved
  <2>2. Stirred(Stamped(r, v))
    BY <2>1 DEF Stirred
  <2> QED BY <2>1, <2>2
<1> QED BY <1>1, <1>2, <1>3, <1>4

LEMMA SettableIs ==
    ASSUME NEW r, NEW f
    PROVE  /\ f = "tags" => Settable(r, f) = SUBSET TagsIn(stored)
           /\ f = "teamLead" => Settable(r, f) = ({NoRow} \cup RowsIn(stored)) \ {r}
           /\ f \notin {"tags", "teamLead"} => Settable(r, f) = Values(f)
BY DEF Settable

LEMMA StirredSound ==
    ASSUME Whole, NEW S, Stirred(S)
    PROVE  Sound(S, born)
<1>1. ASSUME NEW r \in Rows, NEW f \in FieldsOf[page], There(r), NEW v \in Settable(r, f)
      PROVE  Sound(Set(<<r, f>>, v), born)
  <2>1. CASE f = "tags"
    <3>1. /\ v \subseteq TagsIn(stored) /\ stored[<<r, "there">>] = 1
          /\ page \in Pages /\ Sound(stored, born) /\ "tags" \in FieldsOf[page]
      BY <1>1, <2>1, SettableIs DEF Whole, There
    <3>2. Sound([stored EXCEPT ![<<r, "tags">>] = v], born)
      BY <3>1, TagsSound
    <3> QED BY <2>1, <3>2 DEF Set
  <2>2. CASE f = "teamLead"
    <3>1. v \in {NoRow} \cup RowsIn(stored)
      BY <2>2, SettableIs
    <3>2. Sound(Set(<<r, "teamLead">>, v), born)
      BY <1>1, <2>2, <3>1, LeadSound
    <3> QED BY <2>2, <3>2
  <2>3. CASE f \notin {"tags", "teamLead"}
    <3>1. v \in Values(f)
      BY <2>3, SettableIs
    <3> QED BY <2>3, <3>1, SetSound
  <2> QED BY <2>1, <2>2, <2>3
<1>2. ASSUME page = "team", NEW r \in Rows, NEW v \in Values("role"), There(r)
      PROVE  Sound(RoleSet(r, v), born)
  BY <1>2, RoleSound
<1>3. ASSUME page = "request", NEW r \in Rows, NEW v \in 1..2
      PROVE  Sound(Stamped(r, v), born)
  <2>1. v \in 0..2
    BY <1>3
  <2> QED BY <1>3, <2>1, StampedSound
<1>4. CASE \E r \in Rows, f \in FieldsOf[page] : There(r) /\ \E v \in Settable(r, f) : S = Set(<<r, f>>, v)
  BY <1>1, <1>4
<1>5. CASE page = "team" /\ \E r \in Rows, v \in Values("role") : There(r) /\ S = RoleSet(r, v)
  BY <1>2, <1>5
<1>6. CASE page = "request" /\ \E r \in Rows, v \in 1..2 : S = Stamped(r, v)
  BY <1>3, <1>6
<1> QED BY <1>4, <1>5, <1>6 DEF Stirred

(* A step, click by click and call by call. *)
LEMMA Steps ==
    ASSUME TypeInv, Next
    PROVE  \/ SelectView
           \/ \E c \in CallRec : Clicked(c) /\ Ask(c)
           \/ \E i \in DOMAIN calls : Serve(i)
           \/ \E i \in DOMAIN calls : ServeFetch(i)
           \/ \E i \in DOMAIN calls : Refuse(i)
           \/ \E i \in DOMAIN calls : Arrive(i)
           \/ \E i \in DOMAIN calls : Fail(i)
           \/ \E S : Stirred(S) /\ Elsewhere(S)
<1>1. CASE TeamClick \/ PlatformClick \/ OtherClick
  BY <1>1, TypeInvIs, Clicks DEF Click
<1>2. CASE Transport
  BY <1>2 DEF Transport
<1>3. CASE Others
  BY <1>3, OthersStir
<1> QED BY <1>1, <1>2, <1>3 DEF Next

LEMMA NextType ==
    ASSUME TypeInv, Next
    PROVE  TypeInv'
<1>1. CASE SelectView
  BY <1>1, SelectViewType
<1>2. CASE \E c \in CallRec : Clicked(c) /\ Ask(c)
  BY <1>2, AskType
<1>3. CASE \E i \in DOMAIN calls : Serve(i)
  BY <1>3, ServeType
<1>4. CASE \E i \in DOMAIN calls : ServeFetch(i)
  BY <1>4, ServeFetchType
<1>5. CASE \E i \in DOMAIN calls : Refuse(i)
  BY <1>5, RefuseType
<1>6. CASE \E i \in DOMAIN calls : Arrive(i)
  BY <1>6, ArriveType
<1>7. CASE \E i \in DOMAIN calls : Fail(i)
  BY <1>7, FailType
<1>8. CASE \E S : Stirred(S) /\ Elsewhere(S)
  <2>1. Whole
    BY TypeInvIs
  <2> QED BY <1>8, <2>1, StirredSound, ElsewhereType
<1> QED BY <1>1, <1>2, <1>3, <1>4, <1>5, <1>6, <1>7, <1>8, Steps

LEMMA TypeStep == TypeInv /\ [Next]_vars => TypeInv'
<1> SUFFICES ASSUME TypeInv, [Next]_vars PROVE TypeInv'
  OBVIOUS
<1>1. CASE Next
  BY <1>1, NextType
<1>2. CASE UNCHANGED vars
  <2>1. /\ page' = page /\ stored' = stored /\ born' = born /\ shown' = shown /\ loaded' = loaded
        /\ option' = option /\ busy' = busy /\ behind' = behind /\ calls' = calls
    BY <1>2 DEF vars, server, view
  <2>2. CallsOk(calls') /\ AppendedOk(calls', shown', born')
    BY <2>1 DEF TypeInv
  <2>3. RestOk(born', loaded', option', busy', behind')
    BY <2>1 DEF TypeInv
  <2>4. page \in Pages /\ Sound(stored', born') /\ ShownOk(shown', born')
    BY <2>1 DEF TypeInv
  <2> QED BY <2>1, <2>2, <2>3, <2>4, TypeThen
<1> QED BY <1>1, <1>2

LEMMA TypeAlways == Spec => []TypeInv
<1>1. Init => TypeInv
  BY InitType
<1> QED BY <1>1, TypeStep, PTL DEF Spec

(* Whatever is clicked, served, lost or changed elsewhere, the page and    *)
(* the database hold values of their fields, and the rows of the team page *)
(* refer to leads and tags that exist (onDelete: SetNull and Cascade).     *)
THEOREM TypeCorrect == Spec => []TypeOK
BY TypeAlways, TypeOkFollows, PTL

-----------------------------------------------------------------------------
(* What a page is still to be told *)

Deleting(c) == c.op = "deleteRole" /\ c.state = "served"

(* Tags that will go from the copy of a row when the answer arrives. *)
Going(q, k) == {t \in Tags : \E j \in DOMAIN q : Deleting(q[j]) /\ k \in q[j].due /\ q[j].on = t}

Settled(q, D, S, k) ==
    IF k[2] = "tags" THEN D[k] \ Going(q, k) = Counted(S)[k] ELSE D[k] = Counted(S)[k]

(* A call whose answer, or whose failure, accounts for the cell. *)
Owes(c, k) == /\ k \in c.due
              /\ ~(Deleting(c) /\ k[2] = "tags")
              /\ c.op = "catalog" => k \in CatalogCells

Owed(q, k) == \E j \in DOMAIN q : Owes(q[j], k)

(* What an answer holds is true, or it is known to be late. *)
AnswerTrue(c, S) ==
    \A k \in DOMAIN c.answer \ (c.late \cup Narrow(c)) : c.answer[k] = Counted(S)[k]

(* What an answer does not bring of its changes, the fetch that follows does. *)
Brings(c, S, B) ==
    /\ c.op \in Fetches => DOMAIN c.answer \subseteq UNION Parts(c)
    /\ c.op \in Fetches /\ c.state = "served" => DOMAIN c.answer = UNION Parts(c)
    /\ c.op \notin Fetches /\ c.state = "asked" => c.due = {}
    /\ c.op \notin Fetches /\ c.state = "served" =>
         c.due \subseteq DOMAIN c.answer \cup Again(c) \cup (IF Deleting(c) THEN TagCells ELSE {})
    /\ Deleting(c) => /\ page = "team" /\ c.on \in Tags \cap B /\ S[<<c.on, "there">>] = 0
                      /\ DOMAIN c.answer = {c.on} \X {"there", "members"}

QuietOf(q, S, B, D, l, b) ==
    /\ \A j \in DOMAIN q : AnswerTrue(q[j], S) /\ Brings(q[j], S, B)
    /\ l => \A k \in Cells \ b : Settled(q, D, S, k) \/ Owed(q, k)

QuietInv == QuietOf(calls, stored, born, shown, loaded, behind)

LEMMA QuietThen ==
    ASSUME page' = page, QuietOf(calls', stored', born', shown', loaded', behind')
    PROVE  QuietInv'
<1>1. Cells' = Cells /\ CatalogCells' = CatalogCells /\ UserCells' = UserCells
  BY PageStays
<1>2. (\A j \in DOMAIN calls : AnswerTrue(calls[j], stored))'
  <2>1. \A j \in DOMAIN calls' : AnswerTrue(calls'[j], stored')
    BY DEF QuietOf
  <2> SUFFICES ASSUME NEW j \in DOMAIN calls' PROVE AnswerTrue(calls[j], stored)'
    OBVIOUS
  <2>2. Counted(stored)' = Counted(stored')
    BY <1>1 DEF Counted, Holding
  <2>3. Narrow(calls[j])' = Narrow(calls'[j])
    BY DEF Narrow
  <2> QED BY <2>1, <2>2, <2>3 DEF AnswerTrue
<1>3. (\A j \in DOMAIN calls : Brings(calls[j], stored, born))'
  <2>1. \A j \in DOMAIN calls' : Brings(calls'[j], stored', born')
    BY DEF QuietOf
  <2> QED BY <1>1, <2>1 DEF Brings, Parts, Again, LoadsAgain, CatalogAgain, TagCells, Deleting
<1>4. (loaded => \A k \in Cells \ behind : Settled(calls, shown, stored, k) \/ Owed(calls, k))'
  <2>1. loaded' => \A k \in Cells \ behind' : Settled(calls', shown', stored', k) \/ Owed(calls', k)
    BY DEF QuietOf
  <2> QED BY <1>1, <2>1 DEF Settled, Going, Deleting, Counted, Holding, Owed, Owes
<1> QED BY <1>2, <1>3, <1>4 DEF QuietInv, QuietOf

(* A tag that is going is of nobody. *)
LEMMA GoingAreGone ==
    ASSUME page \in Pages, NEW S, NEW B, Sound(S, B), NEW q,
           \A j \in DOMAIN q : Brings(q[j], S, B), NEW k \in Cells, k[2] = "tags"
    PROVE  Going(q, k) \cap Counted(S)[k] = {}
<1> SUFFICES ASSUME NEW t \in Going(q, k), t \in Counted(S)[k] PROVE FALSE
  OBVIOUS
<1>1. page = "team" /\ t \in Tags /\ S[<<t, "there">>] = 0
  BY DEF Going, Brings
<1>2. k = <<k[1], "tags">> /\ k[1] \in Rows /\ t \in S[k]
  BY CellsAre, CountedIs
<1>3. t \in TagsIn(S)
  BY <1>1, <1>2 DEF Sound
<1> QED BY <1>1, <1>3 DEF TagsIn

LEMMA TrueIsSettled ==
    ASSUME page \in Pages, NEW S, NEW B, Sound(S, B), NEW q,
           \A j \in DOMAIN q : Brings(q[j], S, B), NEW k \in Cells, NEW D, D[k] = Counted(S)[k]
    PROVE  Settled(q, D, S, k)
<1>1. CASE k[2] = "tags"
  <2>1. Going(q, k) \cap Counted(S)[k] = {}
    BY <1>1, GoingAreGone
  <2> QED BY <1>1, <2>1 DEF Settled
<1>2. CASE k[2] # "tags"
  BY <1>2 DEF Settled
<1> QED BY <1>1, <1>2

LEMMA GoingFrom ==
    ASSUME NEW q, NEW p, NEW k,
           \A j \in DOMAIN q : Deleting(q[j]) /\ k \in q[j].due =>
             \E l \in DOMAIN p : Deleting(p[l]) /\ k \in p[l].due /\ p[l].on = q[j].on
    PROVE  Going(q, k) \subseteq Going(p, k)
BY DEF Going

(* Calls alike in all that counts here. *)
Alike(c, d) == /\ c.op = d.op /\ c.on = d.on /\ c.arg = d.arg /\ c.state = d.state
               /\ c.due = d.due /\ c.answer = d.answer

LEMMA AlikeBring ==
    ASSUME NEW c, NEW d, Alike(c, d), NEW S, NEW B
    PROVE  Brings(c, S, B) <=> Brings(d, S, B)
<1>1. Parts(c) = Parts(d) /\ Again(c) = Again(d) /\ (Deleting(c) <=> Deleting(d))
  BY DEF Alike, Parts, Again, LoadsAgain, CatalogAgain, Deleting
<1> QED BY <1>1 DEF Brings, Alike

(* Tags that do not come back. *)
Buried(S) == page = "team" =>
    \A t \in Tags \cap born : stored[<<t, "there">>] = 0 => S[<<t, "there">>] = 0

LEMMA AgedQuiet ==
    ASSUME TypeInv, QuietInv, NEW S, Buried(S), NEW B, born \subseteq B, NEW j \in DOMAIN calls
    PROVE  LET d == Older(calls[j], Changed(S))
           IN  AnswerTrue(d, S) /\ Brings(d, S, B) /\ Alike(calls[j], d)
<1> DEFINE c == calls[j]
           d == Older(c, Changed(S))
<1>1. /\ c \in CallRec /\ CallFits(c) /\ Changed(S) \in SUBSET Cells
      /\ AnswerTrue(c, stored) /\ Brings(c, stored, born)
  BY TypeInvIs, ChangedIs DEF QuietInv, QuietOf
<1> HIDE DEF c
<1>2. /\ Alike(c, d) /\ d.late = c.late \cup (Changed(S) \cap DOMAIN c.answer)
  BY <1>1, OlderIs DEF Alike
<1> HIDE DEF d
<1>3. AnswerTrue(d, S)
  <2> SUFFICES ASSUME NEW k \in DOMAIN d.answer \ (d.late \cup Narrow(d))
               PROVE  d.answer[k] = Counted(S)[k]
    BY DEF AnswerTrue
  <2>1. Narrow(d) = Narrow(c)
    BY <1>2 DEF Alike, Narrow
  <2>2. k \in DOMAIN c.answer \ (c.late \cup Narrow(c)) /\ k \in Cells \ Changed(S)
    BY <1>1, <1>2, <2>1 DEF Alike, CallFits
  <2>3. Counted(S)[k] = Truth[k]
    BY <2>2, ChangedIs
  <2> QED BY <1>1, <1>2, <2>2, <2>3 DEF AnswerTrue, Alike, Truth
<1>4. Brings(c, S, B)
  BY <1>1 DEF Brings, Buried
<1>5. Brings(d, S, B)
  BY <1>2, <1>4, AlikeBring
<1> QED BY <1>2, <1>3, <1>5 DEF c, d

LEMMA MappedQuiet ==
    ASSUME QuietInv, page' = page, shown' = shown, loaded' = loaded,
           DOMAIN calls' = DOMAIN calls, behind \subseteq behind',
           \A j \in DOMAIN calls :
             /\ calls'[j].op = calls[j].op /\ calls'[j].due = calls[j].due
             /\ calls'[j].on = calls[j].on /\ (Deleting(calls'[j]) <=> Deleting(calls[j]))
             /\ AnswerTrue(calls'[j], stored') /\ Brings(calls'[j], stored', born'),
           \A k \in Cells \ behind' : Counted(stored')[k] = Truth[k]
    PROVE  QuietInv'
<1>1. \A k \in Cells : Owed(calls, k) => Owed(calls', k)
  BY DEF Owed, Owes
<1>2. \A k \in Cells : Going(calls', k) = Going(calls, k)
  BY DEF Going
<1>3. ASSUME loaded', NEW k \in Cells \ behind'
      PROVE  Settled(calls', shown', stored', k) \/ Owed(calls', k)
  <2>1. Settled(calls, shown, stored, k) \/ Owed(calls, k)
    BY <1>3 DEF QuietInv, QuietOf
  <2> QED BY <1>1, <1>2, <2>1 DEF Settled, Truth
<1>4. QuietOf(calls', stored', born', shown', loaded', behind')
  BY <1>3 DEF QuietOf
<1> QED BY <1>4, QuietThen

LEMMA AlikeTrue ==
    ASSUME NEW c, NEW d, Alike(c, d), d.late = c.late, NEW S
    PROVE  AnswerTrue(c, S) <=> AnswerTrue(d, S)
<1>1. Narrow(c) = Narrow(d)
  BY DEF Alike, Narrow
<1> QED BY <1>1 DEF Alike, AnswerTrue

(* A call that was just asked for. *)
LEMMA AskedQuiet ==
    ASSUME NEW c, c.state = "asked", c.answer = <<>>, c.op \notin Fetches => c.due = {}, NEW S, NEW B
    PROVE  AnswerTrue(c, S) /\ Brings(c, S, B) /\ ~Deleting(c)
<1>1. DOMAIN c.answer = {}
  BY NoAnswer
<1> QED BY <1>1 DEF AnswerTrue, Brings, Deleting

LEMMA InitQuiet ==
    ASSUME Init
    PROVE  QuietInv
<1> DEFINE c == Call("load", NoRow, FALSE)
<1>1. c.state = "asked" /\ c.answer = <<>> /\ c.op = "load"
  BY DEF Call
<1>2. calls = <<c>> /\ ~loaded
  BY DEF Init
<1> HIDE DEF c
<1>3. AnswerTrue(c, stored) /\ Brings(c, stored, born)
  BY <1>1, AskedQuiet DEF Fetches
<1>4. \A j \in DOMAIN calls : calls[j] = c
  BY <1>2
<1> QED BY <1>2, <1>3, <1>4 DEF QuietInv, QuietOf

LEMMA AskQuiet ==
    ASSUME TypeInv, QuietInv, NEW c \in CallRec, Clicked(c), Ask(c)
    PROVE  QuietInv'
<1>1. /\ calls' = Append(calls, c) /\ page' = page /\ stored' = stored /\ born' = born
      /\ shown' = shown /\ loaded' = loaded /\ behind' = behind
  BY DEF Ask, server
<1>2. /\ calls \in Seq(CallRec)
      /\ \A j \in DOMAIN calls : j \in DOMAIN calls' /\ calls'[j] = calls[j]
      /\ \A j \in DOMAIN calls' : j \in DOMAIN calls \/ calls'[j] = c
  BY <1>1, TypeInvIs
<1>3. AnswerTrue(c, stored) /\ Brings(c, stored, born) /\ ~Deleting(c)
  BY AskedQuiet DEF Clicked
<1>4. \A k : Owed(calls, k) => Owed(calls', k)
  BY <1>2 DEF Owed
<1>5. \A k : Going(calls', k) = Going(calls, k)
  BY <1>2, <1>3 DEF Going
<1>6. QuietOf(calls', stored', born', shown', loaded', behind')
  <2>1. \A j \in DOMAIN calls' : AnswerTrue(calls'[j], stored') /\ Brings(calls'[j], stored', born')
    BY <1>1, <1>2, <1>3 DEF QuietInv, QuietOf
  <2>2. \A k \in Cells \ behind : Settled(calls, shown, stored, k) => Settled(calls', shown', stored', k)
    BY <1>1, <1>5 DEF Settled
  <2> QED BY <1>1, <1>4, <2>1, <2>2 DEF QuietInv, QuietOf
<1> QED BY <1>1, <1>6, QuietThen

LEMMA SelectViewQuiet ==
    ASSUME TypeInv, QuietInv, SelectView
    PROVE  QuietInv'
<1>1. /\ page' = page /\ stored' = stored /\ born' = born /\ shown' = shown /\ loaded' = loaded
      /\ behind' = behind
      /\ calls' = [j \in DOMAIN calls |-> [calls[j] EXCEPT !.live = calls[j].op \in Fetches]]
  BY DEF SelectView, server
<1>2. ASSUME NEW j \in DOMAIN calls
      PROVE  /\ calls'[j].op = calls[j].op /\ calls'[j].due = calls[j].due
             /\ calls'[j].on = calls[j].on /\ (Deleting(calls'[j]) <=> Deleting(calls[j]))
             /\ AnswerTrue(calls'[j], stored') /\ Brings(calls'[j], stored', born')
  <2> DEFINE c == calls[j]
             d == [c EXCEPT !.live = c.op \in Fetches]
  <2>1. c \in CallRec /\ AnswerTrue(c, stored) /\ Brings(c, stored, born) /\ calls'[j] = d
    BY <1>1, TypeInvIs DEF QuietInv, QuietOf
  <2> HIDE DEF c
  <2>2. Alike(c, d) /\ d.late = c.late
    BY <2>1 DEF CallRec, Alike
  <2> HIDE DEF d
  <2>3. AnswerTrue(d, stored) /\ Brings(d, stored, born)
    BY <2>1, <2>2, AlikeTrue, AlikeBring
  <2> QED BY <1>1, <2>1, <2>2, <2>3 DEF Alike, Deleting, c
<1> QED BY <1>1, <1>2, MappedQuiet DEF Truth

LEMMA StirredBuries ==
    ASSUME Whole, NEW S, Stirred(S)
    PROVE  Buried(S)
<1> SUFFICES ASSUME page = "team", NEW t \in Tags PROVE S[<<t, "there">>] = stored[<<t, "there">>]
  BY DEF Buried
<1>1. page \in Pages /\ <<t, "there">> \in Cells /\ t \notin Rows /\ DOMAIN stored = Cells
  BY RowCellsAre DEF Whole, Sound
<1>2. ASSUME NEW r \in Rows, NEW f \in FieldsOf[page], NEW v
      PROVE  DOMAIN Set(<<r, f>>, v) = Cells /\ Set(<<r, f>>, v)[<<t, "there">>] = stored[<<t, "there">>]
  <2>1. <<r, f>> \in Cells /\ <<r, f>> # <<t, "there">>
    BY <1>1, RowCellsAre
  <2> QED BY <1>1, <2>1, SetIs
<1>3. ASSUME NEW r \in Rows, NEW v
      PROVE  RoleSet(r, v)[<<t, "there">>] = stored[<<t, "there">>]
  <2> DEFINE U == Set(<<r, "role">>, v)
  <2>1. DOMAIN U = Cells /\ U[<<t, "there">>] = stored[<<t, "there">>]
    BY <1>1, <1>2, Fields
  <2>2. <<r, "tags">> # <<t, "there">>
    OBVIOUS
  <2> HIDE DEF U
  <2>3. Assigned(U, r)[<<t, "there">>] = U[<<t, "there">>]
    BY <1>1, <2>1, <2>2 DEF Assigned
  <2> QED BY <2>1, <2>3 DEF RoleSet, U
<1>4. CASE \E r \in Rows, f \in FieldsOf[page] : There(r) /\ \E v \in Settable(r, f) : S = Set(<<r, f>>, v)
  BY <1>2, <1>4
<1>5. CASE \E r \in Rows, v \in Values("role") : There(r) /\ S = RoleSet(r, v)
  BY <1>3, <1>5
<1> QED BY <1>4, <1>5 DEF Stirred

LEMMA ElsewhereQuiet ==
    ASSUME TypeInv, QuietInv, NEW S, Stirred(S), Elsewhere(S)
    PROVE  QuietInv'
<1>1. /\ page' = page /\ stored' = S /\ born' = born /\ shown' = shown /\ loaded' = loaded
      /\ behind' = behind \cup Changed(S) /\ calls' = Aged(Changed(S), 0)
  BY DEF Elsewhere, view
<1>2. Buried(S)
  BY TypeInvIs, StirredBuries
<1>3. DOMAIN calls' = DOMAIN calls /\ \A j \in DOMAIN calls : calls'[j] = Older(calls[j], Changed(S))
  <2>1. 0 \notin DOMAIN calls
    BY TypeInvIs
  <2> QED BY <1>1, <2>1, AgedIs
<1>4. \A j \in DOMAIN calls : /\ AnswerTrue(calls'[j], S) /\ Brings(calls'[j], S, born)
                              /\ Alike(calls[j], calls'[j])
  BY <1>2, <1>3, AgedQuiet
<1>5. \A k \in Cells \ behind' : Counted(S)[k] = Truth[k]
  BY <1>1, ChangedIs
<1>6. \A j \in DOMAIN calls :
             /\ calls'[j].op = calls[j].op /\ calls'[j].due = calls[j].due
             /\ calls'[j].on = calls[j].on /\ (Deleting(calls'[j]) <=> Deleting(calls[j]))
             /\ AnswerTrue(calls'[j], stored') /\ Brings(calls'[j], stored', born')
  BY <1>1, <1>4 DEF Alike, Deleting
<1> QED BY <1>1, <1>3, <1>5, <1>6, MappedQuiet

LEMMA ServeFetchQuiet ==
    ASSUME TypeInv, QuietInv, NEW i \in DOMAIN calls, ServeFetch(i)
    PROVE  QuietInv'
<1> DEFINE c == calls[i]
<1>1. c \in CallRec /\ AnswerTrue(c, stored) /\ Brings(c, stored, born)
  BY TypeInvIs DEF QuietInv, QuietOf
<1>2. PICK K \in Parts(c) :
         LET read == K \cup DOMAIN c.answer
         IN  calls' = [calls EXCEPT ![i] =
               [c EXCEPT !.answer = [k \in read |-> IF k \in K THEN Truth[k] ELSE c.answer[k]],
                         !.state  = IF read = UNION Parts(c) THEN "served" ELSE @]]
  BY DEF ServeFetch
<1> DEFINE read == K \cup DOMAIN c.answer
           a == [k \in read |-> IF k \in K THEN Truth[k] ELSE c.answer[k]]
           s == IF read = UNION Parts(c) THEN "served" ELSE c.state
           d == [c EXCEPT !.answer = a, !.state = s]
<1>3. c.state = "asked" /\ c.op \in Fetches
  BY DEF ServeFetch
<1>4. calls' = [calls EXCEPT ![i] = d]
  BY <1>2
<1>5. /\ page' = page /\ stored' = stored /\ born' = born /\ shown' = shown /\ loaded' = loaded
      /\ behind' = behind
  BY DEF ServeFetch, server, view
<1>6. \A j \in DOMAIN calls : j # i => calls'[j] = calls[j]
  BY <1>4
<1>7. calls'[i] = d /\ DOMAIN calls' = DOMAIN calls
  BY <1>4
<1>8. DOMAIN a = read /\ \A k \in read : a[k] = IF k \in K THEN Truth[k] ELSE c.answer[k]
  OBVIOUS
<1>9. s = "served" => read = UNION Parts(c)
  BY <1>3
<1> HIDE DEF c, a, s
<1>10. /\ d.op = c.op /\ d.on = c.on /\ d.arg = c.arg /\ d.due = c.due /\ d.late = c.late
       /\ d.answer = a /\ d.state = s
  BY <1>1 DEF CallRec
<1> HIDE DEF d
<1>11. AnswerTrue(d, stored)
  <2>1. Narrow(d) = Narrow(c)
    BY <1>10 DEF Narrow
  <2>2. \A k \in read \ (c.late \cup Narrow(c)) : a[k] = Counted(stored)[k]
    BY <1>1, <1>8 DEF AnswerTrue, Truth
  <2> QED BY <1>8, <1>10, <2>1, <2>2 DEF AnswerTrue
<1>12. Brings(d, stored, born)
  <2>1. Parts(d) = Parts(c)
    BY <1>10 DEF Parts
  <2>2. read \subseteq UNION Parts(c)
    BY <1>1, <1>3 DEF Brings
  <2>3. ~Deleting(d)
    BY <1>3, <1>10 DEF Deleting, Fetches
  <2> QED BY <1>3, <1>8, <1>9, <1>10, <2>1, <2>2, <2>3 DEF Brings
<1>13. ~Deleting(c) /\ ~Deleting(d)
  BY <1>3, <1>10 DEF Deleting, Fetches
<1>14. ASSUME NEW j \in DOMAIN calls
       PROVE  /\ calls'[j].op = calls[j].op /\ calls'[j].due = calls[j].due
              /\ calls'[j].on = calls[j].on /\ (Deleting(calls'[j]) <=> Deleting(calls[j]))
              /\ AnswerTrue(calls'[j], stored') /\ Brings(calls'[j], stored', born')
  <2>1. CASE j = i
    BY <1>5, <1>7, <1>10, <1>11, <1>12, <1>13, <2>1 DEF c
  <2>2. CASE j # i
    BY <1>5, <1>6, <2>2 DEF QuietInv, QuietOf
  <2> QED BY <2>1, <2>2
<1> QED BY <1>5, <1>7, <1>14, MappedQuiet DEF Truth

LEMMA RefuseQuiet ==
    ASSUME TypeInv, QuietInv, NEW i \in DOMAIN calls, Refuse(i)
    PROVE  QuietInv'
<1> DEFINE c == calls[i]
           d == Lost(c)
<1>1. c \in CallRec /\ Brings(c, stored, born)
  BY TypeInvIs DEF QuietInv, QuietOf
<1>2. \A j \in DOMAIN calls : calls'[j] = IF j = i THEN d ELSE calls[j]
  BY RefuseIs
<1>3. DOMAIN calls' = DOMAIN calls
  BY RefuseIs
<1>4. /\ page' = page /\ stored' = stored /\ born' = born /\ shown' = shown /\ loaded' = loaded
      /\ behind' = behind
  BY DEF Refuse, server, view
<1> HIDE DEF c
<1>5. /\ d.op = c.op /\ d.on = c.on /\ d.due = c.due
      /\ d.state = "refused" /\ d.answer = <<>> /\ d.late = {}
  BY <1>1, LostIs
<1> HIDE DEF d
<1>6. AnswerTrue(d, stored) /\ Brings(d, stored, born) /\ ~Deleting(d)
  BY <1>5, NoAnswer DEF AnswerTrue, Brings, Deleting
<1>7. \A k : Owes(c, k) => Owes(d, k)
  BY <1>5, <1>6 DEF Owes
<1>8. \A k : Owed(calls, k) => Owed(calls', k)
  BY <1>2, <1>3, <1>7 DEF Owed, c
<1>9. ASSUME NEW k, Deleting(c) => k \notin c.due
      PROVE  Going(calls', k) = Going(calls, k)
  <2>1. \A j \in DOMAIN calls : Deleting(calls[j]) /\ k \in calls[j].due <=>
                                Deleting(calls'[j]) /\ k \in calls'[j].due
    BY <1>2, <1>6, <1>9 DEF c
  <2>2. \A j \in DOMAIN calls : calls'[j].on = calls[j].on
    BY <1>2, <1>5 DEF c
  <2> QED BY <1>3, <2>1, <2>2 DEF Going
<1>10. ASSUME NEW k \in Cells, Settled(calls, shown, stored, k)
       PROVE  Settled(calls', shown', stored', k) \/ Owed(calls', k)
  <2>1. CASE Deleting(c) /\ k \in c.due
    <3>1. Owes(d, k)
      BY <1>5, <1>6, <2>1 DEF Owes, Deleting
    <3> QED BY <1>2, <1>3, <3>1 DEF Owed, c
  <2>2. CASE ~(Deleting(c) /\ k \in c.due)
    BY <1>4, <1>9, <1>10, <2>2 DEF Settled
  <2> QED BY <2>1, <2>2
<1>11. QuietOf(calls', stored', born', shown', loaded', behind')
  <2>1. \A j \in DOMAIN calls' : AnswerTrue(calls'[j], stored') /\ Brings(calls'[j], stored', born')
    BY <1>2, <1>3, <1>4, <1>6 DEF QuietInv, QuietOf
  <2>2. ASSUME loaded', NEW k \in Cells \ behind'
        PROVE  Settled(calls', shown', stored', k) \/ Owed(calls', k)
    BY <1>4, <1>8, <1>10, <2>2 DEF QuietInv, QuietOf
  <2> QED BY <2>1, <2>2 DEF QuietOf
<1> QED BY <1>4, <1>11, QuietThen

LEMMA Persists ==
    ASSUME TypeInv, NEW i \in DOMAIN calls, NEW t \in Seq(CallRec), calls' = RemoveAt(calls, i) \o t
    PROVE  /\ \A l \in DOMAIN calls \ {i} : \E j \in DOMAIN calls' : calls'[j] = calls[l]
           /\ \A l \in DOMAIN t : \E j \in DOMAIN calls' : calls'[j] = t[l]
<1> DEFINE s == calls
           u == RemoveAt(s, i) \o t
<1>1. s \in Seq(CallRec)
  BY TypeInvIs
<1> HIDE DEF s
<1>2. /\ DOMAIN u = 1..(Len(s) - 1 + Len(t))
      /\ \A l \in 1..Len(s)-1 : u[l] = s[From(i, l)]
      /\ \A l \in 1..Len(t) : u[Len(s) - 1 + l] = t[l]
  BY <1>1, Gone DEF s
<1> HIDE DEF u
<1>3. /\ DOMAIN s = 1..Len(s) /\ DOMAIN t = 1..Len(t) /\ Len(s) - 1 \in Nat /\ Len(t) \in Nat
      /\ i \in DOMAIN s
  BY <1>1 DEF s
<1>4. ASSUME NEW l \in DOMAIN s \ {i} PROVE \E j \in DOMAIN u : u[j] = s[l]
  <2>1. CASE l < i
    <3>1. l \in 1..Len(s)-1 /\ l \in DOMAIN u /\ From(i, l) = l
      BY <1>2, <1>3, <2>1 DEF From
    <3> QED BY <1>2, <3>1
  <2>2. CASE l > i
    <3>1. l - 1 \in 1..Len(s)-1 /\ l - 1 \in DOMAIN u /\ From(i, l - 1) = l
      BY <1>2, <1>3, <2>2 DEF From
    <3> QED BY <1>2, <3>1
  <2> QED BY <1>3, <2>1, <2>2
<1>5. ASSUME NEW l \in DOMAIN t PROVE \E j \in DOMAIN u : u[j] = t[l]
  <2>1. Len(s) - 1 + l \in DOMAIN u
    BY <1>2, <1>3
  <2> QED BY <1>2, <1>3, <2>1
<1> QED BY <1>4, <1>5 DEF s, u

LEMMA FailQuiet ==
    ASSUME TypeInv, QuietInv, NEW i \in DOMAIN calls, Fail(i)
    PROVE  QuietInv'
<1> DEFINE c == calls[i]
           t == <<>>
<1>1. /\ calls' = RemoveAt(calls, i) \o t /\ t \in Seq(CallRec)
      /\ c.state = "refused" /\ behind' = behind \cup c.due
      /\ page' = page /\ stored' = stored /\ born' = born /\ shown' = shown /\ loaded' = loaded
  BY FailIs
<1>2. DOMAIN t = {} /\ calls \in Seq(CallRec)
  BY TypeInvIs
<1> HIDE DEF c, t
<1>3. \A l \in DOMAIN calls \ {i} : \E j \in DOMAIN calls' : calls'[j] = calls[l]
  BY <1>1, Persists
<1>4. \A j \in DOMAIN calls' : \E l \in DOMAIN calls \ {i} : calls'[j] = calls[l]
  <2> SUFFICES ASSUME NEW j \in DOMAIN calls' PROVE \E l \in DOMAIN calls \ {i} : calls'[j] = calls[l]
    OBVIOUS
  <2>1. \/ From(i, j) \in DOMAIN calls \ {i} /\ j \in 1..Len(calls)-1 /\ calls'[j] = calls[From(i, j)]
        \/ j \notin 1..Len(calls)-1 /\ \E l \in DOMAIN t : calls'[j] = t[l]
    BY <1>1, Afterwards
  <2> QED BY <1>2, <2>1
<1>5. ~Deleting(c)
  BY <1>1 DEF Deleting
<1>6. \A k : Going(calls', k) = Going(calls, k)
  <2> TAKE k
  <2>1. Going(calls', k) \subseteq Going(calls, k)
    BY <1>4, GoingFrom
  <2>2. Going(calls, k) \subseteq Going(calls', k)
    <3>1. \A j \in DOMAIN calls : Deleting(calls[j]) /\ k \in calls[j].due =>
             \E l \in DOMAIN calls' : Deleting(calls'[l]) /\ k \in calls'[l].due /\ calls'[l].on = calls[j].on
      BY <1>3, <1>5 DEF c
    <3> QED BY <3>1 DEF Going
  <2> QED BY <2>1, <2>2
<1>7. \A k \in Cells \ behind' : Owed(calls, k) => Owed(calls', k)
  <2>1. \A k \in Cells \ behind' : ~Owes(c, k)
    BY <1>1 DEF Owes
  <2> QED BY <1>3, <2>1 DEF Owed, c
<1>8. QuietOf(calls', stored', born', shown', loaded', behind')
  <2>1. \A j \in DOMAIN calls' : AnswerTrue(calls'[j], stored') /\ Brings(calls'[j], stored', born')
    BY <1>1, <1>4 DEF QuietInv, QuietOf
  <2>2. ASSUME loaded', NEW k \in Cells \ behind'
        PROVE  Settled(calls', shown', stored', k) \/ Owed(calls', k)
    <3>1. Settled(calls, shown, stored, k) \/ Owed(calls, k)
      BY <1>1, <2>2 DEF QuietInv, QuietOf
    <3> QED BY <1>1, <1>6, <1>7, <2>2, <3>1 DEF Settled
  <2> QED BY <2>1, <2>2 DEF QuietOf
<1> QED BY <1>1, <1>8, QuietThen

(* What a call that is served becomes accounts for what it changed. *)
LEMMA AnsweringQuiet ==
    ASSUME Whole, NEW c \in CallRec, CallFits(c), Asks(c), Accepts(c), NEW x \in Given(c)
    PROVE  LET d == Answering(c, x)
               S == After(c, x)
           IN  /\ AnswerTrue(d, S) /\ Brings(d, S, Borne(c, x))
               /\ d.due = Changed(S) \ Untold(c) /\ d.op = c.op
               /\ Deleting(d) <=> c.op = "deleteRole"
               /\ c.op = "deleteRole" => d.on = c.on
<1> DEFINE d == Answering(c, x)
           S == After(c, x)
           R == Reads(c, x)
<1>1. Sound(S, Borne(c, x)) /\ page \in Pages
  BY AfterSound DEF Whole
<1>2. /\ d.op = c.op /\ d.on = x /\ d.arg = c.arg /\ d.state = "served"
      /\ d.late = c.late /\ d.due = Changed(S) \ Untold(c)
      /\ DOMAIN d.answer = R
      /\ \A k \in R : d.answer[k] = IF k \in Narrow(c) THEN Blank(k[2]) ELSE Counted(S)[k]
  BY <1>1, AnsweringIs
<1>3. /\ Changed(S) \ Untold(c) \subseteq R \cup Again(c) \cup (IF c.op = "deleteRole" THEN TagCells ELSE {})
  BY Footprint
<1> HIDE DEF d
<1>4. Narrow(d) = Narrow(c) /\ Again(d) = Again(c) /\ (Deleting(d) <=> c.op = "deleteRole")
  BY <1>2 DEF Narrow, Again, LoadsAgain, CatalogAgain, Deleting
<1>5. AnswerTrue(d, S)
  BY <1>2, <1>4 DEF AnswerTrue
<1>6. ASSUME c.op = "deleteRole"
      PROVE  /\ page = "team" /\ x = c.on /\ c.on \in Tags \cap born /\ S[<<c.on, "there">>] = 0
             /\ R = {c.on} \X {"there", "members"}
  <2>1. page = "team" /\ c.on \in Tags /\ stored[<<c.on, "there">>] = 1 /\ x = c.on
        /\ R = {c.on} \X {"there", "members"} /\ S = TagRemoved(stored, c.on)
    <3>1. page = "team"
      BY <1>1, <1>6, OpsAre
    <3>2. c.on \in Tags /\ stored[<<c.on, "there">>] = 1
      BY <1>6, AcceptsIs DEF Asks, ArgFits, There
    <3>3. x = c.on
      BY <1>6, GivenIs
    <3>4. R = {c.on} \X {"there", "members"}
      BY <1>1, <1>6, ReadsAre
    <3>5. S = TagRemoved(stored, c.on)
      BY <1>6, AfterIs
    <3> QED BY <3>1, <3>2, <3>3, <3>4, <3>5
  <2>2. <<c.on, "there">> \in Cells
    BY <2>1, RowCellsAre
  <2>3. S[<<c.on, "there">>] = 0
    BY <2>1, <2>2, BlanksAre DEF TagRemoved
  <2>4. c.on \in born
    BY <2>1 DEF Whole, Sound
  <2> QED BY <2>1, <2>3, <2>4
<1>7. born \subseteq Borne(c, x)
  BY BornGrows
<1>8. Brings(d, S, Borne(c, x))
  <2>1. d.op \notin Fetches
    BY <1>2 DEF Asks
  <2>2. Deleting(d) => /\ page = "team" /\ d.on \in Tags \cap Borne(c, x) /\ S[<<d.on, "there">>] = 0
                       /\ DOMAIN d.answer = {d.on} \X {"there", "members"}
    BY <1>2, <1>4, <1>6, <1>7
  <2> QED BY <1>2, <1>3, <1>4, <2>1, <2>2 DEF Brings
<1> QED BY <1>2, <1>4, <1>5, <1>6, <1>8 DEF d

LEMMA ServeQuiet ==
    ASSUME TypeInv, QuietInv, NEW i \in DOMAIN calls, Serve(i)
    PROVE  QuietInv'
<1> DEFINE c == calls[i]
<1>1. PICK x \in Given(c) :
        LET S == After(c, x)
        IN  /\ Asks(c) /\ Accepts(c) /\ c.state = "asked"
            /\ Sound(S, Borne(c, x)) /\ Changed(S) \subseteq Cells
            /\ page' = page /\ stored' = S /\ born' = Borne(c, x) /\ shown' = shown
            /\ loaded' = loaded /\ option' = option /\ busy' = busy
            /\ behind' = behind \cup (Changed(S) \cap (Untold(c) \ Reads(c, x)))
            /\ calls' = [j \in DOMAIN calls |-> calls'[j]]
            /\ calls'[i] = Answering(c, x)
            /\ \A j \in DOMAIN calls : j # i => calls'[j] = Older(calls[j], Changed(S))
  BY ServeIs
<1> DEFINE S == After(c, x)
           d == Answering(c, x)
           K == Changed(S)
           B == Borne(c, x)
<1>2. c \in CallRec /\ CallFits(c) /\ Whole /\ page \in Pages /\ Brings(c, stored, born)
  BY TypeInvIs DEF QuietInv, QuietOf
<1>3. /\ AnswerTrue(d, S) /\ Brings(d, S, B) /\ d.due = K \ Untold(c) /\ d.op = c.op
      /\ Deleting(d) <=> c.op = "deleteRole"
      /\ c.op = "deleteRole" => d.on = c.on
  BY <1>1, <1>2, AnsweringQuiet
<1>4. /\ Reads(c, x) \cap Untold(c) = {}
      /\ page = "team" => \A t \in Tags \cap born : stored[<<t, "there">>] = 0 => S[<<t, "there">>] = 0
      /\ born \subseteq B
  BY <1>1, <1>2, ReadsCells, GoneForGood, BornGrows
<1>5. c.op \notin Fetches /\ c.due = {} /\ ~Deleting(c)
  BY <1>1, <1>2 DEF Brings, Asks, Deleting
<1>6. /\ page' = page /\ stored' = S /\ born' = B /\ shown' = shown /\ loaded' = loaded
      /\ behind' = behind \cup (K \cap (Untold(c) \ Reads(c, x)))
      /\ DOMAIN calls' = DOMAIN calls /\ calls'[i] = d
      /\ \A j \in DOMAIN calls : j # i => calls'[j] = Older(calls[j], Changed(S))
  BY <1>1
<1>7. c.op = "deleteRole" => S = TagRemoved(stored, c.on)
  BY AfterIs
<1> HIDE DEF S, d, B
<1>8. \A j \in DOMAIN calls : j # i => /\ AnswerTrue(calls'[j], S) /\ Brings(calls'[j], S, B)
                                       /\ Alike(calls[j], calls'[j])
  BY <1>4, <1>6, AgedQuiet DEF Buried
<1>9. ASSUME NEW k, Owed(calls, k) PROVE Owed(calls', k)
  <2>1. PICK j \in DOMAIN calls : Owes(calls[j], k)
    BY <1>9 DEF Owed
  <2>2. j # i
    BY <1>5, <2>1 DEF Owes
  <2>3. Owes(calls'[j], k)
    BY <1>8, <2>1, <2>2 DEF Owes, Alike, Deleting
  <2> QED BY <1>6, <2>3 DEF Owed
<1>10. ASSUME NEW k
       PROVE  /\ k \notin d.due \/ c.op # "deleteRole" => Going(calls', k) = Going(calls, k)
              /\ k \in d.due /\ c.op = "deleteRole" => Going(calls', k) = Going(calls, k) \cup ({c.on} \cap Tags)
  <2>1. \A j \in DOMAIN calls : j # i =>
           /\ Deleting(calls[j]) /\ k \in calls[j].due <=> Deleting(calls'[j]) /\ k \in calls'[j].due
           /\ calls'[j].on = calls[j].on
    BY <1>8 DEF Alike, Deleting
  <2>2. ~Deleting(calls[i]) /\ (Deleting(calls'[i]) <=> c.op = "deleteRole")
    BY <1>3, <1>5, <1>6
  <2>3. c.op = "deleteRole" => calls'[i].on = c.on
    BY <1>3, <1>6
  <2>4. ASSUME NEW t \in Tags
        PROVE  t \in Going(calls', k) <=>
                 t \in Going(calls, k) \/ (k \in d.due /\ c.op = "deleteRole" /\ t = c.on)
    BY <1>6, <2>1, <2>2, <2>3 DEF Going
  <2>5. Going(calls', k) \subseteq Tags /\ Going(calls, k) \subseteq Tags
    BY DEF Going
  <2> HIDE DEF c
  <2> QED BY <2>4, <2>5
<1>11. ASSUME NEW k \in Cells \ K
       PROVE  Counted(S)[k] = Truth[k] /\ Going(calls', k) = Going(calls, k)
  BY <1>3, <1>10, <1>11, ChangedIs
<1>12. ASSUME NEW k \in Cells \ behind', Settled(calls, shown, stored, k)
       PROVE  Settled(calls', shown, S, k) \/ Owed(calls', k)
  <2>1. CASE k \notin K
    BY <1>11, <1>12, <2>1 DEF Settled, Truth
  <2>2. CASE k \in K /\ ~(c.op = "deleteRole" /\ k[2] = "tags")
    <3>1. k \in d.due
      BY <1>3, <1>4, <1>6, <1>12, <2>2
    <3>2. Owes(d, k)
      BY <1>3, <1>5, <2>2, <3>1 DEF Owes, Fetches
    <3> QED BY <1>6, <3>2 DEF Owed
  <2>3. CASE k \in K /\ c.op = "deleteRole" /\ k[2] = "tags"
    <3>1. k \in d.due
      BY <1>3, <1>4, <1>6, <1>12, <2>3
    <3>2. /\ Counted(S)[k] = S[k] /\ Counted(stored)[k] = stored[k]
          /\ shown[k] \ Going(calls, k) = stored[k]
      BY <1>12, <2>3, CountedIs DEF Settled
    <3>3. c.on \in Tags /\ k[1] # c.on
      <4>1. c.on \in Tags
        BY <1>1, <2>3 DEF Asks, ArgFits
      <4> QED BY <1>2, <2>3, <4>1, CellsAre
    <3>4. S[k] = stored[k] \ {c.on}
      BY <1>7, <2>3, <3>3 DEF TagRemoved, Without
    <3>5. Going(calls', k) = Going(calls, k) \cup {c.on}
      BY <1>10, <2>3, <3>1, <3>3
    <3> QED BY <2>3, <3>2, <3>4, <3>5 DEF Settled
  <2> QED BY <2>1, <2>2, <2>3
<1>13. QuietOf(calls', stored', born', shown', loaded', behind')
  <2>1. \A j \in DOMAIN calls' : AnswerTrue(calls'[j], S) /\ Brings(calls'[j], S, B)
    BY <1>3, <1>6, <1>8
  <2>2. ASSUME loaded', NEW k \in Cells \ behind'
        PROVE  Settled(calls', shown, S, k) \/ Owed(calls', k)
    <3>1. Settled(calls, shown, stored, k) \/ Owed(calls, k)
      BY <1>6, <2>2 DEF QuietInv, QuietOf
    <3> QED BY <1>9, <1>12, <2>2, <3>1
  <2> QED BY <1>6, <2>1, <2>2 DEF QuietOf
<1> QED BY <1>6, <1>13, QuietThen

(* The copy after an answer, cell by cell. *)
LEMMA ArriveQuiet ==
    ASSUME TypeInv, QuietInv, NEW i \in DOMAIN calls, Arrive(i)
    PROVE  QuietInv'
<1> DEFINE c == calls[i]
           D == Patched(c)
           W == Written(c)
           t == Follow(c)
           S == stored
<1>1. /\ c \in CallRec /\ CallFits(c) /\ c.state = "served"
      /\ page' = page /\ stored' = stored /\ born' = born /\ shown' = D
      /\ loaded' = (loaded \/ c.op = "load")
      /\ behind' = (behind \ W) \cup
                   (DOMAIN c.answer \cap c.late) \cup Forgone(c) \cup
                   (DOMAIN c.answer \ W) \cup Twice(c)
      /\ calls' = RemoveAt(calls, i) \o t
      /\ t \in Seq(CallRec)
  BY ArriveIs
<1>2. /\ page \in Pages /\ Sound(stored, born) /\ Whole /\ ShownOk(shown, born)
      /\ AnswerTrue(c, stored) /\ Brings(c, stored, born)
      /\ \A j \in DOMAIN calls : AnswerTrue(calls[j], stored) /\ Brings(calls[j], stored, born)
  BY TypeInvIs DEF TypeInv, QuietInv, QuietOf
<1>3. Brand(c) => \A k \in DOMAIN c.answer : k[2] = "there" => k[1] = c.on /\ c.answer[k] = 1
  BY DEF TypeInv, AppendedOk
<1>4. /\ W \subseteq DOMAIN c.answer
      /\ (c.op \in Fetches \cup {"remove", "deleteRole"} \/ Appends(c) => W = DOMAIN c.answer)
  BY WrittenIn
<1>5. \A k \in Cells :
        /\ k \notin W /\ c.op # "deleteRole" => D[k] = shown[k]
        /\ k \in W /\ c.op # "deleteRole" =>
             D[k] = IF Appends(c) /\ k[2] = "there" THEN shown[k] + 1 ELSE c.answer[k]
        /\ c.op = "deleteRole" /\ k[1] = c.on => D[k] = Blank(k[2])
        /\ c.op = "deleteRole" /\ k[1] # c.on /\ k[2] = "tags" =>
             D[k] = (IF k \in W THEN c.answer[k] ELSE shown[k]) \ {c.on}
        /\ c.op = "deleteRole" /\ k[1] # c.on /\ k[2] # "tags" =>
             D[k] = IF k \in W THEN c.answer[k] ELSE shown[k]
  BY PatchedIs
<1>6. /\ \A l \in DOMAIN t : Following(c, t[l])
      /\ c.op # "pool" /\ LoadsAgain(c) => \E l \in DOMAIN t : t[l].op = "load"
      /\ c.op # "pool" /\ CatalogAgain(c) => \E l \in DOMAIN t : t[l].op = "catalog"
  BY <1>1, <1>2, FollowIs
<1>7. c.op = "load" => UNION Parts(c) = Cells
  BY DEF Parts, Cells, CatalogCells
<1>8. c.op = "catalog" => UNION Parts(c) = CatalogCells
  <2>1. ASSUME c.op = "catalog" PROVE page = "team"
    BY <1>1, <1>2, <2>1, CallOf
  <2> QED BY <2>1 DEF Parts
<1>9. Twice(c) = IF Appends(c) /\ shown[<<c.on, "there">>] > 0 THEN {<<c.on, "there">>} ELSE {}
  BY DEF Twice
<1> HIDE DEF c, D, W, t
(* The calls left, and those that follow. *)
<1>10. /\ \A l \in DOMAIN calls \ {i} : \E j \in DOMAIN calls' : calls'[j] = calls[l]
       /\ \A l \in DOMAIN t : \E j \in DOMAIN calls' : calls'[j] = t[l]
  BY <1>1, Persists
<1>11. \A j \in DOMAIN calls' : \/ \E l \in DOMAIN calls \ {i} : calls'[j] = calls[l]
                                \/ \E l \in DOMAIN t : calls'[j] = t[l]
  <2> SUFFICES ASSUME NEW j \in DOMAIN calls'
               PROVE  \/ \E l \in DOMAIN calls \ {i} : calls'[j] = calls[l]
                      \/ \E l \in DOMAIN t : calls'[j] = t[l]
    OBVIOUS
  <2>1. \/ From(i, j) \in DOMAIN calls \ {i} /\ j \in 1..Len(calls)-1 /\ calls'[j] = calls[From(i, j)]
        \/ j \notin 1..Len(calls)-1 /\ \E l \in DOMAIN t : calls'[j] = t[l]
    BY <1>1, Afterwards
  <2> QED BY <2>1
<1>12. \A l \in DOMAIN t : /\ AnswerTrue(t[l], stored) /\ Brings(t[l], stored, born) /\ ~Deleting(t[l])
                           /\ t[l].state = "asked"
  <2> SUFFICES ASSUME NEW l \in DOMAIN t
               PROVE  /\ AnswerTrue(t[l], stored) /\ Brings(t[l], stored, born) /\ ~Deleting(t[l])
                      /\ t[l].state = "asked"
    OBVIOUS
  <2>1. t[l].state = "asked" /\ t[l].answer = <<>> /\ (t[l].op \notin Fetches => t[l].due = {})
    BY <1>6 DEF Following
  <2> QED BY <2>1, AskedQuiet
<1>13. \A j \in DOMAIN calls' : AnswerTrue(calls'[j], stored) /\ Brings(calls'[j], stored, born)
  BY <1>2, <1>11, <1>12
<1>14. ASSUME NEW k
       PROVE  /\ Going(calls', k) \subseteq Going(calls, k)
              /\ Going(calls, k) \subseteq Going(calls', k) \cup (IF Deleting(c) /\ k \in c.due THEN {c.on} ELSE {})
  <2>1. Going(calls', k) \subseteq Going(calls, k)
    <3>1. \A j \in DOMAIN calls' : Deleting(calls'[j]) =>
             \E l \in DOMAIN calls : calls'[j] = calls[l]
      BY <1>11, <1>12
    <3> QED BY <3>1 DEF Going
  <2>2. ASSUME NEW x \in Going(calls, k), ~(Deleting(c) /\ k \in c.due /\ x = c.on)
        PROVE  x \in Going(calls', k)
    <3>1. PICK l \in DOMAIN calls : Deleting(calls[l]) /\ k \in calls[l].due /\ calls[l].on = x
      BY <2>2 DEF Going
    <3>2. l # i
      BY <2>2, <3>1 DEF c
    <3>3. PICK j \in DOMAIN calls' : calls'[j] = calls[l]
      BY <1>10, <3>1, <3>2
    <3> QED BY <2>2, <3>1, <3>3 DEF Going
  <2> QED BY <2>1, <2>2
(* What the answer writes is true, unless it is known to be late. *)
<1>15. ASSUME NEW k \in Cells \ behind', k \in W, k \notin Narrow(c)
       PROVE  Settled(calls', D, stored, k)
  <2>1. k \in DOMAIN c.answer \ (c.late \cup Narrow(c)) /\ k \notin Twice(c)
    BY <1>1, <1>4, <1>15
  <2>2. c.answer[k] = Counted(S)[k]
    BY <1>2, <2>1 DEF AnswerTrue
  <2>3. D[k] = Counted(S)[k]
    <3>1. CASE c.op = "deleteRole"
      <4>1. /\ page = "team" /\ c.on \in Tags \cap born /\ S[<<c.on, "there">>] = 0
            /\ k[1] = c.on /\ k[2] \in {"there", "members"}
        BY <1>1, <1>2, <2>1, <3>1 DEF Brings, Deleting
      <4>2. D[k] = Blank(k[2]) /\ Blank(k[2]) = 0
        BY <1>5, <3>1, <4>1, BlanksAre
      <4>3. CASE k[2] = "there"
        <5>1. k = <<c.on, "there">>
          BY <1>2, <4>1, <4>3, CellsAre
        <5> QED BY <4>1, <4>2, <4>3, <5>1, CountedIs
      <4>4. CASE k[2] = "members"
        <5>1. \A r \in Rows : c.on \notin S[<<r, "tags">>]
          <6>1. c.on \notin TagsIn(S)
            BY <4>1 DEF TagsIn
          <6> QED BY <1>2, <4>1, <6>1 DEF Sound
        <5>2. Cardinality(Holding(S, c.on)) = 0
          BY <5>1, CountNone
        <5> QED BY <4>1, <4>2, <4>4, <5>2, CountedIs
      <4> QED BY <4>1, <4>3, <4>4
    <3>2. CASE Appends(c) /\ k[2] = "there"
      <4>1. c.op # "deleteRole" /\ Brand(c)
        BY <1>1, <3>2 DEF Appends, Brand
      <4>2. k[1] = c.on /\ c.answer[k] = 1
        BY <1>3, <2>1, <3>2, <4>1 DEF c
      <4>3. k = <<c.on, "there">>
        BY <1>2, <3>2, <4>2, CellsAre
      <4>4. shown[k] \in 0..2
        BY <1>2, <3>2, ValuesAre DEF ShownOk
      <4>5. ~(shown[k] > 0)
        BY <1>9, <2>1, <3>2, <4>3
      <4> QED BY <1>5, <1>15, <2>2, <3>2, <4>1, <4>2, <4>4, <4>5
    <3>3. CASE c.op # "deleteRole" /\ ~(Appends(c) /\ k[2] = "there")
      BY <1>5, <1>15, <2>2, <3>3
    <3> QED BY <3>1, <3>2, <3>3
  <2> QED BY <1>2, <1>13, <2>3, TrueIsSettled
(* What it was not given and shows blank, the fetch that follows will bring. *)
<1>16. ASSUME NEW k \in Cells \ behind', k \in W, k \in Narrow(c)
       PROVE  Owed(calls', k)
  <2>1. k \in Blanked(c) /\ k \notin Forgone(c)
    BY <1>1, <1>16 DEF Blanked, W
  <2>2. page # "profile"
    BY <2>1 DEF Forgone
  <2>3. LoadsAgain(c)
    BY <1>16, <2>2 DEF Narrow, LoadsAgain
  <2>4. c.op # "pool"
    BY <1>1, <1>2, <2>3, OpsAre, CallOf DEF LoadsAgain
  <2>5. PICK m \in DOMAIN t : t[m].op = "load"
    BY <1>6, <2>3, <2>4
  <2>6. t[m].due = Wanted(c) /\ k \in t[m].due
    BY <1>6, <2>1, <2>4, <2>5 DEF Following, Wanted
  <2>7. Owes(t[m], k)
    BY <2>5, <2>6 DEF Owes, Deleting
  <2> QED BY <1>10, <2>7 DEF Owed
(* What it does not write was true, or somebody else accounts for it. *)
<1>17. ASSUME NEW k \in Cells \ behind', k \notin W, loaded'
       PROVE  Settled(calls', D, stored, k) \/ Owed(calls', k)
  <2>1. k \notin DOMAIN c.answer /\ k \notin behind
    BY <1>1, <1>17
  <2>2. c.op # "load" /\ (c.op = "catalog" => k \notin CatalogCells)
    BY <1>1, <1>2, <1>7, <1>8, <2>1 DEF Brings, Fetches
  <2>3. Settled(calls, shown, stored, k) \/ Owed(calls, k)
    BY <1>1, <1>17, <2>1, <2>2 DEF QuietInv, QuietOf
  <2>4. CASE Owed(calls, k)
    <3>1. PICK l \in DOMAIN calls : Owes(calls[l], k)
      BY <2>4 DEF Owed
    <3>2. CASE l # i
      BY <1>10, <3>1, <3>2 DEF Owed
    <3>3. CASE l = i
      <4>1. Owes(c, k) /\ k \in c.due \ W
        BY <1>17, <3>1, <3>3 DEF Owes, c
      <4>2. c.op \notin Fetches /\ k \in Again(c)
        BY <1>1, <1>2, <2>1, <2>2, <4>1 DEF Owes, Brings, Fetches, TagCells
      <4>3. c.op # "pool"
        BY <1>1, <1>2, <4>2, OpsAre, CallOf DEF Again, LoadsAgain, CatalogAgain
      <4>4. CASE LoadsAgain(c)
        <5>1. PICK m \in DOMAIN t : t[m].op = "load"
          BY <1>6, <4>3, <4>4
        <5>2. t[m].due = Wanted(c) /\ c.due \ W \subseteq t[m].due
          BY <1>6, <4>3, <5>1 DEF Following, Wanted, W
        <5>3. Owes(t[m], k)
          BY <4>1, <5>1, <5>2 DEF Owes, Deleting
        <5> QED BY <1>10, <5>3 DEF Owed
      <4>5. CASE ~LoadsAgain(c) /\ CatalogAgain(c)
        <5>1. PICK m \in DOMAIN t : t[m].op = "catalog"
          BY <1>6, <4>3, <4>5
        <5>2. t[m].due = Wanted(c) /\ c.due \ W \subseteq t[m].due
          BY <1>6, <4>3, <5>1 DEF Following, Wanted, W
        <5>4. k \in CatalogCells
          BY <4>2, <4>5 DEF Again
        <5>3. Owes(t[m], k)
          BY <4>1, <5>1, <5>2, <5>4 DEF Owes, Deleting
        <5> QED BY <1>10, <5>3 DEF Owed
      <4> QED BY <4>2, <4>4, <4>5 DEF Again
    <3> QED BY <3>2, <3>3
  <2>5. CASE Settled(calls, shown, stored, k)
    <3>1. CASE c.op # "deleteRole"
      <4>1. ~Deleting(c) /\ D[k] = shown[k]
        BY <1>5, <1>17, <3>1 DEF Deleting
      <4>2. Going(calls', k) = Going(calls, k)
        <5>1. /\ Going(calls', k) \subseteq Going(calls, k)
              /\ Going(calls, k) \subseteq Going(calls', k) \cup (IF Deleting(c) /\ k \in c.due THEN {c.on} ELSE {})
          BY <1>14
        <5> QED BY <4>1, <5>1
      <4> QED BY <2>5, <4>1, <4>2 DEF Settled
    <3>2. CASE c.op = "deleteRole"
      <4>1. /\ page = "team" /\ c.on \in Tags /\ S[<<c.on, "there">>] = 0
            /\ DOMAIN c.answer = {c.on} \X {"there", "members"}
        BY <1>1, <1>2, <3>2 DEF Brings, Deleting
      <4>2. k[1] # c.on
        <5>1. c.on \notin Rows
          BY <4>1
        <5>2. k = <<k[1], k[2]>> /\ (k[1] \in Rows \/ k[2] \in {"there", "members"})
          BY <1>2, CellsAre
        <5> QED BY <2>1, <4>1, <5>1, <5>2
      <4>3. CASE k[2] # "tags"
        BY <1>5, <1>17, <2>5, <3>2, <4>2, <4>3 DEF Settled
      <4>4. CASE k[2] = "tags"
        <5>1. D[k] = shown[k] \ {c.on}
          BY <1>5, <1>17, <3>2, <4>2, <4>4
        <5>2. shown[k] \ Going(calls, k) = Counted(S)[k]
          BY <2>5, <4>4 DEF Settled
        <5>3. c.on \notin Counted(S)[k]
          <6>1. k[1] \in Rows /\ k = <<k[1], "tags">> /\ Counted(S)[k] = S[k]
            BY <1>2, <4>4, CellsAre, CountedIs
          <6>2. c.on \notin TagsIn(S)
            BY <4>1 DEF TagsIn
          <6> QED BY <1>2, <4>1, <6>1, <6>2 DEF Sound
        <5>4. Going(calls', k) \subseteq Going(calls, k) /\ Going(calls, k) \subseteq Going(calls', k) \cup {c.on}
          BY <1>14
        <5>5. D[k] \ Going(calls', k) = Counted(S)[k]
          BY <5>1, <5>2, <5>3, <5>4
        <5> QED BY <4>4, <5>5 DEF Settled
      <4> QED BY <4>3, <4>4
    <3> QED BY <3>1, <3>2
  <2> QED BY <2>3, <2>4, <2>5
<1>18. QuietOf(calls', stored', born', shown', loaded', behind')
  <2>1. \A j \in DOMAIN calls' : AnswerTrue(calls'[j], stored') /\ Brings(calls'[j], stored', born')
    BY <1>1, <1>13
  <2>2. ASSUME loaded', NEW k \in Cells \ behind'
        PROVE  Settled(calls', shown', stored', k) \/ Owed(calls', k)
    BY <1>1, <1>15, <1>17, <1>16, <2>2
  <2> QED BY <2>1, <2>2 DEF QuietOf
<1> QED BY <1>1, <1>18, QuietThen

LEMMA QuietStep == TypeInv /\ QuietInv /\ [Next]_vars => QuietInv'
<1> SUFFICES ASSUME TypeInv, QuietInv, [Next]_vars PROVE QuietInv'
  OBVIOUS
<1>1. CASE Next
  <2>1. CASE SelectView
    BY <2>1, SelectViewQuiet
  <2>2. CASE \E c \in CallRec : Clicked(c) /\ Ask(c)
    BY <2>2, AskQuiet
  <2>3. CASE \E i \in DOMAIN calls : Serve(i)
    BY <2>3, ServeQuiet
  <2>4. CASE \E i \in DOMAIN calls : ServeFetch(i)
    BY <2>4, ServeFetchQuiet
  <2>5. CASE \E i \in DOMAIN calls : Refuse(i)
    BY <2>5, RefuseQuiet
  <2>6. CASE \E i \in DOMAIN calls : Arrive(i)
    BY <2>6, ArriveQuiet
  <2>7. CASE \E i \in DOMAIN calls : Fail(i)
    BY <2>7, FailQuiet
  <2>8. CASE \E S : Stirred(S) /\ Elsewhere(S)
    BY <2>8, ElsewhereQuiet
  <2> QED BY <1>1, <2>1, <2>2, <2>3, <2>4, <2>5, <2>6, <2>7, <2>8, Steps
<1>2. CASE UNCHANGED vars
  <2>1. /\ page' = page /\ stored' = stored /\ born' = born /\ shown' = shown /\ loaded' = loaded
        /\ behind' = behind /\ calls' = calls
    BY <1>2 DEF vars, server, view
  <2>2. QuietOf(calls', stored', born', shown', loaded', behind')
    BY <2>1 DEF QuietInv
  <2> QED BY <2>1, <2>2, QuietThen
<1> QED BY <1>1, <1>2

LEMMA QuietAlways == Spec => []QuietInv
<1>1. Init => QuietInv
  BY InitQuiet
<1> QED BY <1>1, QuietStep, TypeAlways, PTL DEF Spec

(* A page with nothing in flight shows what is stored, but for the cells   *)
(* it was left without news of: the answers to its saves, its fetches and  *)
(* its own patches account for everything its calls have changed, deleted  *)
(* tags and other rows included.                                           *)
THEOREM QuietPagesAreTrue == Spec => []QuietPageIsTrue
<1>1. TypeInv /\ QuietInv => QuietPageIsTrue
  <2> SUFFICES ASSUME TypeInv, QuietInv, loaded, calls = <<>>, NEW k \in Cells \ behind
               PROVE  shown[k] = Truth[k]
    BY DEF QuietPageIsTrue
  <2>1. DOMAIN calls = {}
    OBVIOUS
  <2>2. ~Owed(calls, k) /\ Going(calls, k) = {}
    BY <2>1 DEF Owed, Going
  <2>3. Settled(calls, shown, stored, k)
    BY <2>2 DEF QuietInv, QuietOf
  <2>4. CASE k[2] = "tags"
    <3>1. shown[k] \ {} = Truth[k]
      BY <2>2, <2>3, <2>4 DEF Settled, Truth
    <3>2. shown[k] \in SUBSET Tags
      BY <2>4, ValuesAre DEF TypeInv, ShownOk
    <3> QED BY <3>1, <3>2
  <2>5. CASE k[2] # "tags"
    BY <2>3, <2>5 DEF Settled, Truth
  <2> QED BY <2>4, <2>5
<1> QED BY <1>1, TypeAlways, QuietAlways, PTL

-----------------------------------------------------------------------------
(* Saves of tags *)

(* Nothing is clicked on the team page before it has loaded. *)
UnloadedOf(q, D, l) ==
    page = "team" /\ ~l => /\ \A k \in Cells : k[2] = "there" => D[k] = 0
                           /\ \A j \in DOMAIN q : q[j].op = "load"

(* What a save of tags will take from the row, if nothing came between. *)
TagsOf(q, S) ==
    \A j \in DOMAIN q : q[j].op = "tags" /\ q[j].state = "asked" /\ q[j].clean =>
      S[<<q[j].on, "tags">>] \ q[j].arg.ids \subseteq {q[j].arg.tag}

TagInv == UnloadedOf(calls, shown, loaded) /\ TagsOf(calls, stored)

LEMMA TagThen ==
    ASSUME page' = page, UnloadedOf(calls', shown', loaded'), TagsOf(calls', stored')
    PROVE  TagInv'
<1>1. Cells' = Cells
  BY PageStays
<1>2. UnloadedOf(calls, shown, loaded)'
  BY <1>1 DEF UnloadedOf
<1>3. TagsOf(calls, stored)'
  BY DEF TagsOf
<1> QED BY <1>2, <1>3 DEF TagInv

(* Calls of which nothing changes that counts here. *)
LEMMA MappedTags ==
    ASSUME TagInv, page' = page, shown' = shown, loaded' = loaded, DOMAIN calls' = DOMAIN calls,
           \A j \in DOMAIN calls : calls'[j].op = calls[j].op,
           \A j \in DOMAIN calls :
             calls'[j].op = "tags" /\ calls'[j].state = "asked" /\ calls'[j].clean =>
               /\ calls[j].state = "asked" /\ calls[j].clean
               /\ calls'[j].on = calls[j].on /\ calls'[j].arg = calls[j].arg
               /\ stored'[<<calls[j].on, "tags">>] = stored[<<calls[j].on, "tags">>]
    PROVE  TagInv'
<1>1. UnloadedOf(calls', shown', loaded')
  BY DEF TagInv, UnloadedOf
<1>2. TagsOf(calls', stored')
  <2> SUFFICES ASSUME NEW j \in DOMAIN calls', calls'[j].op = "tags", calls'[j].state = "asked",
                      calls'[j].clean
               PROVE  stored'[<<calls'[j].on, "tags">>] \ calls'[j].arg.ids \subseteq {calls'[j].arg.tag}
    BY DEF TagsOf
  <2>1. /\ calls[j].op = "tags" /\ calls[j].state = "asked" /\ calls[j].clean
        /\ calls'[j].on = calls[j].on /\ calls'[j].arg = calls[j].arg
        /\ stored'[<<calls[j].on, "tags">>] = stored[<<calls[j].on, "tags">>]
    OBVIOUS
  <2>2. stored[<<calls[j].on, "tags">>] \ calls[j].arg.ids \subseteq {calls[j].arg.tag}
    BY <2>1 DEF TagInv, TagsOf
  <2> QED BY <2>1, <2>2
<1> QED BY <1>1, <1>2, TagThen

LEMMA InitTag ==
    ASSUME Init
    PROVE  TagInv
<1> DEFINE c == Call("load", NoRow, FALSE)
<1>1. c.op = "load" /\ calls = <<c>> /\ shown = Empty
  BY DEF Call, Init
<1> HIDE DEF c
<1>2. \A j \in DOMAIN calls : calls[j] = c
  BY <1>1
<1>3. \A k \in Cells : k[2] = "there" => shown[k] = 0
  BY <1>1, BlanksAre DEF Empty
<1> QED BY <1>1, <1>2, <1>3 DEF TagInv, UnloadedOf, TagsOf

(* A save that is asked for from what is up to date. *)
LEMMA AskTag ==
    ASSUME TypeInv, QuietInv, TagInv, NEW c \in CallRec, Clicked(c), Ask(c)
    PROVE  TagInv'
<1>1. /\ calls' = Append(calls, c) /\ page' = page /\ stored' = stored
      /\ shown' = shown /\ loaded' = loaded
  BY DEF Ask, server
<1>2. \A j \in DOMAIN calls' : (j \in DOMAIN calls /\ calls'[j] = calls[j]) \/ calls'[j] = c
  BY <1>1, TypeInvIs
<1>3. page = "team" => loaded
  <2> SUFFICES ASSUME page = "team", ~loaded PROVE FALSE
    OBVIOUS
  <2>1. Seen
    BY DEF Clicked
  <2>2. PICK r \in Rows : shown[<<r, "there">>] > 0
    BY <2>1 DEF Seen
  <2>3. <<r, "there">> \in Cells /\ <<r, "there">>[2] = "there"
    BY RowCellsAre
  <2>4. shown[<<r, "there">>] = 0
    BY <2>3 DEF TagInv, UnloadedOf
  <2> QED BY <2>2, <2>4
<1>4. UnloadedOf(calls', shown', loaded')
  BY <1>1, <1>3 DEF UnloadedOf
<1>5. ASSUME c.op = "tags", c.clean
      PROVE  stored[<<c.on, "tags">>] \ c.arg.ids \subseteq {c.arg.tag}
  <2> DEFINE k == <<c.on, "tags">>
  <2>1. page \in Pages /\ CallFits(c) /\ Asks(c) /\ c.op \notin Fetches
    BY <1>5, TypeInvIs, CallOf DEF Clicked, Fetches
  <2>2. page = "team" /\ c.on \in Rows
    BY <1>5, <2>1, OpsAre DEF Asks, ArgFits
  <2>3. k \in Cells /\ k[2] = "tags"
    BY <2>1, <2>2, RowCellsAre, Fields
  <2>4. k \notin behind /\ \A j \in DOMAIN calls : k \notin calls[j].due
    BY <1>5 DEF Clicked, UpToDate
  <2> HIDE DEF k
  <2>5. ~Owed(calls, k) /\ Going(calls, k) = {}
    BY <2>4 DEF Owed, Owes, Going
  <2>6. shown[k] \ Going(calls, k) = Counted(stored)[k]
    BY <1>3, <2>2, <2>3, <2>4, <2>5 DEF QuietInv, QuietOf, Settled
  <2>7. shown[k] = stored[k]
    BY <2>3, <2>5, <2>6, CountedIs, ValuesAre DEF TypeInv, ShownOk
  <2>8. shown[k] \ c.arg.ids \subseteq {c.arg.tag}
    BY <1>5 DEF Clicked, k
  <2> QED BY <2>7, <2>8 DEF k
<1>6. TagsOf(calls', stored')
  <2> SUFFICES ASSUME NEW j \in DOMAIN calls', calls'[j].op = "tags", calls'[j].state = "asked",
                      calls'[j].clean
               PROVE  stored[<<calls'[j].on, "tags">>] \ calls'[j].arg.ids \subseteq {calls'[j].arg.tag}
    BY <1>1 DEF TagsOf
  <2>1. CASE j \in DOMAIN calls /\ calls'[j] = calls[j]
    BY <2>1 DEF TagInv, TagsOf
  <2>2. CASE calls'[j] = c
    BY <1>5, <2>2
  <2> QED BY <1>2, <2>1, <2>2
<1> QED BY <1>1, <1>4, <1>6, TagThen

LEMMA SelectViewTag ==
    ASSUME TypeInv, TagInv, SelectView
    PROVE  TagInv'
<1>1. /\ page' = page /\ stored' = stored /\ shown' = shown /\ loaded' = loaded
      /\ calls' = [j \in DOMAIN calls |-> [calls[j] EXCEPT !.live = calls[j].op \in Fetches]]
  BY DEF SelectView, server
<1>2. ASSUME NEW j \in DOMAIN calls
      PROVE  /\ calls'[j].op = calls[j].op /\ calls'[j].on = calls[j].on /\ calls'[j].arg = calls[j].arg
             /\ calls'[j].state = calls[j].state /\ calls'[j].clean = calls[j].clean
  <2> DEFINE c == calls[j]
             d == [c EXCEPT !.live = c.op \in Fetches]
  <2>1. c \in CallRec /\ calls'[j] = d
    BY <1>1, TypeInvIs
  <2> HIDE DEF c
  <2>2. d.op = c.op /\ d.on = c.on /\ d.arg = c.arg /\ d.state = c.state /\ d.clean = c.clean
    BY <2>1 DEF CallRec
  <2> HIDE DEF d
  <2> QED BY <2>1, <2>2 DEF c
<1> QED BY <1>1, <1>2, MappedTags

(* What is changed makes older saves unclean. *)
StillClean(c, d, S) ==
    /\ d.op = c.op /\ d.state = c.state
    /\ d.op = "tags" /\ d.state = "asked" /\ d.clean =>
         /\ c.clean /\ d.on = c.on /\ d.arg = c.arg
         /\ S[<<c.on, "tags">>] = stored[<<c.on, "tags">>]

LEMMA AgedTag ==
    ASSUME TypeInv, NEW S, NEW j \in DOMAIN calls
    PROVE  StillClean(calls[j], Older(calls[j], Changed(S)), S)
<1> DEFINE c == calls[j]
           d == Older(c, Changed(S))
<1>1. c \in CallRec /\ CallFits(c) /\ page \in Pages /\ Changed(S) \in SUBSET Cells
  BY TypeInvIs, ChangedIs
<1>2. d = Older(c, Changed(S))
  OBVIOUS
<1> HIDE DEF c, d
<1>3. /\ d.op = c.op /\ d.state = c.state /\ d.on = c.on /\ d.arg = c.arg
      /\ d.clean <=> c.clean /\ ~(c.op = "tags" /\ c.state = "asked" /\ <<c.on, "tags">> \in Changed(S))
  BY <1>1, <1>2, OlderIs
<1>4. ASSUME d.op = "tags", d.state = "asked", d.clean
      PROVE  S[<<c.on, "tags">>] = stored[<<c.on, "tags">>]
  <2>1. Asks(c)
    BY <1>1, <1>3, <1>4, CallOf DEF Fetches
  <2>2. page = "team" /\ c.on \in Rows
    BY <1>1, <1>3, <1>4, <2>1, OpsAre DEF Asks, ArgFits
  <2>3. <<c.on, "tags">> \in Cells \ Changed(S) /\ <<c.on, "tags">>[2] # "members"
    BY <1>1, <1>3, <1>4, <2>2, RowCellsAre, Fields
  <2>4. Counted(S)[<<c.on, "tags">>] = Counted(stored)[<<c.on, "tags">>]
    BY <2>3, ChangedIs DEF Truth
  <2> QED BY <2>3, <2>4, CountedIs
<1>5. StillClean(c, d, S)
  BY <1>3, <1>4 DEF StillClean
<1> QED BY <1>5 DEF c, d

LEMMA ServeTag ==
    ASSUME TypeInv, TagInv, NEW i \in DOMAIN calls, Serve(i)
    PROVE  /\ TagInv'
           /\ DOMAIN calls' = DOMAIN calls
           /\ \A j \in DOMAIN calls : j # i => calls'[j].state = calls[j].state
           /\ calls[i].op = "tags" => /\ stored'[<<calls[i].on, "tags">>] = calls[i].arg.ids
                                      /\ calls[i].state = "asked"
<1> DEFINE c == calls[i]
<1>1. PICK x \in Given(c) :
        LET S == After(c, x)
        IN  /\ Asks(c) /\ Accepts(c) /\ c.state = "asked"
            /\ Sound(S, Borne(c, x)) /\ Changed(S) \subseteq Cells
            /\ page' = page /\ stored' = S /\ born' = Borne(c, x) /\ shown' = shown
            /\ loaded' = loaded /\ option' = option /\ busy' = busy
            /\ behind' = behind \cup (Changed(S) \cap (Untold(c) \ Reads(c, x)))
            /\ calls' = [j \in DOMAIN calls |-> calls'[j]]
            /\ calls'[i] = Answering(c, x)
            /\ \A j \in DOMAIN calls : j # i => calls'[j] = Older(calls[j], Changed(S))
  BY ServeIs
<1> DEFINE S == After(c, x)
<1>2. c \in CallRec /\ CallFits(c) /\ Whole /\ page \in Pages
  BY TypeInvIs
<1>3. calls'[i].op = c.op /\ calls'[i].state = "served"
  <2>1. Answering(c, x).op = c.op /\ Answering(c, x).state = "served"
    BY <1>1, <1>2, AnsweringIs
  <2> QED BY <1>1, <2>1
<1>4. /\ page' = page /\ stored' = S /\ shown' = shown /\ loaded' = loaded
      /\ DOMAIN calls' = DOMAIN calls
      /\ \A j \in DOMAIN calls : j # i => calls'[j] = Older(calls[j], Changed(S))
  BY <1>1
<1>5. c.op = "tags" => S[<<c.on, "tags">>] = c.arg.ids
  <2> SUFFICES ASSUME c.op = "tags" PROVE S[<<c.on, "tags">>] = c.arg.ids
    OBVIOUS
  <2>1. page = "team" /\ c.on \in Rows
    BY <1>1, <1>2, OpsAre DEF Asks, ArgFits
  <2>2. <<c.on, "tags">> \in Cells /\ DOMAIN stored = Cells
    BY <1>2, <2>1, RowCellsAre, Fields DEF Whole, Sound
  <2>3. S = Set(<<c.on, "tags">>, c.arg.ids)
    BY AfterIs
  <2>4. Set(<<c.on, "tags">>, c.arg.ids)[<<c.on, "tags">>] = c.arg.ids
    BY <2>2, SetIs
  <2> QED BY <2>3, <2>4
<1>6. c.state = "asked"
  BY <1>1
<1> HIDE DEF c, S
<1>7. ASSUME NEW j \in DOMAIN calls, j # i
      PROVE  /\ calls'[j].op = calls[j].op /\ calls'[j].state = calls[j].state
             /\ calls'[j].op = "tags" /\ calls'[j].state = "asked" /\ calls'[j].clean =>
                  /\ calls[j].clean /\ calls'[j].on = calls[j].on /\ calls'[j].arg = calls[j].arg
                  /\ S[<<calls[j].on, "tags">>] = stored[<<calls[j].on, "tags">>]
  <2>1. StillClean(calls[j], Older(calls[j], Changed(S)), S)
    BY AgedTag
  <2>2. StillClean(calls[j], calls'[j], S)
    BY <1>4, <1>7, <2>1
  <2> QED BY <2>2 DEF StillClean
<1>8. TagInv'
  <2>1. \A j \in DOMAIN calls : calls'[j].op = calls[j].op
    BY <1>3, <1>7 DEF c
  <2>2. ASSUME NEW j \in DOMAIN calls, calls'[j].op = "tags", calls'[j].state = "asked", calls'[j].clean
        PROVE  /\ calls[j].state = "asked" /\ calls[j].clean
               /\ calls'[j].on = calls[j].on /\ calls'[j].arg = calls[j].arg
               /\ stored'[<<calls[j].on, "tags">>] = stored[<<calls[j].on, "tags">>]
    <3>1. j # i
      BY <1>3, <2>2
    <3> QED BY <1>4, <1>7, <2>2, <3>1
  <2> QED BY <1>4, <2>1, <2>2, MappedTags
<1> QED BY <1>4, <1>5, <1>6, <1>7, <1>8 DEF c

LEMMA ServeFetchTag ==
    ASSUME TypeInv, TagInv, NEW i \in DOMAIN calls, ServeFetch(i)
    PROVE  TagInv'
<1> DEFINE c == calls[i]
<1>1. PICK K \in Parts(c) :
         LET read == K \cup DOMAIN c.answer
         IN  calls' = [calls EXCEPT ![i] =
               [c EXCEPT !.answer = [k \in read |-> IF k \in K THEN Truth[k] ELSE c.answer[k]],
                         !.state  = IF read = UNION Parts(c) THEN "served" ELSE @]]
  BY DEF ServeFetch
<1> DEFINE read == K \cup DOMAIN c.answer
           a == [k \in read |-> IF k \in K THEN Truth[k] ELSE c.answer[k]]
           s == IF read = UNION Parts(c) THEN "served" ELSE c.state
           d == [c EXCEPT !.answer = a, !.state = s]
<1>2. calls' = [calls EXCEPT ![i] = d]
  BY <1>1
<1>3. c \in CallRec /\ c.op \in Fetches
  BY TypeInvIs DEF ServeFetch
<1>4. /\ page' = page /\ stored' = stored /\ shown' = shown /\ loaded' = loaded
  BY DEF ServeFetch, server, view
<1> HIDE DEF c, a, s
<1>5. d.op = c.op
  BY <1>3 DEF CallRec
<1> HIDE DEF d
<1>6. /\ DOMAIN calls' = DOMAIN calls
      /\ \A j \in DOMAIN calls : calls'[j] = IF j = i THEN d ELSE calls[j]
  BY <1>2
<1>7. calls'[i].op \in Fetches /\ calls'[i].op = calls[i].op
  BY <1>3, <1>5, <1>6 DEF c
<1>8. \A j \in DOMAIN calls : calls'[j].op = calls[j].op /\ (calls'[j].op = "tags" => calls'[j] = calls[j])
  BY <1>6, <1>7 DEF Fetches
<1> QED BY <1>4, <1>6, <1>8, MappedTags

LEMMA RefuseTag ==
    ASSUME TypeInv, TagInv, NEW i \in DOMAIN calls, Refuse(i)
    PROVE  TagInv'
<1>1. /\ page' = page /\ stored' = stored /\ shown' = shown /\ loaded' = loaded
  BY DEF Refuse, server, view
<1>2. /\ DOMAIN calls' = DOMAIN calls
      /\ \A j \in DOMAIN calls : calls'[j] = IF j = i THEN Lost(calls[i]) ELSE calls[j]
  BY RefuseIs
<1>3. Lost(calls[i]).op = calls[i].op /\ Lost(calls[i]).state = "refused"
  BY TypeInvIs, LostIs
<1>4. \A j \in DOMAIN calls : calls'[j].op = calls[j].op /\ (calls'[j].state = "asked" => calls'[j] = calls[j])
  BY <1>2, <1>3
<1> QED BY <1>1, <1>2, <1>4, MappedTags

(* One call has gone; what follows it saves no tags. *)
LEMMA GoneTag ==
    ASSUME TypeInv, TagInv, NEW i \in DOMAIN calls, NEW t \in Seq(CallRec),
           calls' = RemoveAt(calls, i) \o t, page' = page, stored' = stored,
           page = "team" /\ ~loaded' => ~loaded /\ shown' = shown /\ DOMAIN t = {},
           \A l \in DOMAIN t : t[l].op # "tags"
    PROVE  TagInv'
<1>1. \A j \in DOMAIN calls' : \/ \E l \in DOMAIN calls : calls'[j] = calls[l]
                               \/ \E l \in DOMAIN t : calls'[j] = t[l]
  <2> SUFFICES ASSUME NEW j \in DOMAIN calls'
               PROVE  \/ \E l \in DOMAIN calls : calls'[j] = calls[l]
                      \/ \E l \in DOMAIN t : calls'[j] = t[l]
    OBVIOUS
  <2>1. \/ From(i, j) \in DOMAIN calls \ {i} /\ j \in 1..Len(calls)-1 /\ calls'[j] = calls[From(i, j)]
        \/ j \notin 1..Len(calls)-1 /\ \E l \in DOMAIN t : calls'[j] = t[l]
    BY Afterwards
  <2> QED BY <2>1
<1> DEFINE q == calls'
<1>2. \A j \in DOMAIN q : \/ \E l \in DOMAIN calls : q[j] = calls[l]
                          \/ \E l \in DOMAIN t : q[j] = t[l]
  BY <1>1
<1> HIDE DEF q
<1>3. UnloadedOf(q, shown', loaded')
  BY <1>2 DEF TagInv, UnloadedOf
<1>4. TagsOf(q, stored)
  BY <1>2 DEF TagInv, TagsOf
<1> QED BY <1>3, <1>4, TagThen DEF q

LEMMA ArriveTag ==
    ASSUME TypeInv, TagInv, NEW i \in DOMAIN calls, Arrive(i)
    PROVE  TagInv' /\ stored' = stored
<1> DEFINE c == calls[i]
           t == Follow(c)
<1>1. /\ c \in CallRec /\ CallFits(c) /\ c.state = "served"
      /\ page' = page /\ stored' = stored
      /\ loaded' = (loaded \/ c.op = "load")
      /\ calls' = RemoveAt(calls, i) \o t
      /\ t \in Seq(CallRec)
  BY ArriveIs
<1>2. \A l \in DOMAIN t : Following(c, t[l])
  BY <1>1, TypeInvIs, FollowIs
<1>3. \A l \in DOMAIN t : t[l].op # "tags"
  BY <1>2 DEF Following, Fetches
<1>4. page = "team" /\ ~loaded => c.op = "load"
  BY DEF TagInv, UnloadedOf
<1> HIDE DEF c, t
<1> QED BY <1>1, <1>3, <1>4, GoneTag

LEMMA FailTag ==
    ASSUME TypeInv, TagInv, NEW i \in DOMAIN calls, Fail(i)
    PROVE  TagInv' /\ stored' = stored
<1> DEFINE t == <<>>
<1>1. /\ calls' = RemoveAt(calls, i) \o t /\ t \in Seq(CallRec)
      /\ page' = page /\ stored' = stored /\ shown' = shown /\ loaded' = loaded
  BY FailIs
<1>2. DOMAIN t = {}
  OBVIOUS
<1> HIDE DEF t
<1> QED BY <1>1, <1>2, GoneTag

LEMMA ElsewhereTag ==
    ASSUME TypeInv, TagInv, NEW S, Elsewhere(S)
    PROVE  /\ TagInv' /\ DOMAIN calls' = DOMAIN calls
           /\ \A j \in DOMAIN calls : calls'[j].state = calls[j].state
<1>1. /\ page' = page /\ stored' = S /\ shown' = shown /\ loaded' = loaded
      /\ calls' = Aged(Changed(S), 0)
  BY DEF Elsewhere, view
<1>2. DOMAIN calls' = DOMAIN calls /\ \A j \in DOMAIN calls : calls'[j] = Older(calls[j], Changed(S))
  <2>1. 0 \notin DOMAIN calls
    BY TypeInvIs
  <2> QED BY <1>1, <2>1, AgedIs
<1>3. ASSUME NEW j \in DOMAIN calls
      PROVE  /\ calls'[j].op = calls[j].op /\ calls'[j].state = calls[j].state
             /\ calls'[j].op = "tags" /\ calls'[j].state = "asked" /\ calls'[j].clean =>
                  /\ calls[j].clean /\ calls'[j].on = calls[j].on /\ calls'[j].arg = calls[j].arg
                  /\ S[<<calls[j].on, "tags">>] = stored[<<calls[j].on, "tags">>]
  <2>1. StillClean(calls[j], Older(calls[j], Changed(S)), S)
    BY AgedTag
  <2>2. StillClean(calls[j], calls'[j], S)
    BY <1>2, <2>1
  <2> QED BY <2>2 DEF StillClean
<1>4. TagInv'
  <2>1. \A j \in DOMAIN calls : calls'[j].op = calls[j].op
    BY <1>3
  <2>2. \A j \in DOMAIN calls :
             calls'[j].op = "tags" /\ calls'[j].state = "asked" /\ calls'[j].clean =>
               /\ calls[j].state = "asked" /\ calls[j].clean
               /\ calls'[j].on = calls[j].on /\ calls'[j].arg = calls[j].arg
               /\ stored'[<<calls[j].on, "tags">>] = stored[<<calls[j].on, "tags">>]
    BY <1>1, <1>3
  <2> QED BY <1>1, <1>2, <2>1, <2>2, MappedTags
<1> QED BY <1>2, <1>3, <1>4

(* A step that serves a save, or leaves the database or all states alone.  *)
TagsFall ==
    \A i \in DOMAIN calls \cap DOMAIN calls' :
      LET c == calls[i] IN
      c.op = "tags" /\ c.clean /\ c.state = "asked" /\ calls'[i].state = "served" =>
        stored[<<c.on, "tags">>] \ stored'[<<c.on, "tags">>] \subseteq {c.arg.tag}

LEMMA TagNext ==
    ASSUME TypeInv, QuietInv, TagInv, Next
    PROVE  TagInv' /\ TagsFall
<1>1. stored' = stored => TagsFall
  BY DEF TagsFall
<1>2. CASE SelectView
  <2>1. stored' = stored
    BY <1>2 DEF SelectView, server
  <2> QED BY <1>1, <1>2, <2>1, SelectViewTag
<1>3. ASSUME NEW c \in CallRec, Clicked(c), Ask(c) PROVE TagInv' /\ TagsFall
  <2>1. stored' = stored
    BY <1>3 DEF Ask, server
  <2> QED BY <1>1, <1>3, <2>1, AskTag
<1>4. ASSUME NEW i \in DOMAIN calls, Serve(i) PROVE TagInv' /\ TagsFall
  <2>1. /\ TagInv'
        /\ DOMAIN calls' = DOMAIN calls
        /\ \A j \in DOMAIN calls : j # i => calls'[j].state = calls[j].state
        /\ calls[i].op = "tags" => /\ stored'[<<calls[i].on, "tags">>] = calls[i].arg.ids
                                   /\ calls[i].state = "asked"
    BY <1>4, ServeTag
  <2>2. ASSUME NEW j \in DOMAIN calls, calls[j].op = "tags", calls[j].clean, calls[j].state = "asked",
               calls'[j].state = "served"
        PROVE  stored[<<calls[j].on, "tags">>] \ stored'[<<calls[j].on, "tags">>] \subseteq {calls[j].arg.tag}
    <3>1. j = i
      BY <2>1, <2>2
    <3>2. stored[<<calls[j].on, "tags">>] \ calls[j].arg.ids \subseteq {calls[j].arg.tag}
      BY <2>2 DEF TagInv, TagsOf
    <3> QED BY <2>1, <2>2, <3>1, <3>2
  <2> QED BY <2>1, <2>2 DEF TagsFall
<1>5. ASSUME NEW i \in DOMAIN calls, ServeFetch(i) PROVE TagInv' /\ TagsFall
  <2>1. stored' = stored
    BY <1>5 DEF ServeFetch, server
  <2> QED BY <1>1, <1>5, <2>1, ServeFetchTag
<1>6. ASSUME NEW i \in DOMAIN calls, Refuse(i) PROVE TagInv' /\ TagsFall
  <2>1. stored' = stored
    BY <1>6 DEF Refuse, server
  <2> QED BY <1>1, <1>6, <2>1, RefuseTag
<1>7. ASSUME NEW i \in DOMAIN calls, Arrive(i) PROVE TagInv' /\ TagsFall
  BY <1>1, <1>7, ArriveTag
<1>8. ASSUME NEW i \in DOMAIN calls, Fail(i) PROVE TagInv' /\ TagsFall
  BY <1>1, <1>8, FailTag
<1>9. ASSUME NEW S, Elsewhere(S) PROVE TagInv' /\ TagsFall
  BY <1>9, ElsewhereTag DEF TagsFall
<1> QED BY <1>2, <1>3, <1>4, <1>5, <1>6, <1>7, <1>8, <1>9, Steps

LEMMA TagStep == TypeInv /\ QuietInv /\ TagInv /\ [Next]_vars => TagInv' /\ [TagsFall]_vars
<1> SUFFICES ASSUME TypeInv, QuietInv, TagInv, [Next]_vars PROVE TagInv' /\ [TagsFall]_vars
  OBVIOUS
<1>1. CASE Next
  BY <1>1, TagNext
<1>2. CASE UNCHANGED vars
  <2>1. /\ page' = page /\ stored' = stored /\ shown' = shown /\ loaded' = loaded /\ calls' = calls
    BY <1>2 DEF vars, server, view
  <2>2. UnloadedOf(calls', shown', loaded') /\ TagsOf(calls', stored')
    BY <2>1 DEF TagInv, UnloadedOf, TagsOf
  <2> QED BY <1>2, <2>1, <2>2, TagThen
<1> QED BY <1>1, <1>2

LEMMA TagAlways == Spec => []TagInv
<1>1. Init => TagInv
  BY InitTag
<1> QED BY <1>1, TagStep, TypeAlways, QuietAlways, PTL DEF Spec

(* Saving tags replaces the whole set (setRoles): a save that was clicked  *)
(* on a row the page had news of, and that nothing overtook, takes no tag  *)
(* but the one that was clicked.                                           *)
THEOREM OnlyOverlapsTakeTags == Spec => TagsFallToOverlapsOnly
<1>1. Spec => [][TagsFall]_vars
  BY TagStep, TypeAlways, QuietAlways, TagAlways, PTL DEF Spec
<1> QED BY <1>1 DEF TagsFallToOverlapsOnly, TagsFall

-----------------------------------------------------------------------------
(* Pending flags *)

Own   == OneId \cup PerRow
Paged == Ops \ (Own \cup Fetches)

Runs(c, op) == c.op = op /\ c.live

FlagOf(q, b) ==
    /\ \A op \in Paged :
         /\ <<op, NoRow>> \in b <=> \E j \in DOMAIN q : Runs(q[j], op)
         /\ \A j, l \in DOMAIN q : Runs(q[j], op) /\ Runs(q[l], op) => j = l
    /\ \A f \in b : f[1] \in Own => \E j \in DOMAIN q : Runs(q[j], f[1]) /\ q[j].on = f[2]

FlagInv == FlagOf(calls, busy)

LEMMA FlagThen ==
    ASSUME FlagOf(calls', busy')
    PROVE  FlagInv'
BY DEF FlagInv, FlagOf, Runs

LEMMA FlagIs ==
    \A op, x : Flag(op, x) = <<op, IF op \in Own THEN x ELSE NoRow>>
BY DEF Flag, Own

LEMMA InitFlag ==
    ASSUME Init
    PROVE  FlagInv
<1> DEFINE c == Call("load", NoRow, FALSE)
<1>1. c.op = "load" /\ calls = <<c>> /\ busy = {}
  BY DEF Call, Init
<1> HIDE DEF c
<1>2. \A j \in DOMAIN calls : calls[j] = c
  BY <1>1
<1>3. "load" \notin Paged
  BY DEF Paged, Fetches
<1> QED BY <1>1, <1>2, <1>3 DEF FlagInv, FlagOf, Runs

LEMMA AskFlag ==
    ASSUME TypeInv, FlagInv, NEW c \in CallRec, Clicked(c), Ask(c)
    PROVE  FlagInv'
<1> DEFINE n == Len(calls) + 1
<1>1. /\ calls' = Append(calls, c)
      /\ busy' = IF c.op \in Fetches THEN busy ELSE Raised(c.op, c.on)
  BY DEF Ask
<1>2. c.live /\ (c.op \notin Fetches \cup {"tags"} => Flag(c.op, c.on) \notin busy)
  BY DEF Clicked, Enabled
<1>3. /\ DOMAIN calls' = DOMAIN calls \cup {n} /\ n \notin DOMAIN calls
      /\ calls'[n] = c /\ \A j \in DOMAIN calls : calls'[j] = calls[j]
  BY <1>1, TypeInvIs
<1> HIDE DEF n
<1>4. c.op \in Paged => <<c.op, NoRow>> \notin busy /\ Flag(c.op, c.on) = <<c.op, NoRow>>
  BY <1>2, FlagIs DEF Paged, Own, OneId
<1>5. ASSUME NEW op \in Paged
      PROVE  /\ <<op, NoRow>> \in busy' <=> \E j \in DOMAIN calls' : Runs(calls'[j], op)
             /\ \A j, l \in DOMAIN calls' : Runs(calls'[j], op) /\ Runs(calls'[l], op) => j = l
  <2>1. /\ <<op, NoRow>> \in busy <=> \E j \in DOMAIN calls : Runs(calls[j], op)
        /\ \A j, l \in DOMAIN calls : Runs(calls[j], op) /\ Runs(calls[l], op) => j = l
    BY DEF FlagInv, FlagOf
  <2>2. CASE op = c.op
    <3>1. <<op, NoRow>> \in busy'
      BY <1>1, <1>4, <1>5, <2>2 DEF Raised, Paged
    <3>2. \A j \in DOMAIN calls : ~Runs(calls[j], op)
      BY <1>4, <1>5, <2>1, <2>2
    <3>3. Runs(c, op)
      BY <1>2, <2>2 DEF Runs
    <3> QED BY <1>3, <3>1, <3>2, <3>3
  <2>3. CASE op # c.op
    <3>1. <<op, NoRow>> \in busy' <=> <<op, NoRow>> \in busy
      BY <1>1, <1>5, <2>3, FlagIs DEF Raised
    <3>2. ~Runs(c, op)
      BY <2>3 DEF Runs
    <3> QED BY <1>3, <2>1, <3>1, <3>2
  <2> QED BY <2>2, <2>3
<1>6. ASSUME NEW f \in busy', f[1] \in Own
      PROVE  \E j \in DOMAIN calls' : Runs(calls'[j], f[1]) /\ calls'[j].on = f[2]
  <2>1. CASE f \in busy
    <3>1. PICK j \in DOMAIN calls : Runs(calls[j], f[1]) /\ calls[j].on = f[2]
      BY <1>6, <2>1 DEF FlagInv, FlagOf
    <3> QED BY <1>3, <3>1
  <2>2. CASE f \notin busy
    <3>1. f = Flag(c.op, c.on)
      BY <1>1, <1>6, <2>2 DEF Raised
    <3>2. f[1] = c.op /\ f[2] = c.on
      BY <1>6, <3>1, FlagIs
    <3>3. Runs(c, f[1])
      BY <1>2, <3>2 DEF Runs
    <3> QED BY <1>3, <3>2, <3>3
  <2> QED BY <2>1, <2>2
<1>7. FlagOf(calls', busy')
  BY <1>5, <1>6 DEF FlagOf
<1> QED BY <1>7, FlagThen

LEMMA SelectViewFlag ==
    ASSUME TypeInv, SelectView
    PROVE  FlagInv'
<1>1. /\ busy' = {}
      /\ calls' = [j \in DOMAIN calls |-> [calls[j] EXCEPT !.live = calls[j].op \in Fetches]]
  BY DEF SelectView
<1>2. ASSUME NEW j \in DOMAIN calls'
      PROVE  calls'[j].live => calls'[j].op \in Fetches
  <2> DEFINE c == calls[j]
             d == [c EXCEPT !.live = c.op \in Fetches]
  <2>1. c \in CallRec /\ calls'[j] = d
    BY <1>1, TypeInvIs
  <2> HIDE DEF c
  <2>2. d.op = c.op /\ (d.live <=> c.op \in Fetches)
    BY <2>1 DEF CallRec
  <2> HIDE DEF d
  <2> QED BY <2>1, <2>2
<1>3. \A j \in DOMAIN calls' : \A op \in Paged : ~Runs(calls'[j], op)
  BY <1>2 DEF Runs, Paged
<1>4. FlagOf(calls', busy')
  BY <1>1, <1>3 DEF FlagOf
<1> QED BY <1>4, FlagThen

LEMMA MappedFlag ==
    ASSUME FlagInv, busy' = busy, DOMAIN calls' = DOMAIN calls,
           \A j \in DOMAIN calls : /\ calls'[j].op = calls[j].op /\ calls'[j].live = calls[j].live
                                   /\ Appends(calls[j]) \/ calls'[j].on = calls[j].on
    PROVE  FlagInv'
<1>1. \A op : \A j \in DOMAIN calls : Runs(calls'[j], op) <=> Runs(calls[j], op)
  BY DEF Runs
<1>2. ASSUME NEW f \in busy', f[1] \in Own
      PROVE  \E j \in DOMAIN calls' : Runs(calls'[j], f[1]) /\ calls'[j].on = f[2]
  <2>1. PICK j \in DOMAIN calls : Runs(calls[j], f[1]) /\ calls[j].on = f[2]
    BY <1>2 DEF FlagInv, FlagOf
  <2>2. ~Appends(calls[j])
    BY <1>2, <2>1 DEF Runs, Own, OneId, PerRow, Appends
  <2> QED BY <1>1, <2>1, <2>2
<1>3. FlagOf(calls', busy')
  BY <1>1, <1>2 DEF FlagInv, FlagOf
<1> QED BY <1>3, FlagThen

LEMMA AgedFlag ==
    ASSUME TypeInv, NEW K \in SUBSET Cells, NEW j \in DOMAIN calls
    PROVE  /\ Older(calls[j], K).op = calls[j].op /\ Older(calls[j], K).live = calls[j].live
           /\ Older(calls[j], K).on = calls[j].on
<1> DEFINE c == calls[j]
<1>1. c \in CallRec
  BY TypeInvIs
<1> HIDE DEF c
<1>2. Older(c, K).op = c.op /\ Older(c, K).live = c.live /\ Older(c, K).on = c.on
  BY <1>1, OlderIs
<1> QED BY <1>2 DEF c

LEMMA ServeFlag ==
    ASSUME TypeInv, FlagInv, NEW i \in DOMAIN calls, Serve(i)
    PROVE  FlagInv'
<1> DEFINE c == calls[i]
<1>1. PICK x \in Given(c) :
        LET S == After(c, x)
        IN  /\ Asks(c) /\ Accepts(c) /\ c.state = "asked"
            /\ Sound(S, Borne(c, x)) /\ Changed(S) \subseteq Cells
            /\ page' = page /\ stored' = S /\ born' = Borne(c, x) /\ shown' = shown
            /\ loaded' = loaded /\ option' = option /\ busy' = busy
            /\ behind' = behind \cup (Changed(S) \cap (Untold(c) \ Reads(c, x)))
            /\ calls' = [j \in DOMAIN calls |-> calls'[j]]
            /\ calls'[i] = Answering(c, x)
            /\ \A j \in DOMAIN calls : j # i => calls'[j] = Older(calls[j], Changed(S))
  BY ServeIs
<1> DEFINE S == After(c, x)
           d == Answering(c, x)
<1>2. c \in CallRec /\ CallFits(c) /\ Whole
  BY TypeInvIs
<1>3. d.op = c.op /\ d.live = c.live /\ d.on = x
  BY <1>1, <1>2, AnsweringIs
<1>4. Appends(c) \/ x = c.on
  BY GivenIs DEF Appends
<1>5. /\ busy' = busy /\ DOMAIN calls' = DOMAIN calls /\ calls'[i] = d
      /\ \A j \in DOMAIN calls : j # i => calls'[j] = Older(calls[j], Changed(S))
      /\ Changed(S) \in SUBSET Cells
  BY <1>1
<1> HIDE DEF c, d, S
<1>6. ASSUME NEW j \in DOMAIN calls, j # i
      PROVE  /\ calls'[j].op = calls[j].op /\ calls'[j].live = calls[j].live
             /\ calls'[j].on = calls[j].on
  BY <1>5, <1>6, AgedFlag
<1>7. \A j \in DOMAIN calls : /\ calls'[j].op = calls[j].op /\ calls'[j].live = calls[j].live
                              /\ Appends(calls[j]) \/ calls'[j].on = calls[j].on
  BY <1>3, <1>4, <1>5, <1>6 DEF c
<1> QED BY <1>5, <1>7, MappedFlag

LEMMA ServeFetchFlag ==
    ASSUME TypeInv, FlagInv, NEW i \in DOMAIN calls, ServeFetch(i)
    PROVE  FlagInv'
<1> DEFINE c == calls[i]
<1>1. PICK K \in Parts(c) :
         LET read == K \cup DOMAIN c.answer
         IN  calls' = [calls EXCEPT ![i] =
               [c EXCEPT !.answer = [k \in read |-> IF k \in K THEN Truth[k] ELSE c.answer[k]],
                         !.state  = IF read = UNION Parts(c) THEN "served" ELSE @]]
  BY DEF ServeFetch
<1> DEFINE read == K \cup DOMAIN c.answer
           a == [k \in read |-> IF k \in K THEN Truth[k] ELSE c.answer[k]]
           s == IF read = UNION Parts(c) THEN "served" ELSE c.state
           d == [c EXCEPT !.answer = a, !.state = s]
<1>2. calls' = [calls EXCEPT ![i] = d]
  BY <1>1
<1>3. c \in CallRec /\ busy' = busy
  BY TypeInvIs DEF ServeFetch, view
<1> HIDE DEF c, a, s
<1>4. d.op = c.op /\ d.live = c.live /\ d.on = c.on
  BY <1>3 DEF CallRec
<1> HIDE DEF d
<1>5. /\ DOMAIN calls' = DOMAIN calls
      /\ \A j \in DOMAIN calls : calls'[j] = IF j = i THEN d ELSE calls[j]
  BY <1>2
<1>6. \A j \in DOMAIN calls : /\ calls'[j].op = calls[j].op /\ calls'[j].live = calls[j].live
                              /\ Appends(calls[j]) \/ calls'[j].on = calls[j].on
  BY <1>4, <1>5 DEF c
<1> QED BY <1>3, <1>5, <1>6, MappedFlag

LEMMA RefuseFlag ==
    ASSUME TypeInv, FlagInv, NEW i \in DOMAIN calls, Refuse(i)
    PROVE  FlagInv'
<1>1. busy' = busy
  BY DEF Refuse, view
<1>2. /\ DOMAIN calls' = DOMAIN calls
      /\ \A j \in DOMAIN calls : calls'[j] = IF j = i THEN Lost(calls[i]) ELSE calls[j]
  BY RefuseIs
<1>3. /\ Lost(calls[i]).op = calls[i].op /\ Lost(calls[i]).live = calls[i].live
      /\ Lost(calls[i]).on = calls[i].on
  BY TypeInvIs, LostIs
<1>4. \A j \in DOMAIN calls : /\ calls'[j].op = calls[j].op /\ calls'[j].live = calls[j].live
                              /\ Appends(calls[j]) \/ calls'[j].on = calls[j].on
  BY <1>2, <1>3
<1> QED BY <1>1, <1>2, <1>4, MappedFlag

LEMMA ElsewhereFlag ==
    ASSUME TypeInv, FlagInv, NEW S, Elsewhere(S)
    PROVE  FlagInv'
<1>1. busy' = busy /\ calls' = Aged(Changed(S), 0) /\ Changed(S) \in SUBSET Cells
  BY ChangedIs DEF Elsewhere, view
<1>2. DOMAIN calls' = DOMAIN calls /\ \A j \in DOMAIN calls : calls'[j] = Older(calls[j], Changed(S))
  <2>1. 0 \notin DOMAIN calls
    BY TypeInvIs
  <2> QED BY <1>1, <2>1, AgedIs
<1>3. \A j \in DOMAIN calls : /\ calls'[j].op = calls[j].op /\ calls'[j].live = calls[j].live
                              /\ Appends(calls[j]) \/ calls'[j].on = calls[j].on
  BY <1>1, <1>2, AgedFlag
<1> QED BY <1>1, <1>2, <1>3, MappedFlag

(* What is up after a call has ended is up for another one. *)
LEMMA LoweredIs ==
    ASSUME NEW c \in CallRec, busy \subseteq Ops \X Someone
    PROVE  /\ \A op \in Paged : <<op, NoRow>> \in Lowered(c) <=> <<op, NoRow>> \in busy /\ ~Runs(c, op)
           /\ \A f \in Lowered(c) : f \in busy /\ (f[1] \in Own => ~(Runs(c, f[1]) /\ c.on = f[2]))
           /\ c.op = "pool" /\ c.live => \A f \in Lowered(c) : f \in busy
<1>1. CASE ~c.live \/ c.op \in Fetches
  <2>1. Lowered(c) = busy
    BY <1>1 DEF Lowered
  <2>2. \A op \in Paged \cup Own : ~Runs(c, op)
    BY <1>1 DEF Runs, Paged, Own, OneId, PerRow, Fetches
  <2> QED BY <2>1, <2>2
<1>2. CASE c.live /\ c.op \notin Fetches /\ c.op \in OneId
  <2>1. Lowered(c) = {b \in busy : b[1] # c.op}
    BY <1>2 DEF Lowered
  <2>2. c.op \notin Paged
    BY <1>2 DEF Paged, Own
  <2> QED BY <2>1, <2>2 DEF Runs
<1>3. CASE c.live /\ c.op \notin Fetches /\ c.op \notin OneId
  <2>1. Lowered(c) = busy \ {Flag(c.op, c.on)}
    BY <1>3 DEF Lowered
  <2>2. CASE c.op \in Own
    <3>1. Flag(c.op, c.on) = <<c.op, c.on>> /\ c.op \notin Paged
      BY <2>2, FlagIs DEF Paged
    <3>2. \A op \in Paged : ~Runs(c, op) /\ <<op, NoRow>> # <<c.op, c.on>>
      BY <3>1 DEF Runs
    <3>3. \A f \in busy : f[1] = c.op /\ c.on = f[2] => f = <<c.op, c.on>>
      OBVIOUS
    <3> QED BY <2>1, <3>1, <3>2, <3>3 DEF Runs
  <2>3. CASE c.op \notin Own
    <3>1. Flag(c.op, c.on) = <<c.op, NoRow>>
      BY <2>3, FlagIs
    <3>2. \A op : Runs(c, op) <=> op = c.op
      BY <1>3 DEF Runs
    <3> QED BY <2>1, <2>3, <3>1, <3>2
  <2> QED BY <2>2, <2>3
<1> QED BY <1>1, <1>2, <1>3

LEMMA GoneFlag ==
    ASSUME TypeInv, FlagInv, NEW i \in DOMAIN calls, NEW t \in Seq(CallRec),
           calls' = RemoveAt(calls, i) \o t,
           \A l \in DOMAIN t : t[l].op \notin Paged,
           \A op \in Paged : <<op, NoRow>> \in busy' <=> <<op, NoRow>> \in busy /\ ~Runs(calls[i], op),
           \A f \in busy' : f[1] \in Own =>
             \/ \E l \in DOMAIN t : Runs(t[l], f[1]) /\ t[l].on = f[2]
             \/ f \in busy /\ ~(Runs(calls[i], f[1]) /\ calls[i].on = f[2])
    PROVE  FlagInv'
<1> DEFINE q == calls'
<1>1. /\ \A l \in DOMAIN calls \ {i} : \E j \in DOMAIN q : q[j] = calls[l]
      /\ \A l \in DOMAIN t : \E j \in DOMAIN q : q[j] = t[l]
  BY Persists
<1>2. ASSUME NEW j \in DOMAIN q
      PROVE  \/ From(i, j) \in DOMAIN calls \ {i} /\ j \in 1..Len(calls)-1 /\ q[j] = calls[From(i, j)]
             \/ j \notin 1..Len(calls)-1 /\ \E l \in DOMAIN t : q[j] = t[l]
  BY Afterwards
<1>3. Len(calls) \in Nat /\ i \in 1..Len(calls)
  BY TypeInvIs
<1> HIDE DEF q
<1>4. ASSUME NEW op \in Paged
      PROVE  /\ <<op, NoRow>> \in busy' <=> \E j \in DOMAIN q : Runs(q[j], op)
             /\ \A j, l \in DOMAIN q : Runs(q[j], op) /\ Runs(q[l], op) => j = l
  <2>1. /\ <<op, NoRow>> \in busy <=> \E j \in DOMAIN calls : Runs(calls[j], op)
        /\ \A j, l \in DOMAIN calls : Runs(calls[j], op) /\ Runs(calls[l], op) => j = l
    BY DEF FlagInv, FlagOf
  <2>2. ASSUME NEW j \in DOMAIN q, Runs(q[j], op)
        PROVE  From(i, j) \in DOMAIN calls \ {i} /\ j \in 1..Len(calls)-1 /\ Runs(calls[From(i, j)], op)
    <3>1. CASE From(i, j) \in DOMAIN calls \ {i} /\ j \in 1..Len(calls)-1 /\ q[j] = calls[From(i, j)]
      BY <2>2, <3>1
    <3>2. CASE \E l \in DOMAIN t : q[j] = t[l]
      BY <1>4, <2>2, <3>2 DEF Runs
    <3> QED BY <1>2, <3>1, <3>2
  <2>3. ASSUME NEW j \in DOMAIN q, NEW l \in DOMAIN q, Runs(q[j], op), Runs(q[l], op)
        PROVE  j = l
    <3>1. /\ From(i, j) \in DOMAIN calls /\ j \in 1..Len(calls)-1 /\ Runs(calls[From(i, j)], op)
          /\ From(i, l) \in DOMAIN calls /\ l \in 1..Len(calls)-1 /\ Runs(calls[From(i, l)], op)
      BY <2>2, <2>3
    <3>2. From(i, j) = From(i, l)
      BY <2>1, <3>1
    <3> QED BY <1>3, <3>1, <3>2, FromIsOne
  <2>4. ASSUME <<op, NoRow>> \in busy' PROVE \E j \in DOMAIN q : Runs(q[j], op)
    <3>1. PICK l \in DOMAIN calls : Runs(calls[l], op)
      BY <1>4, <2>1, <2>4
    <3>2. l # i
      BY <1>4, <2>4, <3>1
    <3> QED BY <1>1, <3>1, <3>2
  <2>5. ASSUME NEW j \in DOMAIN q, Runs(q[j], op) PROVE <<op, NoRow>> \in busy'
    <3>1. From(i, j) \in DOMAIN calls \ {i} /\ Runs(calls[From(i, j)], op)
      BY <2>2, <2>5
    <3>2. ~Runs(calls[i], op) /\ <<op, NoRow>> \in busy
      BY <2>1, <3>1
    <3> QED BY <1>4, <3>2
  <2> QED BY <2>3, <2>4, <2>5
<1>5. ASSUME NEW f \in busy', f[1] \in Own
      PROVE  \E j \in DOMAIN q : Runs(q[j], f[1]) /\ q[j].on = f[2]
  <2>1. CASE \E l \in DOMAIN t : Runs(t[l], f[1]) /\ t[l].on = f[2]
    BY <1>1, <2>1
  <2>2. CASE f \in busy /\ ~(Runs(calls[i], f[1]) /\ calls[i].on = f[2])
    <3>1. PICK l \in DOMAIN calls : Runs(calls[l], f[1]) /\ calls[l].on = f[2]
      BY <1>5, <2>2 DEF FlagInv, FlagOf
    <3>2. l # i
      BY <2>2, <3>1
    <3> QED BY <1>1, <3>1, <3>2
  <2> QED BY <1>5, <2>1, <2>2
<1>6. FlagOf(q, busy')
  BY <1>4, <1>5 DEF FlagOf
<1> QED BY <1>6, FlagThen DEF q

LEMMA FailFlag ==
    ASSUME TypeInv, FlagInv, NEW i \in DOMAIN calls, Fail(i)
    PROVE  FlagInv'
<1> DEFINE t == <<>>
           c == calls[i]
<1>1. /\ calls' = RemoveAt(calls, i) \o t /\ t \in Seq(CallRec)
      /\ busy' = Lowered(c) /\ c \in CallRec
  BY FailIs
<1>2. DOMAIN t = {} /\ busy \subseteq Ops \X Someone
  BY DEF TypeInv, RestOk
<1> HIDE DEF t, c
<1>3. /\ \A op \in Paged : <<op, NoRow>> \in busy' <=> <<op, NoRow>> \in busy /\ ~Runs(c, op)
      /\ \A f \in busy' : f \in busy /\ (f[1] \in Own => ~(Runs(c, f[1]) /\ c.on = f[2]))
  BY <1>1, <1>2, LoweredIs
<1> QED BY <1>1, <1>2, <1>3, GoneFlag DEF c

LEMMA ArriveFlag ==
    ASSUME TypeInv, FlagInv, NEW i \in DOMAIN calls, Arrive(i)
    PROVE  FlagInv'
<1> DEFINE c == calls[i]
           t == Follow(c)
<1>1. /\ c \in CallRec /\ CallFits(c) /\ c.state = "served"
      /\ calls' = RemoveAt(calls, i) \o t /\ t \in Seq(CallRec)
  BY ArriveIs
<1>2. busy' = IF c.op = "pool" /\ c.live
              THEN {b \in Lowered(c) : b[1] # "department"} \cup {<<"department", c.on>>}
              ELSE Lowered(c)
  BY DEF Arrive
<1>3. /\ \A l \in DOMAIN t : Following(c, t[l])
      /\ c.op = "pool" => \E l \in DOMAIN t : t[l].op = "department"
  BY <1>1, TypeInvIs, FollowIs
<1>4. busy \subseteq Ops \X Someone
  BY DEF TypeInv, RestOk
<1> HIDE DEF t, c
<1>5. /\ \A op \in Paged : <<op, NoRow>> \in Lowered(c) <=> <<op, NoRow>> \in busy /\ ~Runs(c, op)
      /\ \A f \in Lowered(c) : f \in busy /\ (f[1] \in Own => ~(Runs(c, f[1]) /\ c.on = f[2]))
  BY <1>1, <1>4, LoweredIs
<1>6. "department" \in Own /\ "department" \notin Paged
  BY DEF Own, OneId, Paged
<1>7. \A l \in DOMAIN t : t[l].op \notin Paged
  BY <1>3, <1>6 DEF Following, Paged
<1>8. \A op \in Paged : <<op, NoRow>> \in busy' <=> <<op, NoRow>> \in Lowered(c)
  BY <1>2, <1>6
<1>9. ASSUME NEW f \in busy', f[1] \in Own
      PROVE  \/ \E l \in DOMAIN t : Runs(t[l], f[1]) /\ t[l].on = f[2]
             \/ f \in busy /\ ~(Runs(c, f[1]) /\ c.on = f[2])
  <2>1. CASE f \in Lowered(c)
    BY <1>5, <1>9, <2>1
  <2>2. CASE f \notin Lowered(c)
    <3>1. c.op = "pool" /\ c.live /\ f = <<"department", c.on>>
      BY <1>2, <1>9, <2>2
    <3>2. PICK l \in DOMAIN t : t[l].op = "department"
      BY <1>3, <3>1
    <3>3. t[l].on = c.on /\ t[l].live = c.live
      BY <1>3, <3>1, <3>2 DEF Following
    <3> QED BY <3>1, <3>2, <3>3 DEF Runs
  <2> QED BY <2>1, <2>2
<1> QED BY <1>1, <1>5, <1>7, <1>8, <1>9, GoneFlag DEF c

LEMMA FlagStep == TypeInv /\ FlagInv /\ [Next]_vars => FlagInv'
<1> SUFFICES ASSUME TypeInv, FlagInv, [Next]_vars PROVE FlagInv'
  OBVIOUS
<1>1. CASE Next
  <2>1. CASE SelectView
    BY <2>1, SelectViewFlag
  <2>2. CASE \E c \in CallRec : Clicked(c) /\ Ask(c)
    BY <2>2, AskFlag
  <2>3. CASE \E i \in DOMAIN calls : Serve(i)
    BY <2>3, ServeFlag
  <2>4. CASE \E i \in DOMAIN calls : ServeFetch(i)
    BY <2>4, ServeFetchFlag
  <2>5. CASE \E i \in DOMAIN calls : Refuse(i)
    BY <2>5, RefuseFlag
  <2>6. CASE \E i \in DOMAIN calls : Arrive(i)
    BY <2>6, ArriveFlag
  <2>7. CASE \E i \in DOMAIN calls : Fail(i)
    BY <2>7, FailFlag
  <2>8. CASE \E S : Stirred(S) /\ Elsewhere(S)
    BY <2>8, ElsewhereFlag
  <2> QED BY <1>1, <2>1, <2>2, <2>3, <2>4, <2>5, <2>6, <2>7, <2>8, Steps
<1>2. CASE UNCHANGED vars
  <2>1. busy' = busy /\ calls' = calls
    BY <1>2 DEF vars, view
  <2>2. FlagOf(calls', busy')
    BY <2>1 DEF FlagInv
  <2> QED BY <2>2, FlagThen
<1> QED BY <1>1, <1>2

LEMMA FlagAlways == Spec => []FlagInv
<1>1. Init => FlagInv
  BY InitFlag
<1> QED BY <1>1, FlagStep, TypeAlways, PTL DEF Spec

(* A form of the page is locked exactly while its one call is on its way,  *)
(* and a row's only while a call for that row is: an error, a lost answer  *)
(* or another tab of the page never leaves one locked (the finally blocks).*)
THEOREM FlagsAreRight == Spec => []FlagsMatchCalls
<1>1. FlagInv => FlagsMatchCalls
  <2> SUFFICES ASSUME FlagInv PROVE FlagsMatchCalls
    OBVIOUS
  <2>1. ASSUME NEW op \in Ops \ (OneId \cup PerRow \cup Fetches)
        PROVE  Cardinality(Running(op)) = IF <<op, NoRow>> \in busy THEN 1 ELSE 0
    <3>1. op \in Paged
      BY <2>1 DEF Paged, Own
    <3>2. /\ <<op, NoRow>> \in busy <=> \E j \in DOMAIN calls : Runs(calls[j], op)
          /\ \A j, l \in DOMAIN calls : Runs(calls[j], op) /\ Runs(calls[l], op) => j = l
      BY <3>1 DEF FlagInv, FlagOf
    <3>3. CASE <<op, NoRow>> \in busy
      <4>1. PICK j \in DOMAIN calls : Runs(calls[j], op)
        BY <3>2, <3>3
      <4>2. Running(op) = {j}
        BY <3>2, <4>1 DEF Running, Runs
      <4> QED BY <3>3, <4>2, FS_Singleton
    <3>4. CASE <<op, NoRow>> \notin busy
      <4>1. Running(op) = {}
        BY <3>2, <3>4 DEF Running, Runs
      <4> QED BY <3>4, <4>1, FS_EmptySet
    <3> QED BY <3>3, <3>4
  <2>2. ASSUME NEW b \in busy, b[1] \in OneId \cup PerRow
        PROVE  \E i \in Running(b[1]) : calls[i].on = b[2]
    <3>1. PICK j \in DOMAIN calls : Runs(calls[j], b[1]) /\ calls[j].on = b[2]
      BY <2>2 DEF FlagInv, FlagOf, Own
    <3> QED BY <3>1 DEF Running, Runs
  <2> QED BY <2>1, <2>2 DEF FlagsMatchCalls
<1> QED BY <1>1, FlagAlways, PTL

=============================================================================
