----------------------------- MODULE ListingProofs -----------------------------
(***************************************************************************)
(* Theorems about Listing: a walk misses nothing and never goes back, for  *)
(* any number of reviews, users, writes and rows to a page.                *)
(***************************************************************************)
EXTENDS Listing, FiniteSetTheorems, TLAPS

LEMMA KeyType ==
  ASSUME TypeOK, NEW sort \in Sort, NEW r \in Review, rows[r] # None
  PROVE  SortKey(sort, r) \in Key
  <1>1. rows[r] \in Row
    BY DEF TypeOK, Rows
  <1>2. rows[r].rating \in Int /\ rows[r].created \in Int /\ r \in Int
    BY <1>1, ListingAssumption DEF Row
  <1>3. Helpful(r) \in Int
    <2> DEFINE S == {u \in User : <<r, u>> \in votes}
    <2>1. S \subseteq User
      OBVIOUS
    <2>2. IsFiniteSet(S)
      BY <2>1, ListingAssumption, FS_Subset
    <2>3. Cardinality(S) \in Nat
      BY <2>2, FS_CardinalityType
    <2> QED BY <2>3 DEF Helpful
  <1>4. Weight(sort, r) \in Int
    BY <1>2, <1>3 DEF Weight, Sort
  <1> QED BY <1>2, <1>4 DEF SortKey, Key

LEMMA BeforeTransitive ==
  ASSUME NEW sort, NEW k \in Key, NEW l \in Key, NEW m \in Key,
         Before(sort, k, l), Before(sort, l, m)
  PROVE  Before(sort, k, m)
  BY DEF Before, Less, Key

LEMMA MatchingType ==
  ASSUME TypeOK, NEW r \in Matching(walk)
  PROVE  /\ r \in Review /\ rows[r] # None
         /\ SortKey(walk.sort, r) \in Key
  <1>1. r \in Review /\ rows[r] # None
    BY DEF Matching, Listed, ListForUser, ListedOf
  <1>2. walk.sort \in Sort
    BY DEF TypeOK, Walk
  <1> QED BY <1>1, <1>2, KeyType

(* The two outcomes of a page: everything that matched and the end of the  *)
(* walk, or a last row and a cursor that everything else comes after.      *)
LEMMA PageOutcome ==
  ASSUME TypeOK, ListForTarget
  PROVE  \E out \in SUBSET Matching(walk) :
           /\ page' = KeysOf(out, walk)
           /\ \/ /\ out = Matching(walk)
                 /\ walk' = [walk EXCEPT !.cursor = None, !.pc = "done"]
              \/ \E last \in out :
                   /\ IsLast(last, out, walk)
                   /\ \A q \in Matching(walk) \ out :
                        Before(walk.sort, SortKey(walk.sort, last), SortKey(walk.sort, q))
                   /\ walk' = [walk EXCEPT !.cursor = SortKey(walk.sort, last),
                                           !.pc = "walking"]
  <1> DEFINE M == Matching(walk)
  <1>0. PICK fetched \in SUBSET M :
          /\ IsFirst(fetched, Limit + 1, M, walk)
          /\ \E out \in SUBSET fetched :
               /\ IsFirst(out, Limit, fetched, walk)
               /\ IF Cardinality(fetched) > Limit
                  THEN \E r \in out : IsLast(r, out, walk) /\ Answer(out, SortKey(walk.sort, r))
                  ELSE Answer(out, None)
    BY DEF ListForTarget
  <1>1. PICK out \in SUBSET fetched :
          /\ IsFirst(fetched, Limit + 1, M, walk)
          /\ IsFirst(out, Limit, fetched, walk)
          /\ IF Cardinality(fetched) > Limit
             THEN \E r \in out : IsLast(r, out, walk) /\ Answer(out, SortKey(walk.sort, r))
             ELSE Answer(out, None)
    BY <1>0
  <1>2. IsFiniteSet(fetched) /\ IsFiniteSet(out)
    <2>1. M \subseteq Review
      BY DEF Matching, Listed, ListForUser, ListedOf
    <2> QED BY <2>1, ListingAssumption, FS_Subset
  <1>3. Cardinality(fetched) \in Nat /\ Cardinality(out) \in Nat /\ Limit \in Nat
    BY <1>2, FS_CardinalityType, ListingAssumption
  <1>4. walk \in Walk
    BY DEF TypeOK
  <1>5. CASE ~(Cardinality(fetched) > Limit)
    <2>1. fetched = M
      BY <1>1, <1>3, <1>5 DEF IsFirst
    <2>2. out = fetched
      <3>1. CASE Cardinality(out) < Limit
        BY <1>1, <3>1 DEF IsFirst
      <3>2. CASE ~(Cardinality(out) < Limit)
        <4>1. Cardinality(out) >= Cardinality(fetched)
          BY <1>3, <1>5, <3>2
        <4>2. Cardinality(out) = Cardinality(fetched) => out = fetched
          BY <1>1, <1>2, FS_Subset
        <4>3. Cardinality(out) <= Cardinality(fetched)
          BY <1>1, <1>2, FS_Subset
        <4> QED BY <4>1, <4>2, <4>3, <1>3
      <3> QED BY <3>1, <3>2
    <2>3. page' = KeysOf(out, walk) /\ walk' = [walk EXCEPT !.cursor = None, !.pc = "done"]
      BY <1>1, <1>5 DEF Answer
    <2> QED BY <2>1, <2>2, <2>3
  <1>6. CASE Cardinality(fetched) > Limit
    <2>1. PICK last \in out : IsLast(last, out, walk) /\ Answer(out, SortKey(walk.sort, last))
      BY <1>1, <1>6
    <2>2. SortKey(walk.sort, last) # None
      BY <1>1, MatchingType, ListingAssumption
    <2>3. /\ page' = KeysOf(out, walk)
          /\ walk' = [walk EXCEPT !.cursor = SortKey(walk.sort, last), !.pc = "walking"]
      BY <2>1, <2>2 DEF Answer
    <2>4. \A q \in M \ out : Before(walk.sort, SortKey(walk.sort, last), SortKey(walk.sort, q))
      <3>1. SUFFICES ASSUME NEW q \in M \ out
                     PROVE  Before(walk.sort, SortKey(walk.sort, last), SortKey(walk.sort, q))
        OBVIOUS
      <3>2. CASE q \in fetched
        BY <1>1, <2>1, <3>2 DEF IsFirst
      <3>3. CASE q \notin fetched
        BY <1>1, <2>1, <3>3 DEF IsFirst
      <3> QED BY <3>2, <3>3
    <2>5. out \in SUBSET M
      BY <1>1
    <2> QED BY <2>1, <2>3, <2>4, <2>5
  <1> QED BY <1>5, <1>6

----------------------------------------------------------------------------
(* Types.                                                                  *)

LEMMA RowTyped ==
  ASSUME TypeOK, NEW r \in Review, rows[r] # None
  PROVE  rows[r] \in Row
  BY DEF TypeOK, Rows

LEMMA WriteType ==
  ASSUME TypeOK, Write, rows' \in Rows, writing' \in Rows, votes' \subseteq Review \X User,
         voting' \in [User -> Review \cup {None}]
  PROVE  TypeOK'
  BY DEF TypeOK, Write, Witnessed

LEMMA SetRowType ==
  ASSUME TypeOK, NEW r \in Review, NEW row \in Row, SetRow(r, row)
  PROVE  TypeOK'
  <1>1. rows' \in Rows /\ UNCHANGED <<writing, votes, voting>> /\ Write
    BY DEF SetRow, TypeOK, Rows
  <1> QED BY <1>1, WriteType DEF TypeOK

LEMMA ReadPageType == TypeOK /\ ReadPage => TypeOK'
  <1> SUFFICES ASSUME TypeOK, ReadPage PROVE TypeOK'
    OBVIOUS
  <1>1. UNCHANGED table /\ UNCHANGED kept /\ shown' = shown \cup page /\ ListForTarget
    BY DEF ReadPage, listForTarget, listMine
  <1>2. PICK out \in SUBSET Matching(walk) :
          /\ page' = KeysOf(out, walk)
          /\ \/ walk' = [walk EXCEPT !.cursor = None, !.pc = "done"]
             \/ \E last \in out :
                  walk' = [walk EXCEPT !.cursor = SortKey(walk.sort, last), !.pc = "walking"]
    BY <1>1, PageOutcome
  <1>3. \A r \in out : SortKey(walk.sort, r) \in Key
    BY MatchingType
  <1>4. page' \subseteq Key
    BY <1>2, <1>3 DEF KeysOf
  <1>5. walk' \in Walk
    <2>1. walk \in Walk
      BY DEF TypeOK
    <2>2. PICK c \in Key \cup {None}, pc \in {"walking", "done"} :
            walk' = [walk EXCEPT !.cursor = c, !.pc = pc]
      BY <1>2, <1>3
    <2> QED BY <2>1, <2>2 DEF Walk
  <1> QED BY <1>1, <1>4, <1>5 DEF TypeOK, table

LEMMA WritesType == TypeOK /\ Writes => TypeOK'
  <1> SUFFICES ASSUME TypeOK, Writes PROVE TypeOK'
    OBVIOUS
  <1>1. ASSUME NEW r \in Review, NEW t \in Target, NEW k \in Rating, NEW at \in now..MaxNow,
               BeginCreate(r, t, k, at)
        PROVE  TypeOK'
    <2>1. [target |-> t, status |-> "published", rating |-> k, created |-> at] \in Row
      BY DEF Row, Status
    <2>2. writing' \in Rows
      BY <1>1, <2>1 DEF BeginCreate, TypeOK, Rows
    <2> QED BY <1>1, <2>2, WriteType DEF BeginCreate, TypeOK
  <1>2. ASSUME NEW r \in Review, CommitCreate(r) PROVE TypeOK'
    <2>1. rows' \in Rows /\ writing' \in Rows
      BY <1>2 DEF CommitCreate, TypeOK, Rows
    <2> QED BY <1>2, <2>1, WriteType DEF CommitCreate, TypeOK
  <1>3. ASSUME NEW r \in Review, NEW k \in Rating, Update(r, k) PROVE TypeOK'
    <2>1. [rows[r] EXCEPT !.rating = k] \in Row
      BY <1>3, RowTyped DEF Update, Row
    <2> QED BY <1>3, <2>1, SetRowType DEF Update
  <1>4. ASSUME NEW r \in Review, NEW s \in Status,
               (Remove(r) /\ s = "removed") \/ SetModerationStatus(r, s)
        PROVE  TypeOK'
    <2>1. rows[r] # None /\ SetRow(r, [rows[r] EXCEPT !.status = s])
      BY <1>4 DEF Remove, SetModerationStatus
    <2>2. [rows[r] EXCEPT !.status = s] \in Row
      BY <2>1, RowTyped DEF Row
    <2> QED BY <2>1, <2>2, SetRowType
  <1>5. ASSUME NEW s \in Target, NEW d \in Target, Merge(s, d) PROVE TypeOK'
    <2>1. \A r \in Review : rows[r] # None => [rows[r] EXCEPT !.target = d] \in Row
      BY RowTyped DEF Row
    <2>2. rows' \in Rows
      BY <1>5, <2>1 DEF Merge, TypeOK, Rows
    <2> QED BY <1>5, <2>2, WriteType DEF Merge, TypeOK
  <1>6. ASSUME NEW u \in User, NEW r \in Review, Vote(u, r) \/ Unvote(u, r) PROVE TypeOK'
    <2>1. /\ UNCHANGED <<rows, writing>> /\ Write
          /\ votes' \subseteq Review \X User
          /\ voting' \in [User -> Review \cup {None}]
      BY <1>6 DEF Vote, Unvote, TypeOK
    <2> QED BY <2>1, WriteType DEF TypeOK
  <1>7. ASSUME NEW u \in User, InsertVote(u) PROVE TypeOK'
    <2>1. /\ UNCHANGED <<rows, writing>> /\ Write
          /\ votes' \subseteq Review \X User
          /\ voting' \in [User -> Review \cup {None}]
      BY <1>7 DEF InsertVote, TypeOK
    <2> QED BY <2>1, WriteType DEF TypeOK
  <1>8. "removed" \in Status
    BY DEF Status
  <1> QED BY <1>1, <1>2, <1>3, <1>4, <1>5, <1>6, <1>7, <1>8 DEF Writes, vote, unvote

LEMMA InitType == Init => TypeOK
  BY ListingAssumption DEF Init, Opened, TypeOK, Rows, Walk, Listed, ListForUser, ListedOf

(* The table, the walk and its history keep their types (list.go,          *)
(* votes.go).                                                              *)
THEOREM TypeCorrect == Spec => []TypeOK
  <1>1. TypeOK /\ [Next]_vars => TypeOK'
    <2>1. CASE UNCHANGED vars
      BY <2>1 DEF vars, table, TypeOK
    <2> QED BY <2>1, ReadPageType, WritesType DEF Next
  <1> QED BY <1>1, InitType, PTL DEF Spec

----------------------------------------------------------------------------
(* Nothing is missed.                                                      *)

(* A review that kept its place is shown already or is still ahead of the  *)
(* cursor.                                                                 *)
Ahead(r) == r \in Listed(walk) /\ AfterCursor(walk, SortKey(walk.sort, r))

KeptInv ==
    \A r \in kept : r \in ShownIds \/ (walk.pc = "walking" /\ Ahead(r))

LEMMA InitKept == Init => KeptInv
  BY DEF Init, Opened, KeptInv, Ahead, AfterCursor

LEMMA Writing == Writes => Write
  BY DEF Writes, vote, unvote, BeginCreate, CommitCreate, Update, Remove, SetModerationStatus, SetRow,
         Merge, Vote, InsertVote, Unvote

LEMMA WriteKept == KeptInv /\ Write => KeptInv'
  <1> SUFFICES ASSUME KeptInv, Write, NEW r \in kept'
               PROVE  (r \in ShownIds \/ (walk.pc = "walking" /\ Ahead(r)))'
    BY DEF KeptInv
  <1>1. UNCHANGED <<walk, page, shown>> /\ walk.pc = "walking"
    BY DEF Write
  <1>2. r \in kept /\ r \in Listed(walk)' /\ SortKey(walk.sort, r)' = SortKey(walk.sort, r)
    BY DEF Write, Witnessed
  <1>3. CASE r \in ShownIds
    BY <1>1, <1>3 DEF ShownIds
  <1>4. CASE Ahead(r)
    <2>1. AfterCursor(walk, SortKey(walk.sort, r))
      BY <1>4 DEF Ahead
    <2>2. AfterCursor(walk, SortKey(walk.sort, r))'
      BY <1>1, <1>2, <2>1 DEF AfterCursor, Before, Less
    <2> QED BY <1>1, <1>2, <2>2 DEF Ahead
  <1> QED BY <1>2, <1>3, <1>4 DEF KeptInv

LEMMA ReadPageKept == TypeOK /\ KeptInv /\ ReadPage => KeptInv'
  <1> SUFFICES ASSUME TypeOK, KeptInv, ReadPage, NEW r \in kept'
               PROVE  (r \in ShownIds \/ (walk.pc = "walking" /\ Ahead(r)))'
    BY DEF KeptInv
  <1>1. /\ UNCHANGED table /\ UNCHANGED kept /\ shown' = shown \cup page
        /\ ListForTarget /\ r \in kept
    BY DEF ReadPage, listForTarget, listMine
  <1>2. PICK out \in SUBSET Matching(walk) :
           /\ page' = KeysOf(out, walk)
           /\ \/ /\ out = Matching(walk)
                 /\ walk' = [walk EXCEPT !.cursor = None, !.pc = "done"]
              \/ \E last \in out :
                   /\ IsLast(last, out, walk)
                   /\ \A q \in Matching(walk) \ out :
                        Before(walk.sort, SortKey(walk.sort, last), SortKey(walk.sort, q))
                   /\ walk' = [walk EXCEPT !.cursor = SortKey(walk.sort, last),
                                           !.pc = "walking"]
    BY <1>1, PageOutcome
  <1>3. CASE r \in ShownIds
    BY <1>1, <1>3 DEF ShownIds
  <1>4. CASE r \in out
    <2>1. SortKey(walk.sort, r) \in page' /\ SortKey(walk.sort, r)[3] = r
      BY <1>2, <1>4 DEF KeysOf, SortKey
    <2> QED BY <2>1 DEF ShownIds
  <1>5. CASE r \notin ShownIds /\ r \notin out
    <2>1. r \in Matching(walk)
      BY <1>1, <1>5 DEF KeptInv, Ahead, Matching
    <2>2. PICK last \in out :
            /\ Before(walk.sort, SortKey(walk.sort, last), SortKey(walk.sort, r))
            /\ walk' = [walk EXCEPT !.cursor = SortKey(walk.sort, last), !.pc = "walking"]
      BY <1>2, <1>5, <2>1
    <2>3. walk \in Walk
      BY DEF TypeOK
    <2>4. /\ walk'.pc = "walking" /\ walk'.sort = walk.sort /\ walk'.of = walk.of
          /\ walk'.star = walk.star /\ walk'.cursor = SortKey(walk.sort, last)
      BY <2>2, <2>3 DEF Walk
    <2>5. UNCHANGED <<rows, votes>>
      BY <1>1 DEF table
    <2>6. SortKey(walk.sort, r)' = SortKey(walk.sort, r)
      BY <2>4, <2>5 DEF SortKey, Weight, Helpful
    <2>7. r \in Listed(walk)'
      BY <2>1, <2>4, <2>5 DEF Matching, Listed, ListForUser, ListedOf
    <2>8. AfterCursor(walk, SortKey(walk.sort, r))'
      BY <2>2, <2>4, <2>6 DEF AfterCursor, Before, Less
    <2> QED BY <2>4, <2>7, <2>8 DEF Ahead
  <1> QED BY <1>3, <1>4, <1>5

(* A walk that came to its end has shown every review that was in the list *)
(* all along at the same place of the order (list.go).                     *)
THEOREM NothingMissed == Spec => []NoneMissed
  <1>1. TypeOK /\ KeptInv /\ [Next]_vars => KeptInv'
    <2> SUFFICES ASSUME TypeOK, KeptInv, [Next]_vars PROVE KeptInv'
      OBVIOUS
    <2>1. CASE UNCHANGED vars
      <3>1. UNCHANGED <<rows, votes, walk, page, shown, kept>>
        BY <2>1 DEF vars, table
      <3>2. ShownIds' = ShownIds
        BY <3>1 DEF ShownIds
      <3>3. \A r : SortKey(walk.sort, r)' = SortKey(walk.sort, r)
        BY <3>1 DEF SortKey, Weight, Helpful
      <3>4. \A r : Ahead(r)' = Ahead(r)
        BY <3>1, <3>3 DEF Ahead, Listed, ListForUser, ListedOf, AfterCursor, Before, Less
      <3> QED BY <3>1, <3>2, <3>4 DEF KeptInv
    <2>2. CASE ReadPage
      BY <2>2, ReadPageKept
    <2>3. CASE Writes
      BY <2>3, Writing, WriteKept
    <2> QED BY <2>1, <2>2, <2>3 DEF Next
  <1>2. KeptInv => NoneMissed
    BY DEF KeptInv, NoneMissed
  <1> QED BY <1>1, <1>2, InitKept, TypeCorrect, PTL DEF Spec

----------------------------------------------------------------------------
(* Nothing comes twice.                                                    *)

(* While the walk goes on, what was shown comes up to the cursor.          *)
OrderInv ==
    /\ InOrder
    /\ walk.pc = "walking" =>
          \A k \in shown \cup page :
             walk.cursor # None /\ (k = walk.cursor \/ Before(walk.sort, k, walk.cursor))

LEMMA ReadPageOrder == TypeOK /\ OrderInv /\ ReadPage => OrderInv'
  <1> SUFFICES ASSUME TypeOK, OrderInv, ReadPage PROVE OrderInv'
    OBVIOUS
  <1>1. shown' = shown \cup page /\ ListForTarget /\ walk.pc = "walking"
    BY DEF ReadPage, listForTarget, listMine
  <1>2. PICK out \in SUBSET Matching(walk) :
           /\ page' = KeysOf(out, walk)
           /\ \/ walk' = [walk EXCEPT !.cursor = None, !.pc = "done"]
              \/ \E last \in out :
                   /\ IsLast(last, out, walk)
                   /\ walk' = [walk EXCEPT !.cursor = SortKey(walk.sort, last),
                                           !.pc = "walking"]
    BY <1>1, PageOutcome
  <1>3. walk \in Walk /\ shown' \subseteq Key /\ page' \subseteq Key
    BY <1>1, ReadPageType DEF TypeOK
  <1>4. walk'.sort = walk.sort
    BY <1>2, <1>3 DEF Walk
  <1>5. ASSUME NEW k \in shown', NEW l \in page' PROVE Before(walk.sort, k, l)
    <2>1. walk.cursor # None /\ (k = walk.cursor \/ Before(walk.sort, k, walk.cursor))
      BY <1>1, <1>5 DEF OrderInv
    <2>2. walk.cursor \in Key
      BY <2>1, <1>3 DEF Walk
    <2>3. Before(walk.sort, walk.cursor, l)
      BY <1>2, <1>5, <2>1 DEF KeysOf, Matching, AfterCursor
    <2> QED BY <1>3, <1>5, <2>1, <2>2, <2>3, BeforeTransitive
  <1>6. InOrder'
    BY <1>4, <1>5 DEF InOrder, Before, Less
  <1>7. CASE walk' = [walk EXCEPT !.cursor = None, !.pc = "done"]
    <2>1. walk'.pc = "done"
      BY <1>3, <1>7 DEF Walk
    <2> QED BY <1>6, <2>1 DEF OrderInv
  <1>8. ASSUME NEW last \in out, IsLast(last, out, walk),
               walk' = [walk EXCEPT !.cursor = SortKey(walk.sort, last), !.pc = "walking"]
        PROVE  OrderInv'
    <2> DEFINE c == SortKey(walk.sort, last)
    <2>1. walk'.cursor = c
      BY <1>3, <1>8 DEF Walk
    <2>2. c \in page' /\ c \in Key /\ c # None
      BY <1>2, <1>3, <1>8, ListingAssumption DEF KeysOf
    <2>3. \A k \in page' : k = c \/ Before(walk.sort, k, c)
      BY ZenonT(40), <1>2, <1>8 DEF KeysOf, IsLast
    <2>4. \A k \in shown' : Before(walk.sort, k, c)
      BY <1>5, <2>2
    <2>5. \A k \in shown' \cup page' :
            walk'.cursor # None /\ (k = walk'.cursor \/ Before(walk'.sort, k, walk'.cursor))
      BY <1>4, <2>1, <2>2, <2>3, <2>4
    <2> QED BY <1>6, <2>5 DEF OrderInv, Before, Less
  <1> QED BY <1>2, <1>7, <1>8

(* Every page comes strictly after all the earlier ones (list.go).         *)
THEOREM Ordered == Spec => []InOrder
  <1>1. Init => OrderInv
    BY DEF Init, OrderInv, InOrder
  <1>2. TypeOK /\ OrderInv /\ [Next]_vars => OrderInv'
    <2> SUFFICES ASSUME TypeOK, OrderInv, [Next]_vars PROVE OrderInv'
      OBVIOUS
    <2>1. CASE UNCHANGED <<walk, page, shown>>
      BY <2>1 DEF OrderInv, InOrder, Before, Less
    <2>2. CASE ReadPage
      BY <2>2, ReadPageOrder
    <2> QED BY <2>1, <2>2, Writing DEF Next, Write, vars
  <1>3. OrderInv => InOrder
    BY DEF OrderInv
  <1> QED BY <1>1, <1>2, <1>3, TypeCorrect, PTL DEF Spec
================================================================================
