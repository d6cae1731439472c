-------------------------------- MODULE Listing --------------------------------
(***************************************************************************)
(* Keyset pagination of reviews (internal/reviews/list.go and votes.go):   *)
(* a reader walks the published reviews of a target, or the reviews they   *)
(* wrote, page by page, while reviews are posted, edited, hidden, restored *)
(* and moved by a merge and helpful votes come and go. Every page is one   *)
(* query, so it reads one snapshot; between two pages anything may have    *)
(* changed. The identifiers are numbers, which stand for the order of the  *)
(* uuids. The sort "relevant" has a single page and is left out.           *)
(***************************************************************************)
EXTENDS Integers, FiniteSets

CONSTANTS
    Review,         \* identifiers
    User,
    Target,
    Author,         \* who writes each review
    Rating,
    Limit,          \* rows of a page
    Walked,         \* whose reviews are walked: targets, or the user's own
    Stars,          \* the star filters used, None for none
    InitialRows,    \* the reviews before the walk
    None,
    MaxNow,         \* bound: the clock
    MaxChanges      \* bound: writes

VARIABLES
    rows,           \* the committed reviews
    writing,        \* reviews whose transaction has not committed
    votes,          \* helpful_votes: pairs of a review and a user
    voting,         \* the review each user is about to vote for
    walk,           \* what the reader asked for, and the cursor
    page,           \* the keys of the page shown last
    shown,          \* history: the keys of the pages before it
    kept,           \* history: reviews listed throughout with the same key
    now, changes

table == <<rows, writing, votes, voting>>
vars == <<table, walk, page, shown, kept, now, changes>>

Sort == {"newest", "oldest", "highest", "lowest", "most_helpful"}
Status == {"published", "hidden", "removed"}

Row == [target: Target, status: Status, rating: Rating, created: Int]

Key == Int \X Int \X Int

ASSUME ListingAssumption ==
    /\ Review \subseteq Int /\ IsFiniteSet(Review)
    /\ IsFiniteSet(User)
    /\ User \cap Target = {}
    /\ Walked \subseteq Target \cup User
    /\ Stars \subseteq Rating \cup {None}
    /\ InitialRows \subseteq [Review -> Row \cup {None}]
    /\ Rating \subseteq Int
    /\ Limit \in Nat \ {0}
    /\ MaxNow \in Int
    /\ None \notin Key \cup Row \cup Review

Walk == [of: Target \cup User,              \* a target's reviews, or one's own
         sort: Sort,
         star: Rating \cup {None},          \* the star filter
         pc: {"walking", "done"},
         cursor: Key \cup {None}]

----------------------------------------------------------------------------
(* The query.                                                              *)

Helpful(r) == Cardinality({u \in User : <<r, u>> \in votes})

(* The columns of ORDER BY; the identifier breaks ties.                    *)
Weight(sort, r) ==
    CASE sort \in {"newest", "oldest"}   -> 0
      [] sort \in {"highest", "lowest"}  -> rows[r].rating
      [] sort = "most_helpful"           -> Helpful(r)

SortKey(sort, r) == <<Weight(sort, r), rows[r].created, r>>

Less(k, l) == \/ k[1] < l[1]
              \/ k[1] = l[1] /\ k[2] < l[2]
              \/ k[1] = l[1] /\ k[2] = l[2] /\ k[3] < l[3]

(* ASC or DESC, and the row comparison that goes with it.                  *)
Before(sort, k, l) == IF sort \in {"oldest", "lowest"} THEN Less(k, l) ELSE Less(l, k)

(* One's own list shows every status; a target's what is published.        *)
ListForUser(u) == {r \in Review : rows[r] # None /\ Author[r] = u}

ListedOf(t, star) ==
    {r \in Review : /\ rows[r] # None
                    /\ rows[r].target = t
                    /\ rows[r].status = "published"
                    /\ star \in {None, rows[r].rating}}

Listed(w) == ListForUser(w.of) \cup ListedOf(w.of, w.star)

(* Mutants: the row comparison is not strict, or leaves the identifier out.*)
AfterCursorInclusive(w, k) == \/ w.cursor = None
                              \/ ~Before(w.sort, k, w.cursor)

AfterCursorWithoutId(w, k) == \/ w.cursor = None
                              \/ Before(w.sort, w.cursor, [k EXCEPT ![3] = w.cursor[3]])
                              \/ k[1] = w.cursor[1] /\ k[2] = w.cursor[2] /\ k # w.cursor

AfterCursor(w, k) == \/ w.cursor = None
                     \/ Before(w.sort, w.cursor, k)

Matching(w) == {r \in Listed(w) : AfterCursor(w, SortKey(w.sort, r))}

(* S is the first n of All in the order of the walk.                       *)
IsFirst(S, n, All, w) ==
    /\ Cardinality(S) <= n
    /\ \A r \in S, q \in All \ S : Before(w.sort, SortKey(w.sort, r), SortKey(w.sort, q))
    /\ Cardinality(S) < n => S = All

KeysOf(S, w) == {SortKey(w.sort, r) : r \in S}

IsLast(r, S, w) ==
    /\ r \in S
    /\ \A q \in S \ {r} : Before(w.sort, SortKey(w.sort, q), SortKey(w.sort, r))

(* What the page returns: the reviews shown and the cursor to go on from,  *)
(* None when there is nothing more.                                        *)
Answer(out, cursor) ==
    /\ page' = KeysOf(out, walk)
    /\ walk' = [walk EXCEPT !.cursor = cursor,
                            !.pc = IF cursor = None THEN "done" ELSE "walking"]

(* A mutant: the cursor is the row read to learn whether to go on.         *)
ListForTargetCursorOfExtraRow ==
    LET matching == Matching(walk) IN
    \E fetched \in SUBSET matching :
        /\ IsFirst(fetched, Limit + 1, matching, walk)
        /\ \E out \in SUBSET fetched :
            /\ IsFirst(out, Limit, fetched, walk)
            /\ IF Cardinality(fetched) > Limit
               THEN \E r \in fetched : IsLast(r, fetched, walk) /\ Answer(out, SortKey(walk.sort, r))
               ELSE Answer(out, None)

(* One row more than the page holds is read to learn whether to go on; the *)
(* cursor is the last row shown.                                           *)
ListForTarget ==
    LET matching == Matching(walk) IN
    \E fetched \in SUBSET matching :
        /\ IsFirst(fetched, Limit + 1, matching, walk)
        /\ \E out \in SUBSET fetched :
            /\ IsFirst(out, Limit, fetched, walk)
            /\ IF Cardinality(fetched) > Limit
               THEN \E r \in out : IsLast(r, out, walk) /\ Answer(out, SortKey(walk.sort, r))
               ELSE Answer(out, None)

----------------------------------------------------------------------------
(* The reader.                                                             *)

(* The query parameters: one's own reviews come newest first, unfiltered.  *)
Opened(of, sort, star) ==
    /\ of \in User => sort = "newest" /\ star = None
    /\ walk = [of |-> of, sort |-> sort, star |-> star, pc |-> "walking", cursor |-> None]
    /\ kept = Listed(walk)

listForTarget == walk.of \in Target /\ ListForTarget

(* The pages of one's own list are cut in the same way (ListForUser).      *)
listMine == walk.of \in User /\ ListForTarget

ReadPage ==
    /\ walk.pc = "walking"
    /\ listForTarget \/ listMine
    /\ shown' = shown \cup page
    /\ UNCHANGED <<table, kept, now, changes>>

----------------------------------------------------------------------------
(* The writers.                                                            *)

Witnessed ==
    kept' = {r \in kept : /\ r \in Listed(walk)'
                          /\ SortKey(walk.sort, r)' = SortKey(walk.sort, r)}

(* Bound: nothing is written once the walk is over.                        *)
Write ==
    /\ walk.pc = "walking"
    /\ changes < MaxChanges
    /\ changes' = changes + 1
    /\ UNCHANGED <<walk, page, shown>>
    /\ Witnessed

(* created_at is when the transaction began; others see the review when it *)
(* commits, which may be after they have seen later ones.                  *)
BeginCreate(r, t, rating, at) ==
    /\ rows[r] = None /\ writing[r] = None
    /\ now' = at
    /\ writing' = [writing EXCEPT ![r] =
          [target |-> t, status |-> "published", rating |-> rating, created |-> at]]
    /\ UNCHANGED <<rows, votes, voting>>
    /\ Write

CommitCreate(r) ==
    /\ writing[r] # None
    /\ rows' = [rows EXCEPT ![r] = writing[r]]
    /\ writing' = [writing EXCEPT ![r] = None]
    /\ UNCHANGED <<votes, voting, now>>
    /\ Write

SetRow(r, row) ==
    /\ rows' = [rows EXCEPT ![r] = row]
    /\ UNCHANGED <<writing, votes, voting, now>>
    /\ Write

Update(r, rating) ==
    /\ rows[r] # None /\ rows[r].status # "removed" /\ rows[r].rating # rating
    /\ SetRow(r, [rows[r] EXCEPT !.rating = rating])

Remove(r) ==
    /\ rows[r] # None /\ rows[r].status # "removed"
    /\ SetRow(r, [rows[r] EXCEPT !.status = "removed"])

SetModerationStatus(r, status) ==
    /\ rows[r] # None /\ rows[r].status # status
    /\ SetRow(r, [rows[r] EXCEPT !.status = status])

Merge(source, destination) ==
    /\ source # destination
    /\ rows' = [r \in Review |->
          IF rows[r] # None /\ rows[r].target = source
          THEN [rows[r] EXCEPT !.target = destination] ELSE rows[r]]
    /\ rows' # rows
    /\ UNCHANGED <<writing, votes, voting, now>>
    /\ Write

(* A vote is a check and then an insert that ignores a second vote.        *)
Vote(u, r) ==
    /\ voting[u] = None
    /\ rows[r] # None /\ rows[r].status = "published" /\ Author[r] # u
    /\ voting' = [voting EXCEPT ![u] = r]
    /\ UNCHANGED <<rows, writing, votes, now>>
    /\ Write

InsertVote(u) ==
    /\ voting[u] # None
    /\ votes' = votes \cup {<<voting[u], u>>}
    /\ voting' = [voting EXCEPT ![u] = None]
    /\ UNCHANGED <<rows, writing, now>>
    /\ Write

Unvote(u, r) ==
    /\ <<r, u>> \in votes
    /\ votes' = votes \ {<<r, u>>}
    /\ UNCHANGED <<rows, writing, voting, now>>
    /\ Write

vote(u) == (\E r \in Review : Vote(u, r)) \/ InsertVote(u)

unvote(u) == \E r \in Review : Unvote(u, r)

----------------------------------------------------------------------------
Init ==
    /\ rows \in InitialRows
    /\ writing = [r \in Review |-> None]
    /\ votes \in SUBSET {v \in Review \X User : rows[v[1]] # None /\ Author[v[1]] # v[2]}
    /\ voting = [u \in User |-> None]
    /\ \E of \in Walked, sort \in Sort, star \in Stars : Opened(of, sort, star)
    /\ page = {}
    /\ shown = {}
    /\ now = MaxNow - 1
    /\ changes = 0

Writes ==
    \/ \E r \in Review :
        \/ \E t \in Target, k \in Rating, at \in now..MaxNow : BeginCreate(r, t, k, at)
        \/ CommitCreate(r)
        \/ \E k \in Rating : Update(r, k)
        \/ Remove(r)
        \/ \E s \in Status : SetModerationStatus(r, s)
    \/ \E s, d \in Target : Merge(s, d)
    \/ \E u \in User : vote(u) \/ unvote(u)

Next ==
    \/ ReadPage
    \/ Writes

Spec == Init /\ [][Next]_vars

(* The reader goes on asking while there is a cursor.                      *)
FairSpec == Spec /\ WF_vars(ReadPage)

----------------------------------------------------------------------------
(* Properties.                                                             *)

Rows == [Review -> Row \cup {None}]

(* Types of the table, of the walk and of its history.                     *)
TypeOK ==
    /\ rows \in Rows
    /\ writing \in Rows
    /\ votes \subseteq Review \X User
    /\ voting \in [User -> Review \cup {None}]
    /\ walk \in Walk
    /\ page \subseteq Key /\ shown \subseteq Key
    /\ kept \subseteq Review

ShownIds == {k[3] : k \in shown \cup page}

(* A walk that came to its end showed every review that was in the list    *)
(* all along at the same place of the order, whatever was posted, hidden,  *)
(* moved or voted for between its pages (list.go:116-172, :226-245).       *)
NoneMissed == walk.pc = "done" => kept \subseteq ShownIds

(* No page shows a place of the order again or goes back: every page comes *)
(* strictly after all the earlier ones, so a review is shown twice only if *)
(* its own rating or votes moved it (list.go:116-172).                     *)
InOrder == \A k \in shown, l \in page : Before(walk.sort, k, l)

(* The reader who goes on asking comes to the end of the list: the cursor  *)
(* never leads back (list.go:226-245).                                     *)
WalkEnds == walk.pc = "walking" ~> walk.pc = "done"

================================================================================
