------------------------------- MODULE ReviewTx -------------------------------
(***************************************************************************)
(* The transactions that write reviews, review_targets and                 *)
(* target_rating_stats (internal/reviews/repo.go, the review decisions of  *)
(* internal/moderation, internal/admin MergeTargets), statement by         *)
(* statement, under PostgreSQL READ COMMITTED (external):                  *)
(*                                                                         *)
(*  - every statement reads the committed rows overlaid with the           *)
(*    transaction's own writes;                                            *)
(*  - FOR UPDATE and UPDATE lock a row exclusively to the end of the       *)
(*    transaction, and return its latest committed version once the lock   *)
(*    is granted; a foreign-key check takes a KEY SHARE lock on the row it *)
(*    points to, which conflicts with FOR UPDATE only;                     *)
(*  - a transaction that waits in a cycle is aborted.                      *)
(*                                                                         *)
(* A statement that reads or locks is a step; statements on rows already   *)
(* locked join the step before them.  Moderators and administrators are    *)
(* not members of User.                                                    *)
(***************************************************************************)
EXTENDS ReviewData

CONSTANTS
    Tx,             \* connection slots: transactions in flight
    Outcome,        \* statuses moderators decide
    TargetOutcome,  \* statuses moderators give targets
    UpgradeLevel,   \* levels that evidence and media grant
    ManagersOf,     \* members of the business behind each target
    CreatorOf,      \* who contributed each target, or None
    Merges,         \* <<source, destination>> pairs administrators merge
    MaxNow,         \* bound on the clock
    MaxVersion      \* bound on edits of one review

VARIABLES
    reviews,    \* committed reviews
    targets,    \* committed moderation status of each target
    stats,      \* committed target_rating_stats
    now,        \* the clock
    reinstated, \* history: reviews restored by a moderator or moved by a merge
    tx          \* the transaction each slot runs

vars == <<reviews, targets, stats, now, reinstated, tx>>

PC == {"idle", "draft", "target", "policy", "insert", "stats", "notify",
       "second", "move", "agg", "write", "commit"}

Row == ({"user"} \X User) \cup ({"target", "stats"} \X Target) \cup ({"review"} \X ReviewId)

TxState == [pc: PC,
            who: User \cup {None},           \* author of a new review
            rid: ReviewId \cup {None},       \* the review being written
            ver: Nat,                        \* version the client edits
            src: Target \cup {None},         \* target reviewed, or merged away
            dst: Target \cup {None},         \* target merged into
            agg: StatsRow \cup {None},       \* aggregate read, not yet written
            revs: [ReviewId -> Review \cup {None}],      \* uncommitted rows
            rows: [Target -> StatsRow \cup {None}],
            marks: [Target -> TargetStatus \cup {None}],
            notify: SUBSET User,             \* users still to be notified
            x: SUBSET Row,                   \* exclusive row locks
            ks: SUBSET Row]                  \* KEY SHARE row locks

Idle == [pc |-> "idle", who |-> None, rid |-> None, ver |-> 0,
         src |-> None, dst |-> None, agg |-> None,
         revs |-> [r \in ReviewId |-> None],
         rows |-> [t \in Target |-> None],
         marks |-> [t \in Target |-> None],
         notify |-> {}, x |-> {}, ks |-> {}]

ASSUME TxAssumption ==
    /\ Outcome \subseteq Status
    /\ TargetOutcome \subseteq {"published", "hidden", "removed"}
    /\ UpgradeLevel \subseteq Level
    /\ ManagersOf \in [Target -> SUBSET User]
    /\ CreatorOf \in [Target -> User \cup {None}]
    /\ Merges \subseteq Target \X Target
    /\ MaxNow \in Nat /\ MaxVersion \in Nat

(* The fields a slot has filled by the time it reaches each statement.     *)
Shaped(s) ==
    /\ s.pc = "draft" => s.rid \in ReviewId
    /\ s.pc \in {"target", "policy", "insert"} =>
           s.who \in User /\ s.src \in Target /\ s.rid \in ReviewId
    /\ s.pc = "stats" => s.rid \in ReviewId /\ s.revs[s.rid] \in Review
    /\ s.pc \in {"second", "move", "agg", "write"} => s.src \in Target /\ s.dst \in Target
    /\ s.pc = "write" => s.agg \in StatsRow

TypeOK ==
    /\ reviews \in [ReviewId -> Review \cup {None}]
    /\ targets \in [Target -> TargetStatus]
    /\ stats \in [Target -> StatsRow]
    /\ now \in Nat
    /\ reinstated \subseteq ReviewId
    /\ tx \in [Tx -> TxState]
    /\ \A i \in Tx : Shaped(tx[i])

Init ==
    /\ reviews = [r \in ReviewId |-> None]
    /\ targets = [t \in Target |-> "published"]
    /\ stats = [t \in Target |-> ZeroRow]
    /\ now = 0
    /\ reinstated = {}
    /\ tx = [i \in Tx |-> Idle]

-------------------------------------------------------------------------------
(* PostgreSQL: what a transaction sees, locks and commits.                 *)

View(i) == [r \in ReviewId |-> IF tx[i].revs[r] # None THEN tx[i].revs[r] ELSE reviews[r]]

CanLock(i, row) == \A j \in Tx \ {i} : row \notin tx[j].x \cup tx[j].ks

CanShare(i, row) == \A j \in Tx \ {i} : row \notin tx[j].x

(* A step of slot i changes nothing but the slot until it commits.         *)
Becomes(i, state) ==
    /\ tx' = [tx EXCEPT ![i] = state]
    /\ UNCHANGED <<reviews, targets, stats, now, reinstated>>

(* Mutant: an error path that returns without rolling back.                *)
RollbackLeaks(i) == Becomes(i, [Idle EXCEPT !.x = tx[i].x])

Rollback(i) == Becomes(i, Idle)

Notifying(users) == IF users = {} THEN "commit" ELSE "notify"

Commit(i) ==
    /\ tx[i].pc = "commit"
    /\ reviews' = View(i)
    /\ stats' = [t \in Target |-> IF tx[i].rows[t] # None THEN tx[i].rows[t] ELSE stats[t]]
    /\ targets' = [t \in Target |-> IF tx[i].marks[t] # None THEN tx[i].marks[t] ELSE targets[t]]
    /\ reinstated' = reinstated \cup
           {r \in ReviewId : /\ reviews[r] # None
                             /\ tx[i].revs[r] # None
                             /\ \/ ~Active(reviews[r]) /\ Active(tx[i].revs[r])
                                \/ reviews[r].target # tx[i].revs[r].target}
    /\ tx' = [tx EXCEPT ![i] = Idle]
    /\ UNCHANGED now

(* The client goes away, the server stops, the context expires.            *)
ConnectionLost(i) ==
    /\ tx[i].pc # "idle"
    /\ Rollback(i)

-------------------------------------------------------------------------------
(* Create: serialise on the author's users row, then check and insert.     *)

(* Mutant: the users row is not locked.                                    *)
LockUserShared(i, u, t, r) ==
    /\ tx[i].pc = "idle"
    /\ reviews[r] = None
    /\ CanLock(i, <<"review", r>>)
    /\ Becomes(i, [Idle EXCEPT !.pc = "target", !.who = u, !.src = t, !.rid = r,
                               !.x = {<<"review", r>>}])

(* r is the fresh uuid the review will have; nobody else can know it.      *)
LockUser(i, u, t, r) ==
    /\ tx[i].pc = "idle"
    /\ reviews[r] = None
    /\ CanLock(i, <<"review", r>>)
    /\ CanLock(i, <<"user", u>>)
    /\ Becomes(i, [Idle EXCEPT !.pc = "target", !.who = u, !.src = t, !.rid = r,
                               !.x = {<<"user", u>>, <<"review", r>>}])

ReadTarget(i) ==
    /\ tx[i].pc = "target"
    /\ IF targets[tx[i].src] = "published"
       THEN Becomes(i, [tx[i] EXCEPT !.pc = "policy"])
       ELSE Rollback(i)

CheckPolicy(i) ==
    /\ tx[i].pc = "policy"
    /\ IF \/ InCooldown(reviews, tx[i].who, tx[i].src, now)
          \/ AtDailyCap(reviews, tx[i].who, now)
       THEN Rollback(i)
       ELSE Becomes(i, [tx[i] EXCEPT !.pc = "insert"])

(* The foreign key shares the target's row; the status is not read again.  *)
InsertReview(i, k) ==
    /\ tx[i].pc = "insert"
    /\ CanShare(i, <<"target", tx[i].src>>)
    /\ Becomes(i, [tx[i] EXCEPT
           !.pc = "stats",
           !.revs = [@ EXCEPT ![tx[i].rid] = NewReview(tx[i].who, tx[i].src, k, now)],
           !.notify = ManagersOf[tx[i].src] \ {tx[i].who},
           !.ks = @ \cup {<<"target", tx[i].src>>}])

-------------------------------------------------------------------------------
(* Writes to one existing review: lock it, decide on its latest version.   *)

WriteReview(i, r, rv, pc, users) ==
    Becomes(i, [Idle EXCEPT !.pc = pc, !.rid = r, !.ver = tx[i].ver,
                            !.revs = [@ EXCEPT ![r] = rv],
                            !.notify = users, !.x = {<<"review", r>>}])

(* A client opens a review to edit it, and sends the version it loaded.    *)
(* The bound MaxVersion holds here too, so that no draft is opened in vain.*)
OpenDraft(i, r) ==
    /\ tx[i].pc = "idle"
    /\ reviews[r] # None
    /\ reviews[r].version < MaxVersion
    /\ Becomes(i, [Idle EXCEPT !.pc = "draft", !.rid = r, !.ver = reviews[r].version])

(* Mutant: the version is not compared.                                    *)
UpdateAnyVersion(i, k) ==
    LET r == tx[i].rid
        rv == reviews[r]
    IN  /\ tx[i].pc = "draft"
        /\ CanLock(i, <<"review", r>>)
        /\ tx[i].ver < MaxVersion
        /\ IF Active(rv)
           THEN WriteReview(i, r, [rv EXCEPT !.rating = k, !.version = @ + 1],
                            IF Published(rv) THEN "stats" ELSE "commit", {})
           ELSE Rollback(i)

Update(i, k) ==
    LET r == tx[i].rid
        rv == reviews[r]
    IN  /\ tx[i].pc = "draft"
        /\ CanLock(i, <<"review", r>>)
        /\ tx[i].ver < MaxVersion
        /\ IF Active(rv) /\ rv.version = tx[i].ver
           THEN WriteReview(i, r, [rv EXCEPT !.rating = k, !.version = @ + 1],
                            IF Published(rv) THEN "stats" ELSE "commit", {})
           ELSE Rollback(i)

Remove(i, r) ==
    LET rv == reviews[r]
    IN  /\ tx[i].pc = "idle"
        /\ rv # None
        /\ CanLock(i, <<"review", r>>)
        /\ rv.status # "removed"
        /\ WriteReview(i, r, [rv EXCEPT !.status = "removed"],
                       IF Published(rv) THEN "stats" ELSE "commit", {})

(* DecideReview and the SetModerationStatusTx it calls.                    *)
SetModerationStatus(i, r, s) ==
    LET rv == reviews[r]
        new == [rv EXCEPT !.status = s]
    IN  /\ tx[i].pc = "idle"
        /\ rv # None
        /\ CanLock(i, <<"review", r>>)
        /\ rv.status # s
        /\ WriteReview(i, r, new,
                       IF Published(rv) \/ Published(new) THEN "stats" ELSE "notify",
                       {rv.author})

(* DecideEvidence accepting, which notifies, or a photo finalised, which   *)
(* does not.                                                               *)
UpgradeVerification(i, r, l) ==
    LET rv == reviews[r]
        new == [rv EXCEPT !.level = l]
        users == IF l = "media_attached" THEN {} ELSE {rv.author}
    IN  /\ tx[i].pc = "idle"
        /\ rv # None
        /\ CanLock(i, <<"review", r>>)
        /\ levelRank[l] > levelRank[rv.level]
        /\ WriteReview(i, r, new,
                       IF ~Verified(rv) /\ Verified(new) /\ Published(rv)
                       THEN "stats" ELSE Notifying(users),
                       users)

-------------------------------------------------------------------------------
(* Mutant: an edit adds its new rating and keeps the old one.              *)
WithoutOldKept(row, old) == row

(* statsDelta: the row left by taking the old version out, then by putting *)
(* the new one in.                                                         *)
WithoutOld(row, old) == IF Published(old) THEN statsDelta(row, old, -1) ELSE row

Rebalanced(row, old, new) ==
    LET out == WithoutOld(row, old)
    IN  IF Published(new) THEN statsDelta(out, new, 1) ELSE out

(* An edit writes both rows; the other operations only the last.           *)
RowsAllowed(row, old, new) ==
    /\ RowAllowed(Rebalanced(row, old, new))
    /\ (old # None /\ old.version # new.version) => RowAllowed(WithoutOld(row, old))

(* Mutant: totals read, changed and written back without a lock.           *)
ApplyStatsUnlocked(i) ==
    LET r == tx[i].rid
        new == tx[i].revs[r]
        t == new.target
    IN  /\ tx[i].pc = "stats"
        /\ Becomes(i, [tx[i] EXCEPT
               !.pc = Notifying(tx[i].notify),
               !.rows = [@ EXCEPT ![t] = Rebalanced(stats[t], reviews[r], new)]])

ApplyStats(i) ==
    LET r == tx[i].rid
        new == tx[i].revs[r]
        t == new.target
    IN  /\ tx[i].pc = "stats"
        /\ CanLock(i, <<"stats", t>>)
        /\ IF RowsAllowed(stats[t], reviews[r], new)
           THEN Becomes(i, [tx[i] EXCEPT
                    !.pc = Notifying(tx[i].notify),
                    !.rows = [@ EXCEPT ![t] = Rebalanced(stats[t], reviews[r], new)],
                    !.x = @ \cup {<<"stats", t>>}])
           ELSE Rollback(i)

(* notifyBusinessMembers and EnqueueTx: the notification's foreign key     *)
(* shares the recipient's users row.                                       *)
Notify(i, u) ==
    /\ tx[i].pc = "notify"
    /\ u \in tx[i].notify
    /\ CanShare(i, <<"user", u>>)
    /\ Becomes(i, [tx[i] EXCEPT !.pc = Notifying(tx[i].notify \ {u}),
                                !.notify = @ \ {u},
                                !.ks = @ \cup {<<"user", u>>}])

-------------------------------------------------------------------------------
(* Targets: a moderator's decision, and the merge of duplicates.           *)

DecideTarget(i, t, s) ==
    LET users == {CreatorOf[t]} \ {None}
    IN  /\ tx[i].pc = "idle"
        /\ CanLock(i, <<"target", t>>)
        /\ targets[t] # s
        /\ Becomes(i, [Idle EXCEPT !.pc = Notifying(users),
                                   !.marks = [@ EXCEPT ![t] = s],
                                   !.notify = users,
                                   !.x = {<<"target", t>>}])

Mergeable(s, t) ==
    /\ t = s => targets[t] # "merged"
    /\ t # s => targets[t] = "published"

Earlier(s, d) == IF d < s THEN d ELSE s

Later(s, d) == IF d < s THEN s ELSE d

MergeTargets(i, s, d) ==
    /\ tx[i].pc = "idle"
    /\ <<s, d>> \in Merges
    /\ s # d
    /\ CanLock(i, <<"target", Earlier(s, d)>>)
    /\ Mergeable(s, Earlier(s, d))
    /\ Becomes(i, [Idle EXCEPT !.pc = "second", !.src = s, !.dst = d,
                               !.x = {<<"target", Earlier(s, d)>>}])

(* Mutant: only one of the two targets is locked.                          *)
LockSecondOnlyRead(i) ==
    LET t == Later(tx[i].src, tx[i].dst)
    IN  /\ tx[i].pc = "second"
        /\ IF Mergeable(tx[i].src, t)
           THEN Becomes(i, [tx[i] EXCEPT !.pc = "move"])
           ELSE Rollback(i)

LockSecond(i) ==
    LET t == Later(tx[i].src, tx[i].dst)
    IN  /\ tx[i].pc = "second"
        /\ CanLock(i, <<"target", t>>)
        /\ IF Mergeable(tx[i].src, t)
           THEN Becomes(i, [tx[i] EXCEPT !.pc = "move", !.x = @ \cup {<<"target", t>>}])
           ELSE Rollback(i)

ToMove(i) == {r \in ReviewId : /\ reviews[r] # None
                               /\ reviews[r].target = tx[i].src
                               /\ tx[i].revs[r] = None}

MoveReview(i, r) ==
    /\ tx[i].pc = "move"
    /\ r \in ToMove(i)
    /\ CanLock(i, <<"review", r>>)
    /\ Becomes(i, [tx[i] EXCEPT
           !.revs = [@ EXCEPT ![r] = [reviews[r] EXCEPT !.target = tx[i].dst]],
           !.x = @ \cup {<<"review", r>>}])

MarkMerged(i) ==
    /\ tx[i].pc = "move"
    /\ ToMove(i) = {}
    /\ Becomes(i, [tx[i] EXCEPT !.pc = "agg",
                                !.marks = [@ EXCEPT ![tx[i].src] = "merged"]])

(* Mutant: the source is not recomputed.                                   *)
RecomputingDestination(i) == tx[i].dst

(* The source is recomputed first.                                         *)
Recomputing(i) == IF tx[i].rows[tx[i].src] = None THEN tx[i].src ELSE tx[i].dst

(* UPDATE ... FROM (SELECT count ...): the aggregate is read when the      *)
(* statement starts and is not read again if the stats row has to be       *)
(* waited for.                                                             *)
ReadAggregate(i) ==
    /\ tx[i].pc = "agg"
    /\ Becomes(i, [tx[i] EXCEPT !.pc = "write",
                                !.agg = Recount(View(i), Recomputing(i))])

WriteAggregate(i) ==
    LET t == Recomputing(i)
    IN  /\ tx[i].pc = "write"
        /\ CanLock(i, <<"stats", t>>)
        /\ Becomes(i, [tx[i] EXCEPT !.pc = IF t = tx[i].src THEN "agg" ELSE "commit",
                                    !.rows = [@ EXCEPT ![t] = tx[i].agg],
                                    !.agg = None,
                                    !.x = @ \cup {<<"stats", t>>}])

-------------------------------------------------------------------------------
(* Who waits for whom.  A pair <<row, shared>> is a lock requested now.    *)

Requests(i) ==
    CASE tx[i].pc = "insert" -> {<<<<"target", tx[i].src>>, TRUE>>}
      [] tx[i].pc = "stats"  -> {<<<<"stats", tx[i].revs[tx[i].rid].target>>, FALSE>>}
      [] tx[i].pc = "notify" -> {<<<<"user", u>>, TRUE>> : u \in tx[i].notify}
      [] tx[i].pc = "second" -> {<<<<"target", Later(tx[i].src, tx[i].dst)>>, FALSE>>}
      [] tx[i].pc = "move"   -> {<<<<"review", r>>, FALSE>> : r \in ToMove(i)}
      [] tx[i].pc = "write"  -> {<<<<"stats", Recomputing(i)>>, FALSE>>}
      [] OTHER -> {}

WaitsFor(i, j) ==
    /\ i # j
    /\ \E q \in Requests(i) : q[1] \in tx[j].x \/ (q[1] \in tx[j].ks /\ ~q[2])

InCycle(D) ==
    /\ D # {}
    /\ \A i \in D : /\ \E j \in D : WaitsFor(i, j)
                    /\ \E j \in D : WaitsFor(j, i)

DeadlockAbort(i) ==
    /\ \E D \in SUBSET Tx : i \in D /\ InCycle(D)
    /\ Rollback(i)

-------------------------------------------------------------------------------
(* A transaction lasts far less than a tick.                               *)
Tick ==
    /\ now < MaxNow
    /\ \A i \in Tx : tx[i].pc \in {"idle", "draft"}
    /\ now' = now + 1
    /\ UNCHANGED <<reviews, targets, stats, reinstated, tx>>

(* The endpoints that change a review; none of them retries.               *)
update(i) == \E k \in Rating : Update(i, k)

remove(i) == \E r \in ReviewId : Remove(i, r)

decideReview(i) == \E r \in ReviewId, s \in Outcome : SetModerationStatus(i, r, s)

Begin(i) ==
    \/ \E u \in User, t \in Target, r \in ReviewId : LockUser(i, u, t, r)
    \/ \E r \in ReviewId : OpenDraft(i, r)
    \/ update(i) \/ remove(i) \/ decideReview(i)
    \/ \E r \in ReviewId, l \in UpgradeLevel : UpgradeVerification(i, r, l)
    \/ \E t \in Target, s \in TargetOutcome : DecideTarget(i, t, s)
    \/ \E s, d \in Target : MergeTargets(i, s, d)

Proceed(i) ==
    \/ ReadTarget(i)
    \/ CheckPolicy(i)
    \/ \E k \in Rating : InsertReview(i, k)
    \/ ApplyStats(i)
    \/ \E u \in User : Notify(i, u)
    \/ LockSecond(i)
    \/ \E r \in ReviewId : MoveReview(i, r)
    \/ MarkMerged(i)
    \/ ReadAggregate(i)
    \/ WriteAggregate(i)
    \/ Commit(i)

Next ==
    \/ \E i \in Tx : \/ Begin(i)
                     \/ Proceed(i)
                     \/ ConnectionLost(i)
                     \/ DeadlockAbort(i)
    \/ Tick

Spec == Init /\ [][Next]_vars

(* PostgreSQL grants row locks in the order they were asked for, so a      *)
(* request granted again and again is granted to each waiter in turn; its  *)
(* deadlock detector runs whenever a wait lasts.                           *)
Fairness == \A i \in Tx : SF_vars(Proceed(i)) /\ WF_vars(DeadlockAbort(i))

FairSpec == Spec /\ Fairness

-------------------------------------------------------------------------------
(* Properties.                                                             *)

(* The totals shown for a target are exactly the recount of its committed  *)
(* published reviews, whatever transactions are in flight                  *)
(* (docs/rating-and-ranking.md section 1).  Merges break it: ReadAggregate.*)
StatsExact == \A t \in Target : stats[t] = Recount(reviews, t)

(* No user ever has more than MaxReviewsPerDay reviews in any window of a  *)
(* day, with any number of requests in parallel (the users lock of Create).*)
DailyCap ==
    \A u \in User, end \in 0..now :
        Cardinality({r \in WrittenSince(reviews, u, end - Day) : reviews[r].at <= end})
            <= MaxReviewsPerDay

(* Two reviews of one target by one author that both count toward the      *)
(* cooldown are a cooldown apart, unless a moderator restored or a merge   *)
(* moved one of them.                                                      *)
CooldownKept ==
    \A r1, r2 \in ReviewId :
        (/\ r1 # r2
         /\ Active(reviews[r1]) /\ Active(reviews[r2])
         /\ reviews[r1].author = reviews[r2].author
         /\ reviews[r1].target = reviews[r2].target
         /\ reviews[r1].at - reviews[r2].at \in 0..(Cooldown - 1))
        => r1 \in reinstated \/ r2 \in reinstated

(* An edit takes effect only on the version its author had loaded, and a   *)
(* rating changes only by an edit: no edit overwrites one it has not seen, *)
(* and no moderation or verification step undoes an edit.                  *)
NoLostEdit ==
    [][\A r \in ReviewId :
          (reviews[r] # None /\ reviews'[r] # reviews[r]) =>
             \/ /\ reviews'[r].rating = reviews[r].rating
                /\ reviews'[r].version = reviews[r].version
             \/ \E i \in Tx : /\ tx[i].rid = r /\ tx'[i].rid = None
                              /\ tx[i].ver = reviews[r].version
                              /\ reviews'[r].version = reviews[r].version + 1]_vars

(* A merge leaves nothing behind: at the instant a target becomes merged   *)
(* no review points at it (KEY SHARE of Create against FOR UPDATE of the   *)
(* merge).                                                                 *)
MergeMovesAll ==
    [][\A t \in Target :
          (targets[t] # "merged" /\ targets'[t] = "merged") =>
             \A r \in ReviewId : reviews'[r] # None => reviews'[r].target # t]_vars

(* The totals of a target that is merged away are exact, even when those   *)
(* of the target it was merged into are not.                               *)
MergedExact ==
    \A t \in Target : targets[t] = "merged" => stats[t] = Recount(reviews, t)

(* Each committed transaction is one instantaneous operation of the ledger *)
(* (without merges).                                                       *)
Ledger == INSTANCE ReviewLedger

ImplementsLedger == Ledger!Spec

(* No request hangs: every transaction commits or is rolled back, lock     *)
(* cycles included.                                                        *)
EveryTxEnds ==
    \A i \in Tx : tx[i].pc \notin {"idle", "draft"} ~> tx[i].pc = "idle"

(* admin.go, MergeTargets: "reviews, aliases, media and reports move".     *)
(* Create reads the target's status before it locks its row.               *)
NothingStranded ==
    \A t \in Target, r \in ReviewId :
        targets[t] = "merged" /\ reviews[r] # None => reviews[r].target # t
===============================================================================
