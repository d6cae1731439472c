------------------------------ MODULE ReviewData ------------------------------
(***************************************************************************)
(* The rows of the review tables and the pure rules over them: which       *)
(* reviews count (docs/rating-and-ranking.md section 1), what one review   *)
(* contributes to target_rating_stats, which levels are "verified", and    *)
(* the submission policy windows.                                          *)
(*                                                                         *)
(* Free text, scores, prices and disclosures are left out: no rule below   *)
(* reads them.  A row of target_rating_stats is kept as two vectors        *)
(* indexed by rating, count[k] (the count_k columns) and verified[k];      *)
(* review_count, rating_sum, verified_count and verified_sum are their     *)
(* linear images, written by the same statements.                          *)
(***************************************************************************)
EXTENDS Integers, FiniteSets, FiniteSetsExt

CONSTANTS
    User,           \* accounts that write reviews
    Target,         \* review targets; a set of numbers, their uuid order
    ReviewId,       \* the uuids reviews can be given
    Rating,         \* overall ratings that occur
    None,           \* an absent row, SQL NULL
    Day,            \* the anti-flooding window, in clock ticks
    Cooldown,       \* RepeatCooldown, in clock ticks
    MaxReviewsPerDay

Status == {"pending", "published", "under_review", "rejected", "hidden", "removed"}

TargetStatus == {"pending", "published", "hidden", "removed", "merged"}

levelRank == [unverified |-> 0, media_attached |-> 1, receipt_submitted |-> 2,
              location_verified |-> 3, partner_verified |-> 4]

Level == DOMAIN levelRank

VerifiedLevels == {"receipt_submitted", "location_verified", "partner_verified"}

Review == [author: User, target: Target, rating: Rating, level: Level,
           status: Status, version: Nat, at: Nat]

StatsRow == [count: [Rating -> Int], verified: [Rating -> Int]]

ASSUME DataAssumption ==
    /\ Target \subseteq Nat
    /\ Rating \subseteq 1..5
    /\ IsFiniteSet(ReviewId)
    /\ None \notin Review \cup StatsRow \cup User \cup Target \cup ReviewId \cup TargetStatus
    /\ Day \in Nat /\ Cooldown \in Nat /\ MaxReviewsPerDay \in Nat

ZeroRow == [count |-> [k \in Rating |-> 0], verified |-> [k \in Rating |-> 0]]

(* What a review counts as: the public set is the published one.           *)
Published(rv) == rv # None /\ rv.status = "published"

Verified(rv) == rv.level \in VerifiedLevels

(* Reviews that still count toward the repeat cooldown.                    *)
Active(rv) == rv # None /\ rv.status \notin {"removed", "rejected"}

(* A row after one review's contribution is added (d = 1) or taken out     *)
(* (d = -1).                                                               *)
statsDelta(row, rv, d) ==
    [count    |-> [k \in Rating |->
                      row.count[k] + (IF k = rv.rating THEN d ELSE 0)],
     verified |-> [k \in Rating |->
                      row.verified[k] + (IF k = rv.rating /\ Verified(rv) THEN d ELSE 0)]]

(* The row recomputed from ground truth.                                   *)
CountedAt(revs, t, k) ==
    {r \in ReviewId : Published(revs[r]) /\ revs[r].target = t /\ revs[r].rating = k}

VerifiedAt(revs, t, k) == {r \in CountedAt(revs, t, k) : Verified(revs[r])}

Recount(revs, t) ==
    [count    |-> [k \in Rating |-> Cardinality(CountedAt(revs, t, k))],
     verified |-> [k \in Rating |-> Cardinality(VerifiedAt(revs, t, k))]]

(* The CHECK constraints of target_rating_stats.                           *)
RowAllowed(row) ==
    LET total(f)    == MapThenSumSet(LAMBDA k : f[k], Rating)
        weighted(f) == MapThenSumSet(LAMBDA k : k * f[k], Rating)
    IN  /\ \A k \in Rating : row.count[k] >= 0
        /\ total(row.verified) >= 0
        /\ weighted(row.verified) >= 0
        /\ total(row.verified) <= total(row.count)

(* Mutant: a cooldown one tick too short.                                  *)
InCooldownShort(revs, u, t, now) ==
    \E r \in ReviewId : /\ Active(revs[r])
                        /\ revs[r].author = u
                        /\ revs[r].target = t
                        /\ now - revs[r].at < Cooldown - 1

(* Submission policy, at time now over the rows revs.                      *)
InCooldown(revs, u, t, now) ==
    \E r \in ReviewId : /\ Active(revs[r])
                        /\ revs[r].author = u
                        /\ revs[r].target = t
                        /\ now - revs[r].at < Cooldown

WrittenSince(revs, u, time) ==
    {r \in ReviewId : revs[r] # None /\ revs[r].author = u /\ revs[r].at > time}

AtDailyCap(revs, u, now) ==
    Cardinality(WrittenSince(revs, u, now - Day)) >= MaxReviewsPerDay

(* Mutant: a level missing from levelRank.                                 *)
NewReviewUnranked(u, t, k, now) ==
    [author |-> u, target |-> t, rating |-> k, level |-> "visit_verified",
     status |-> "published", version |-> 1, at |-> now]

(* A review as Create inserts it.                                          *)
NewReview(u, t, k, now) ==
    [author |-> u, target |-> t, rating |-> k, level |-> "unverified",
     status |-> "published", version |-> 1, at |-> now]
===============================================================================
