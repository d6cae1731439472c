----------------------------- MODULE ReviewLedger -----------------------------
(***************************************************************************)
(* What internal/reviews promises: a ledger of reviews in which every      *)
(* operation happens at one instant, against the rows of that instant, and *)
(* the published totals are at every instant the recount of the ledger     *)
(* (repo.go: "keeps target_rating_stats consistent within the same         *)
(* transaction as every mutation").                                        *)
(***************************************************************************)
EXTENDS ReviewData

CONSTANTS Outcome, UpgradeLevel, MaxNow, MaxVersion

VARIABLES reviews, stats, now, reinstated

vars == <<reviews, stats, now, reinstated>>

Init ==
    /\ reviews = [r \in ReviewId |-> None]
    /\ stats = [t \in Target |-> ZeroRow]
    /\ now = 0
    /\ reinstated = {}

(* Review r becomes rv, and the totals follow.                             *)
Record(r, rv) ==
    /\ reviews' = [reviews EXCEPT ![r] = rv]
    /\ stats' = [t \in Target |-> Recount(reviews', t)]
    /\ reinstated' = IF reviews[r] # None /\ ~Active(reviews[r]) /\ Active(rv)
                     THEN reinstated \cup {r}
                     ELSE reinstated
    /\ UNCHANGED now

(* Reviews a moderator restored do not bar a review that was being written *)
(* while they were restored.                                               *)
Barring == [r \in ReviewId |-> IF r \in reinstated THEN None ELSE reviews[r]]

Post(r, u, t, k) ==
    /\ reviews[r] = None
    /\ ~InCooldown(Barring, u, t, now)
    /\ ~AtDailyCap(reviews, u, now)
    /\ Record(r, NewReview(u, t, k, now))

Edit(r, k) ==
    /\ Active(reviews[r])
    /\ reviews[r].version < MaxVersion
    /\ Record(r, [reviews[r] EXCEPT !.rating = k, !.version = @ + 1])

Withdraw(r) ==
    /\ reviews[r] # None
    /\ reviews[r].status # "removed"
    /\ Record(r, [reviews[r] EXCEPT !.status = "removed"])

Decide(r, s) ==
    /\ reviews[r] # None
    /\ reviews[r].status # s
    /\ Record(r, [reviews[r] EXCEPT !.status = s])

Verify(r, l) ==
    /\ reviews[r] # None
    /\ levelRank[l] > levelRank[reviews[r].level]
    /\ Record(r, [reviews[r] EXCEPT !.level = l])

Tick ==
    /\ now < MaxNow
    /\ now' = now + 1
    /\ UNCHANGED <<reviews, stats, reinstated>>

Next ==
    \/ \E r \in ReviewId :
           \/ \E u \in User, t \in Target, k \in Rating : Post(r, u, t, k)
           \/ \E k \in Rating : Edit(r, k)
           \/ Withdraw(r)
           \/ \E s \in Outcome : Decide(r, s)
           \/ \E l \in UpgradeLevel : Verify(r, l)
    \/ Tick

Spec == Init /\ [][Next]_vars
===============================================================================
