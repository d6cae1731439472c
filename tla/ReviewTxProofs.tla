---------------------------- MODULE ReviewTxProofs ----------------------------
(***************************************************************************)
(* Theorems about ReviewTx, for any number of users, targets, reviews and  *)
(* connections: the types, then the inductive invariant TxInv and, from    *)
(* it, the submission limits, the edits, the merges, the totals and the    *)
(* ledger.                                                                 *)
(***************************************************************************)
EXTENDS ReviewTx, FiniteSetTheorems, TLAPS

LEMMA IdleType == Idle \in TxState
  BY DEF Idle, TxState, PC

LEMMA RowType ==
  /\ \A u \in User : <<"user", u>> \in Row
  /\ \A t \in Target : <<"target", t>> \in Row /\ <<"stats", t>> \in Row
  /\ \A r \in ReviewId : <<"review", r>> \in Row
  BY DEF Row

LEMMA RecountType ==
  ASSUME NEW revs, NEW t \in Target
  PROVE  Recount(revs, t) \in StatsRow
  <1>1. \A k \in Rating : Cardinality(CountedAt(revs, t, k)) \in Int
    BY DataAssumption, FS_Subset, FS_CardinalityType DEF CountedAt
  <1>2. \A k \in Rating : Cardinality(VerifiedAt(revs, t, k)) \in Int
    BY DataAssumption, FS_Subset, FS_CardinalityType DEF CountedAt, VerifiedAt
  <1> QED BY <1>1, <1>2 DEF Recount, StatsRow

LEMMA DeltaType ==
  ASSUME NEW row \in StatsRow, NEW rv, NEW d \in Int
  PROVE  statsDelta(row, rv, d) \in StatsRow
  BY DEF statsDelta, StatsRow

LEMMA RebalancedType ==
  ASSUME NEW row \in StatsRow, NEW old, NEW new
  PROVE  Rebalanced(row, old, new) \in StatsRow
  BY DeltaType DEF Rebalanced, WithoutOld

LEMMA BecomesType ==
  ASSUME TypeOK, NEW i \in Tx, NEW state \in TxState, Shaped(state), Becomes(i, state)
  PROVE  TypeOK'
  BY DEF TypeOK, Becomes

LEMMA IdleShaped == Shaped(Idle)
  BY DEF Shaped, Idle

LEMMA SlotType ==
  ASSUME TypeOK, NEW i \in Tx
  PROVE  /\ tx[i] \in TxState
         /\ Shaped(tx[i])
         /\ now \in Nat
         /\ \A r \in ReviewId : reviews[r] # None => reviews[r] \in Review
         /\ \A t \in Target : stats[t] \in StatsRow
  BY DEF TypeOK

LEMMA FieldType ==
  ASSUME NEW s \in TxState
  PROVE  /\ s.revs \in [ReviewId -> Review \cup {None}]
         /\ s.rows \in [Target -> StatsRow \cup {None}]
         /\ s.marks \in [Target -> TargetStatus \cup {None}]
         /\ s.notify \in SUBSET User
         /\ s.x \in SUBSET Row /\ s.ks \in SUBSET Row
  BY DEF TxState

LEMMA RollbackType ==
  ASSUME TypeOK, NEW i \in Tx, Rollback(i)
  PROVE  TypeOK'
  BY IdleType, IdleShaped, BecomesType DEF Rollback

-------------------------------------------------------------------------------
(* Type correctness.                                                       *)

LEMMA NewReviewType ==
  ASSUME NEW u \in User, NEW t \in Target, NEW k \in Rating, NEW n \in Nat
  PROVE  NewReview(u, t, k, n) \in Review
  BY DEF NewReview, Review, Level, levelRank, Status

LEMMA WriteReviewType ==
  ASSUME TypeOK, NEW i \in Tx, NEW r \in ReviewId, NEW rv \in Review,
         NEW pc \in {"stats", "notify", "commit"}, NEW users \in SUBSET User,
         WriteReview(i, r, rv, pc, users)
  PROVE  TypeOK'
  <1> DEFINE state == [Idle EXCEPT !.pc = pc, !.rid = r, !.ver = tx[i].ver,
                                   !.revs = [@ EXCEPT ![r] = rv],
                                   !.notify = users, !.x = {<<"review", r>>}]
  <1>1. state \in TxState
    BY ZenonT(40), IdleType, SlotType, RowType DEF TxState, PC
  <1>2. state.pc = pc /\ state.rid = r /\ state.revs[r] = rv
    BY IdleType DEF TxState
  <1>3. Shaped(state)
    BY <1>2 DEF Shaped
  <1> QED BY <1>1, <1>3, BecomesType DEF WriteReview

LEMMA BeginType ==
  ASSUME TypeOK, NEW i \in Tx, Begin(i)
  PROVE  TypeOK'
  <1>1. ASSUME NEW u \in User, NEW t \in Target, NEW r \in ReviewId, LockUser(i, u, t, r)
        PROVE  TypeOK'
    <2> DEFINE state == [Idle EXCEPT !.pc = "target", !.who = u, !.src = t, !.rid = r,
                                     !.x = {<<"user", u>>, <<"review", r>>}]
    <2>1. state \in TxState /\ Shaped(state)
      BY ZenonT(40), IdleType, RowType DEF TxState, PC, Shaped
    <2> QED BY <1>1, <2>1, BecomesType DEF LockUser
  <1>2. ASSUME NEW r \in ReviewId, OpenDraft(i, r)
        PROVE  TypeOK'
    <2> DEFINE state == [Idle EXCEPT !.pc = "draft", !.rid = r, !.ver = reviews[r].version]
    <2>1. reviews[r].version \in Nat
      BY <1>2, SlotType DEF OpenDraft, Review
    <2>2. state \in TxState /\ Shaped(state)
      BY ZenonT(40), <2>1, IdleType DEF TxState, PC, Shaped
    <2> QED BY <1>2, <2>2, BecomesType DEF OpenDraft
  <1>3. ASSUME NEW r \in ReviewId, Remove(i, r)
        PROVE  TypeOK'
    <2>1. [reviews[r] EXCEPT !.status = "removed"] \in Review
      BY <1>3, SlotType DEF Remove, Review, Status
    <2> QED BY <1>3, <2>1, WriteReviewType DEF Remove
  <1>4. ASSUME NEW k \in Rating, Update(i, k)
        PROVE  TypeOK'
    <2>1. tx[i].rid \in ReviewId
      BY <1>4, SlotType DEF Update, Shaped
    <2>2. CASE Active(reviews[tx[i].rid]) /\ reviews[tx[i].rid].version = tx[i].ver
      <3> DEFINE rv == reviews[tx[i].rid]
      <3>1. rv \in Review
        BY <2>1, <2>2, SlotType DEF Active
      <3>2. rv.version + 1 \in Nat
        BY <3>1 DEF Review
      <3>3. [rv EXCEPT !.rating = k, !.version = @ + 1] \in Review
        BY <3>1, <3>2 DEF Review
      <3>4. CASE Published(rv)
        BY <1>4, <2>1, <2>2, <3>3, <3>4, WriteReviewType DEF Update
      <3>5. CASE ~Published(rv)
        BY <1>4, <2>1, <2>2, <3>3, <3>5, WriteReviewType DEF Update
      <3> QED BY <3>4, <3>5
    <2> QED BY <1>4, <2>2, RollbackType DEF Update
  <1>5. ASSUME NEW r \in ReviewId, NEW s \in Outcome, SetModerationStatus(i, r, s)
        PROVE  TypeOK'
    <2>1. /\ [reviews[r] EXCEPT !.status = s] \in Review
          /\ {reviews[r].author} \in SUBSET User
      BY <1>5, SlotType, TxAssumption DEF SetModerationStatus, Review
    <2> QED BY <1>5, <2>1, WriteReviewType DEF SetModerationStatus
  <1>6. ASSUME NEW r \in ReviewId, NEW l \in UpgradeLevel, UpgradeVerification(i, r, l)
        PROVE  TypeOK'
    <2> DEFINE users == IF l = "media_attached" THEN {} ELSE {reviews[r].author}
    <2>1. /\ [reviews[r] EXCEPT !.level = l] \in Review
          /\ users \in SUBSET User
      BY <1>6, SlotType, TxAssumption DEF UpgradeVerification, Review
    <2>2. Notifying(users) \in {"stats", "notify", "commit"}
      BY DEF Notifying
    <2> QED BY <1>6, <2>1, <2>2, WriteReviewType DEF UpgradeVerification
  <1>7. ASSUME NEW t \in Target, NEW s \in TargetOutcome, DecideTarget(i, t, s)
        PROVE  TypeOK'
    <2> DEFINE users == {CreatorOf[t]} \ {None}
    <2>1. users \in SUBSET User /\ s \in TargetStatus
      BY TxAssumption DEF TargetStatus
    <2>2. Notifying(users) \in {"notify", "commit"}
      BY DEF Notifying
    <2> HIDE DEF users
    <2> DEFINE state == [Idle EXCEPT !.pc = Notifying(users), !.marks = [@ EXCEPT ![t] = s],
                                     !.notify = users, !.x = {<<"target", t>>}]
    <2>3. state \in TxState
      BY <2>1, <2>2, IdleType, RowType DEF TxState, PC
    <2>4. Shaped(state)
      BY <2>2, IdleType DEF TxState, Shaped
    <2> QED BY <1>7, <2>3, <2>4, BecomesType DEF DecideTarget, users
  <1>8. ASSUME NEW s \in Target, NEW d \in Target, MergeTargets(i, s, d)
        PROVE  TypeOK'
    <2> DEFINE state == [Idle EXCEPT !.pc = "second", !.src = s, !.dst = d,
                                     !.x = {<<"target", Earlier(s, d)>>}]
    <2>1. Earlier(s, d) \in Target
      BY DEF Earlier
    <2>2. state \in TxState /\ Shaped(state)
      BY ZenonT(40), <2>1, IdleType, RowType DEF TxState, PC, Shaped
    <2> QED BY <1>8, <2>2, BecomesType DEF MergeTargets
  <1> QED BY <1>1, <1>2, <1>3, <1>4, <1>5, <1>6, <1>7, <1>8 DEF Begin, update, remove, decideReview

LEMMA PCType ==
  {"draft", "target", "policy", "insert", "stats", "notify",
   "second", "move", "agg", "write", "commit"} \subseteq PC
  BY DEF PC

LEMMA SlotRecord ==
  ASSUME TypeOK, NEW i \in Tx
  PROVE  tx[i] \in TxState
  BY DEF TypeOK

LEMMA ProceedType ==
  ASSUME TypeOK, NEW i \in Tx, Proceed(i)
  PROVE  TypeOK'
  <1>1. CASE ReadTarget(i)
    <2> DEFINE state == [tx[i] EXCEPT !.pc = "policy"]
    <2>1. state \in TxState /\ Shaped(state)
      BY <1>1, SlotType DEF ReadTarget, TxState, PC, Shaped
    <2> QED BY <1>1, <2>1, BecomesType, RollbackType DEF ReadTarget
  <1>2. CASE CheckPolicy(i)
    <2> DEFINE state == [tx[i] EXCEPT !.pc = "insert"]
    <2>1. state \in TxState /\ Shaped(state)
      BY <1>2, SlotType DEF CheckPolicy, TxState, PC, Shaped
    <2> QED BY <1>2, <2>1, BecomesType, RollbackType DEF CheckPolicy
  <1>3. ASSUME NEW k \in Rating, InsertReview(i, k)
        PROVE  TypeOK'
    <2> DEFINE rv == NewReview(tx[i].who, tx[i].src, k, now)
               users == ManagersOf[tx[i].src] \ {tx[i].who}
               revs == [tx[i].revs EXCEPT ![tx[i].rid] = rv]
               ks == tx[i].ks \cup {<<"target", tx[i].src>>}
               state == [tx[i] EXCEPT !.pc = "stats", !.revs = revs,
                                      !.notify = users, !.ks = ks]
    <2>1. tx[i].who \in User /\ tx[i].src \in Target /\ tx[i].rid \in ReviewId
      BY <1>3, SlotType DEF InsertReview, Shaped
    <2>2. rv \in Review /\ users \in SUBSET User
      BY <2>1, NewReviewType, SlotType, TxAssumption
    <2> HIDE DEF rv, users
    <2>3. /\ revs \in [ReviewId -> Review \cup {None}] /\ revs[tx[i].rid] = rv
          /\ ks \in SUBSET Row
      BY <2>1, <2>2, SlotType, FieldType, RowType
    <2> HIDE DEF revs, ks
    <2>4. state \in TxState
      BY ZenonT(40), <2>2, <2>3, SlotRecord, PCType DEF TxState
    <2>5. state.pc = "stats" /\ state.rid = tx[i].rid /\ state.revs = revs
      BY SlotType DEF TxState
    <2>6. Shaped(state)
      BY <2>1, <2>2, <2>3, <2>5 DEF Shaped
    <2> QED BY <1>3, <2>4, <2>6, BecomesType DEF InsertReview, rv, users, revs, ks
  <1>4. CASE ApplyStats(i)
    <2> DEFINE t == tx[i].revs[tx[i].rid].target
               row == Rebalanced(stats[t], reviews[tx[i].rid], tx[i].revs[tx[i].rid])
               pc == Notifying(tx[i].notify)
               rows == [tx[i].rows EXCEPT ![t] = row]
               x == tx[i].x \cup {<<"stats", t>>}
               state == [tx[i] EXCEPT !.pc = pc, !.rows = rows, !.x = x]
    <2>1. t \in Target
      BY <1>4, SlotType DEF ApplyStats, Shaped, Review
    <2>2. row \in StatsRow
      BY <2>1, SlotType, RebalancedType
    <2>3. pc \in {"notify", "commit"}
      BY DEF Notifying
    <2> HIDE DEF t, row
    <2>4. rows \in [Target -> StatsRow \cup {None}] /\ x \in SUBSET Row
      BY <2>1, <2>2, SlotType, FieldType, RowType
    <2> HIDE DEF pc, rows, x
    <2>5. state \in TxState /\ Shaped(state)
      BY ZenonT(40), <2>3, <2>4, SlotRecord, PCType DEF TxState, Shaped
    <2> QED BY <1>4, <2>5, BecomesType, RollbackType DEF ApplyStats, t, row, pc, rows, x
  <1>5. ASSUME NEW u \in User, Notify(i, u)
        PROVE  TypeOK'
    <2> DEFINE users == tx[i].notify \ {u}
               pc == Notifying(users)
               ks == tx[i].ks \cup {<<"user", u>>}
               state == [tx[i] EXCEPT !.pc = pc, !.notify = users, !.ks = ks]
    <2>1. pc \in {"notify", "commit"}
      BY DEF Notifying
    <2>2. users \in SUBSET User /\ ks \in SUBSET Row
      BY SlotType, FieldType, RowType
    <2> HIDE DEF users, pc, ks
    <2>3. state \in TxState /\ Shaped(state)
      BY ZenonT(40), <2>1, <2>2, SlotRecord, PCType DEF TxState, Shaped
    <2> QED BY <1>5, <2>3, BecomesType DEF Notify, users, pc, ks
  <1>6. CASE LockSecond(i)
    <2> DEFINE t == Later(tx[i].src, tx[i].dst)
               x == tx[i].x \cup {<<"target", t>>}
               state == [tx[i] EXCEPT !.pc = "move", !.x = x]
    <2>1. t \in Target
      BY <1>6, SlotType DEF LockSecond, Shaped, Later
    <2>2. x \in SUBSET Row
      BY <2>1, SlotType, FieldType, RowType
    <2> HIDE DEF t, x
    <2>3. state \in TxState
      BY ZenonT(40), <2>2, SlotRecord, PCType DEF TxState
    <2>4. state.pc = "move" /\ state.src = tx[i].src /\ state.dst = tx[i].dst
      BY SlotType DEF TxState
    <2>5. Shaped(state)
      BY <1>6, <2>4, SlotType DEF LockSecond, Shaped
    <2> QED BY <1>6, <2>3, <2>5, BecomesType, RollbackType DEF LockSecond, t, x
  <1>7. ASSUME NEW r \in ReviewId, MoveReview(i, r)
        PROVE  TypeOK'
    <2> DEFINE rv == [reviews[r] EXCEPT !.target = tx[i].dst]
               revs == [tx[i].revs EXCEPT ![r] = rv]
               x == tx[i].x \cup {<<"review", r>>}
               state == [tx[i] EXCEPT !.revs = revs, !.x = x]
    <2>1. rv \in Review
      BY <1>7, SlotType DEF MoveReview, ToMove, Shaped, Review
    <2> HIDE DEF rv
    <2>0. revs \in [ReviewId -> Review \cup {None}] /\ x \in SUBSET Row
      BY <2>1, SlotType, FieldType, RowType
    <2> HIDE DEF revs, x
    <2>2. state \in TxState
      BY ZenonT(40), <2>0, SlotType DEF TxState
    <2>3. /\ state.pc = "move" /\ state.src = tx[i].src /\ state.dst = tx[i].dst
      BY <1>7, SlotType DEF MoveReview, TxState
    <2>4. Shaped(state)
      BY <1>7, <2>3, SlotType DEF MoveReview, Shaped
    <2> QED BY <1>7, <2>2, <2>4, BecomesType DEF MoveReview, rv, revs, x
  <1>8. CASE MarkMerged(i)
    <2> DEFINE marks == [tx[i].marks EXCEPT ![tx[i].src] = "merged"]
               state == [tx[i] EXCEPT !.pc = "agg", !.marks = marks]
    <2>1. marks \in [Target -> TargetStatus \cup {None}]
      BY SlotType, FieldType DEF TargetStatus
    <2> HIDE DEF marks
    <2>2. state \in TxState
      BY ZenonT(40), <2>1, SlotRecord, PCType DEF TxState
    <2>3. state.pc = "agg" /\ state.src = tx[i].src /\ state.dst = tx[i].dst
      BY SlotType DEF TxState
    <2>4. Shaped(state)
      BY <1>8, <2>3, SlotType DEF MarkMerged, Shaped
    <2> QED BY <1>8, <2>2, <2>4, BecomesType DEF MarkMerged, marks
  <1>9. CASE ReadAggregate(i)
    <2> DEFINE row == Recount(View(i), Recomputing(i))
               state == [tx[i] EXCEPT !.pc = "write", !.agg = row]
    <2>1. row \in StatsRow
      BY <1>9, SlotType, RecountType DEF ReadAggregate, Shaped, Recomputing
    <2> HIDE DEF row
    <2>2. state \in TxState
      BY ZenonT(40), <2>1, SlotRecord, PCType DEF TxState
    <2>3. /\ state.pc = "write" /\ state.agg = row
          /\ state.src = tx[i].src /\ state.dst = tx[i].dst
      BY SlotType DEF TxState
    <2>4. Shaped(state)
      BY <1>9, <2>1, <2>3, SlotType DEF ReadAggregate, Shaped
    <2> QED BY <1>9, <2>2, <2>4, BecomesType DEF ReadAggregate, row
  <1>10. CASE WriteAggregate(i)
    <2> DEFINE t == Recomputing(i)
               pc == IF t = tx[i].src THEN "agg" ELSE "commit"
               rows == [tx[i].rows EXCEPT ![t] = tx[i].agg]
               x == tx[i].x \cup {<<"stats", t>>}
               state == [tx[i] EXCEPT !.pc = pc, !.rows = rows, !.agg = None, !.x = x]
    <2>1. /\ t \in Target /\ tx[i].agg \in StatsRow
          /\ tx[i].src \in Target /\ tx[i].dst \in Target
      BY <1>10, SlotType DEF WriteAggregate, Shaped, Recomputing
    <2>2. pc \in {"agg", "commit"}
      OBVIOUS
    <2>0. rows \in [Target -> StatsRow \cup {None}] /\ x \in SUBSET Row
      BY <2>1, SlotType, FieldType, RowType
    <2> HIDE DEF t, pc, rows, x
    <2>3. state \in TxState
      BY ZenonT(40), <2>0, <2>2, SlotRecord, PCType DEF TxState
    <2>4. state.pc \in {"agg", "commit"} /\ state.src = tx[i].src /\ state.dst = tx[i].dst
      BY <2>2, SlotType DEF TxState
    <2>5. Shaped(state)
      BY <2>1, <2>4 DEF Shaped
    <2> QED BY <1>10, <2>3, <2>5, BecomesType DEF WriteAggregate, t, pc, rows, x
  <1>11. CASE Commit(i)
    <2>1. reviews' \in [ReviewId -> Review \cup {None}]
      BY <1>11 DEF Commit, View, TypeOK, TxState
    <2>2. stats' \in [Target -> StatsRow]
      BY <1>11 DEF Commit, TypeOK, TxState
    <2>3. targets' \in [Target -> TargetStatus]
      BY <1>11 DEF Commit, TypeOK, TxState
    <2>4. reinstated' \subseteq ReviewId /\ now' \in Nat
      BY <1>11 DEF Commit, TypeOK
    <2>5. tx' \in [Tx -> TxState] /\ \A j \in Tx : Shaped(tx'[j])
      BY <1>11, IdleType, IdleShaped DEF Commit, TypeOK
    <2> QED BY <2>1, <2>2, <2>3, <2>4, <2>5 DEF TypeOK
  <1> QED BY <1>1, <1>2, <1>3, <1>4, <1>5, <1>6, <1>7, <1>8, <1>9, <1>10, <1>11 DEF Proceed

LEMMA InitType == Init => TypeOK
  <1> SUFFICES ASSUME Init PROVE TypeOK
    OBVIOUS
  <1>1. ZeroRow \in StatsRow
    BY DEF ZeroRow, StatsRow
  <1> QED BY <1>1, IdleType, IdleShaped DEF Init, TypeOK, TargetStatus

LEMMA TickType == TypeOK /\ Tick => TypeOK'
  BY DEF Tick, TypeOK

(* Every state of every behaviour is well typed, for any users, targets,   *)
(* reviews, connections and merges.                                        *)
THEOREM TypeCorrect == Spec => []TypeOK
  <1>2. TypeOK /\ [Next]_vars => TypeOK'
    <2> SUFFICES ASSUME TypeOK, [Next]_vars PROVE TypeOK'
      OBVIOUS
    <2>1. ASSUME NEW i \in Tx, Begin(i) \/ Proceed(i)
          PROVE  TypeOK'
      BY <2>1, BeginType, ProceedType
    <2>2. ASSUME NEW i \in Tx, ConnectionLost(i) \/ DeadlockAbort(i)
          PROVE  TypeOK'
      BY <2>2, RollbackType DEF ConnectionLost, DeadlockAbort
    <2>3. CASE Tick
      BY <2>3, TickType
    <2>4. CASE UNCHANGED vars
      BY <2>4 DEF vars, TypeOK
    <2> QED BY <2>1, <2>2, <2>3, <2>4 DEF Next
  <1> QED BY InitType, <1>2, PTL DEF Spec

-------------------------------------------------------------------------------
(* The inductive invariant.  Row locks exclude each other.                 *)
LocksExclusive ==
    \A i, j \in Tx : i # j => tx[i].x \cap (tx[j].x \cup tx[j].ks) = {}

(* What CheckPolicy found still holds: nobody else posts for the author,   *)
(* and only reviews that a moderator restored or a merge moved can have    *)
(* come to bar the new one.                                                *)
Admitted(s) ==
    /\ ~InCooldown(Ledger!Barring, s.who, s.src, now)
    /\ ~AtDailyCap(reviews, s.who, now)

(* A slot that posts a review holds the row of its author, and from the    *)
(* insert on it shares the row of the target.                              *)
Posting(s) ==
    s.who # None =>
        /\ s.pc \in {"target", "policy", "insert", "stats", "notify", "commit"}
        /\ s.src \in Target /\ s.rid \in ReviewId
        /\ <<"user", s.who>> \in s.x /\ <<"review", s.rid>> \in s.x
        /\ reviews[s.rid] = None
        /\ \A r \in ReviewId :
               s.revs[r] # None => r = s.rid /\ s.pc \in {"stats", "notify", "commit"}
        /\ s.pc \in {"insert", "stats", "notify", "commit"} => Admitted(s)
        /\ s.pc \in {"stats", "notify", "commit"} =>
               /\ <<"target", s.src>> \in s.ks
               /\ \E k \in Rating : s.revs[s.rid] = NewReview(s.who, s.src, k, now)

(* What the operations on an existing review make of it; version v is the  *)
(* one the client edits.                                                   *)
Revision(v, old, new) ==
    \/ /\ Active(old) /\ old.version = v /\ v < MaxVersion
       /\ \E k \in Rating : new = [old EXCEPT !.rating = k, !.version = v + 1]
    \/ old.status # "removed" /\ new = [old EXCEPT !.status = "removed"]
    \/ \E s \in Outcome : old.status # s /\ new = [old EXCEPT !.status = s]
    \/ \E l \in UpgradeLevel :
           levelRank[l] > levelRank[old.level] /\ new = [old EXCEPT !.level = l]

(* A slot that writes one existing review, or decides on a target.         *)
Revising(s) ==
    s.who = None /\ s.dst = None =>
        /\ s.pc \in {"idle", "draft", "stats", "notify", "commit"}
        /\ \A r \in ReviewId : s.revs[r] # None =>
               /\ r = s.rid
               /\ reviews[r] # None
               /\ <<"review", r>> \in s.x
               /\ Revision(s.ver, reviews[r], s.revs[r])

(* The totals a slot will commit are the committed ones rebalanced by the  *)
(* one review it writes, or that review counts as before.                  *)
SameContribution(old, new) ==
    \/ ~Published(old) /\ ~Published(new)
    \/ /\ Published(old) /\ Published(new)
       /\ old.rating = new.rating
       /\ Verified(old) <=> Verified(new)

Balanced(s) ==
    s.dst = None =>
        /\ \A r \in ReviewId : s.revs[r] # None =>
               \/ s.pc = "stats"
               \/ s.rows[s.revs[r].target] # None
               \/ SameContribution(reviews[r], s.revs[r])
        /\ \A t \in Target : s.rows[t] # None =>
               /\ s.pc \in {"notify", "commit"}
               /\ <<"stats", t>> \in s.x
               /\ s.rid \in ReviewId
               /\ s.revs[s.rid] # None
               /\ s.revs[s.rid].target = t
               /\ s.rows[t] = Rebalanced(stats[t], reviews[s.rid], s.revs[s.rid])
        /\ \A t \in Target : s.marks[t] # None =>
               s.marks[t] # "merged" /\ <<"target", t>> \in s.x

(* What a merge makes of a review it moves.                                *)
MovedTo(t, rv) == [rv EXCEPT !.target = t]

(* A merge holds both targets, which stay as it found them; it moves       *)
(* reviews it has locked, and once it marks the source none is left there. *)
Merging(s) ==
    s.dst # None =>
        /\ s.who = None /\ s.src \in Target /\ s.dst \in Target
        /\ s.src # s.dst /\ <<s.src, s.dst>> \in Merges
        /\ s.pc \in {"second", "move", "agg", "write", "commit"}
        /\ \A t \in {s.src, s.dst} :
               t = Earlier(s.src, s.dst) \/ s.pc # "second" =>
                   <<"target", t>> \in s.x /\ Mergeable(s.src, t)
        /\ \A r \in ReviewId : s.revs[r] # None =>
               /\ s.pc # "second"
               /\ <<"review", r>> \in s.x
               /\ reviews[r] # None
               /\ reviews[r].target = s.src
               /\ s.revs[r] = MovedTo(s.dst, reviews[r])
        /\ \A t \in Target : s.marks[t] # None =>
               t = s.src /\ s.pc \in {"agg", "write", "commit"}
        /\ s.pc \in {"agg", "write", "commit"} =>
               \A r \in ReviewId :
                   reviews[r] # None /\ reviews[r].target = s.src => s.revs[r] # None
        /\ \A t \in Target : s.rows[t] # None =>
               t \in {s.src, s.dst} /\ <<"stats", t>> \in s.x
        /\ s.rows[s.src] # None => s.rows[s.src] = ZeroRow
        /\ s.pc = "write" /\ s.rows[s.src] = None => s.agg = ZeroRow
        /\ s.pc = "commit" => s.rows[s.src] # None

Rightful(s) == Posting(s) /\ Revising(s) /\ Balanced(s) /\ Merging(s)

TxInv ==
    /\ TypeOK
    /\ LocksExclusive
    /\ \A i \in Tx : Rightful(tx[i])
    /\ \A r \in ReviewId : reviews[r] # None => reviews[r].at <= now

-------------------------------------------------------------------------------
(* One review changes: what that does to a recount.                        *)

LEMMA CardinalityStep ==
  ASSUME NEW S, NEW T, NEW x, IsFiniteSet(S), S \ {x} = T \ {x}
  PROVE  /\ Cardinality(T) \in Int /\ Cardinality(S) \in Int
         /\ Cardinality(T) = Cardinality(S) + (IF x \in S THEN -1 ELSE 0)
                                            + (IF x \in T THEN 1 ELSE 0)
  <1> DEFINE R == S \ {x}
  <1>1. IsFiniteSet(R) /\ Cardinality(R) \in Int /\ x \notin R
    BY FS_RemoveElement, FS_CardinalityType
  <1>2. Cardinality(S) \in Int
    BY FS_CardinalityType
  <1>3. Cardinality(R) = Cardinality(S) + (IF x \in S THEN -1 ELSE 0)
    BY <1>2, FS_RemoveElement
  <1>4. CASE x \in T
    <2>1. T = R \cup {x}
      BY <1>4
    <2>2. Cardinality(T) = Cardinality(R) + 1
      BY <1>1, <2>1, FS_AddElement
    <2> QED BY <1>1, <1>2, <1>3, <1>4, <2>2
  <1>5. CASE x \notin T
    <2>1. T = R
      BY <1>5
    <2> QED BY <1>1, <1>2, <1>3, <1>5, <2>1
  <1> QED BY <1>4, <1>5

LEMMA CountedFinite ==
  ASSUME NEW revs, NEW t, NEW k
  PROVE  IsFiniteSet(CountedAt(revs, t, k)) /\ IsFiniteSet(VerifiedAt(revs, t, k))
  BY DataAssumption, FS_Subset DEF CountedAt, VerifiedAt

(* The delta of statsDelta is the change of the recount.                   *)
LEMMA RecountRebalanced ==
  ASSUME NEW before, NEW after, NEW r \in ReviewId, NEW t \in Target,
         \A q \in ReviewId \ {r} : after[q] = before[q],
         before[r] # None => before[r].target = t,
         after[r] # None, after[r].target = t
  PROVE  Recount(after, t) = Rebalanced(Recount(before, t), before[r], after[r])
  <1> DEFINE old == before[r]
             new == after[r]
             row == Rebalanced(Recount(before, t), old, new)
  <1>1. ASSUME NEW k \in Rating
        PROVE  Cardinality(CountedAt(after, t, k)) = row.count[k]
    <2> DEFINE S == CountedAt(before, t, k)
               T == CountedAt(after, t, k)
    <2>1. S \ {r} = T \ {r}
      BY DEF CountedAt
    <2>2. r \in S <=> Published(old) /\ k = old.rating
      BY DEF CountedAt, Published
    <2>3. r \in T <=> Published(new) /\ k = new.rating
      BY DEF CountedAt, Published
    <2>4. IsFiniteSet(S)
      BY CountedFinite
    <2> HIDE DEF S, T
    <2>5. /\ Cardinality(T) \in Int /\ Cardinality(S) \in Int
          /\ Cardinality(T) = Cardinality(S) + (IF r \in S THEN -1 ELSE 0)
                                             + (IF r \in T THEN 1 ELSE 0)
      BY <2>1, <2>4, CardinalityStep
    <2>6. Recount(before, t).count[k] = Cardinality(S)
      BY DEF Recount, S
    <2>7. row.count[k] = Cardinality(S) + (IF Published(old) /\ k = old.rating THEN -1 ELSE 0)
                                        + (IF Published(new) /\ k = new.rating THEN 1 ELSE 0)
      BY <2>5, <2>6 DEF Rebalanced, WithoutOld, statsDelta
    <2> QED BY <2>2, <2>3, <2>5, <2>7 DEF T
  <1>2. ASSUME NEW k \in Rating
        PROVE  Cardinality(VerifiedAt(after, t, k)) = row.verified[k]
    <2> DEFINE S == VerifiedAt(before, t, k)
               T == VerifiedAt(after, t, k)
    <2>1. S \ {r} = T \ {r}
      BY DEF VerifiedAt, CountedAt
    <2>2. r \in S <=> Published(old) /\ k = old.rating /\ Verified(old)
      BY DEF VerifiedAt, CountedAt, Published
    <2>3. r \in T <=> Published(new) /\ k = new.rating /\ Verified(new)
      BY DEF VerifiedAt, CountedAt, Published
    <2>4. IsFiniteSet(S)
      BY CountedFinite
    <2> HIDE DEF S, T
    <2>5. /\ Cardinality(T) \in Int /\ Cardinality(S) \in Int
          /\ Cardinality(T) = Cardinality(S) + (IF r \in S THEN -1 ELSE 0)
                                             + (IF r \in T THEN 1 ELSE 0)
      BY <2>1, <2>4, CardinalityStep
    <2>6. Recount(before, t).verified[k] = Cardinality(S)
      BY DEF Recount, S
    <2>7. row.verified[k] =
             Cardinality(S)
             + (IF Published(old) /\ k = old.rating /\ Verified(old) THEN -1 ELSE 0)
             + (IF Published(new) /\ k = new.rating /\ Verified(new) THEN 1 ELSE 0)
      BY <2>5, <2>6 DEF Rebalanced, WithoutOld, statsDelta
    <2> QED BY <2>2, <2>3, <2>5, <2>7 DEF T
  <1>3. row = [count |-> [k \in Rating |-> row.count[k]],
               verified |-> [k \in Rating |-> row.verified[k]]]
    BY DEF Rebalanced, WithoutOld, statsDelta, Recount
  <1> HIDE DEF row
  <1>4. Recount(after, t) = row
    BY <1>1, <1>2, <1>3 DEF Recount
  <1> QED BY <1>4 DEF row

(* A change that counts the same leaves every recount alone.               *)
LEMMA RecountSame ==
  ASSUME NEW before, NEW after, NEW r \in ReviewId, NEW t \in Target,
         \A q \in ReviewId \ {r} : after[q] = before[q],
         after[r] # None,
         before[r] # None => before[r].target = after[r].target,
         \/ after[r].target # t
         \/ SameContribution(before[r], after[r])
  PROVE  Recount(after, t) = Recount(before, t)
  <1>1. ASSUME NEW k \in Rating
        PROVE  CountedAt(after, t, k) = CountedAt(before, t, k)
    <2>1. r \in CountedAt(after, t, k) <=> r \in CountedAt(before, t, k)
      BY DEF CountedAt, SameContribution, Published
    <2>2. \A q \in ReviewId \ {r} : q \in CountedAt(after, t, k) <=> q \in CountedAt(before, t, k)
      BY DEF CountedAt
    <2> QED BY <2>1, <2>2 DEF CountedAt
  <1>2. ASSUME NEW k \in Rating
        PROVE  VerifiedAt(after, t, k) = VerifiedAt(before, t, k)
    <2>1. r \in VerifiedAt(after, t, k) <=> r \in VerifiedAt(before, t, k)
      BY DEF VerifiedAt, CountedAt, SameContribution, Published
    <2>2. \A q \in ReviewId \ {r} : q \in VerifiedAt(after, t, k) <=> q \in VerifiedAt(before, t, k)
      BY DEF VerifiedAt, CountedAt
    <2> QED BY <2>1, <2>2 DEF VerifiedAt, CountedAt
  <1> QED BY <1>1, <1>2 DEF Recount

-------------------------------------------------------------------------------
(* Steps inside a transaction: only the slot changes.                      *)

LEMMA SlotInv ==
  ASSUME TxInv, NEW i \in Tx
  PROVE  /\ TypeOK /\ tx[i] \in TxState /\ Shaped(tx[i])
         /\ Posting(tx[i]) /\ Revising(tx[i]) /\ Balanced(tx[i]) /\ Merging(tx[i])
         /\ \A r \in ReviewId : reviews[r] # None => reviews[r] \in Review
  BY DEF TxInv, Rightful, TypeOK

LEMMA NotNone ==
  /\ \A rv \in Review : rv # None
  /\ \A u \in User : u # None
  /\ \A t \in Target : t # None
  /\ \A r \in ReviewId : r # None
  /\ \A row \in StatsRow : row # None
  /\ \A s \in TargetStatus : s # None
  BY DataAssumption

LEMMA BecomesInv ==
  ASSUME TxInv, TypeOK', NEW i \in Tx, NEW state \in TxState,
         Becomes(i, state), Rightful(state),
         \A row \in state.x : row \in tx[i].x \/ CanLock(i, row),
         \A row \in state.ks : row \in tx[i].ks \/ CanShare(i, row)
  PROVE  TxInv'
  <1>1. \A j \in Tx : tx'[j] = IF j = i THEN state ELSE tx[j]
    BY DEF TxInv, TypeOK, Becomes
  <1>2. LocksExclusive'
    <2> SUFFICES ASSUME NEW j \in Tx, NEW l \in Tx, j # l, NEW row \in tx'[j].x
                 PROVE  row \notin tx'[l].x /\ row \notin tx'[l].ks
      BY DEF LocksExclusive
    <2>1. CASE j # i /\ l # i
      BY <1>1, <2>1 DEF TxInv, LocksExclusive
    <2>2. CASE j = i
      BY <1>1, <2>2 DEF TxInv, LocksExclusive, CanLock
    <2>3. CASE l = i
      BY <1>1, <2>3 DEF TxInv, LocksExclusive, CanLock, CanShare
    <2> QED BY <2>1, <2>2, <2>3
  <1>3. /\ reviews' = reviews /\ stats' = stats /\ targets' = targets
        /\ now' = now /\ reinstated' = reinstated
    BY DEF Becomes
  <1>4. ASSUME NEW j \in Tx
        PROVE  Rightful(tx[j])'
    <2>1. Rightful(tx'[j])
      BY <1>1 DEF TxInv
    <2>2. \A s \in TxState : Rightful(s) => Rightful(s)'
      BY <1>3 DEF Rightful, Posting, Admitted, Ledger!Barring, Revising, Balanced, Merging,
                  Mergeable
    <2>3. tx'[j] \in TxState
      BY DEF TypeOK
    <2> QED BY <2>1, <2>2, <2>3
  <1>5. \A r \in ReviewId : reviews'[r] # None => reviews'[r].at <= now'
    BY <1>3 DEF TxInv
  <1> QED BY <1>2, <1>4, <1>5 DEF TxInv

(* A slot with nothing to write.                                           *)
LEMMA BareRightful ==
  ASSUME NEW s \in TxState, s.pc \in {"idle", "draft"}, s.who = None, s.dst = None,
         \A r \in ReviewId : s.revs[r] = None,
         \A t \in Target : s.rows[t] = None /\ s.marks[t] = None
  PROVE  Rightful(s)
  BY DEF Rightful, Posting, Revising, Balanced, Merging

LEMMA IdleRightful == Rightful(Idle)
  <1>1. /\ Idle.pc = "idle" /\ Idle.who = None /\ Idle.dst = None
        /\ \A r \in ReviewId : Idle.revs[r] = None
        /\ \A t \in Target : Idle.rows[t] = None /\ Idle.marks[t] = None
    BY DEF Idle
  <1> QED BY <1>1, IdleType, BareRightful

LEMMA RollbackInv ==
  ASSUME TxInv, NEW i \in Tx, Rollback(i)
  PROVE  TxInv'
  <1>1. TypeOK'
    BY RollbackType DEF TxInv
  <1>2. Idle.x = {} /\ Idle.ks = {}
    BY DEF Idle
  <1> QED BY <1>1, <1>2, IdleType, IdleRightful, BecomesInv DEF Rollback

(* A write to one existing review, by what it makes of it and whether the  *)
(* statement order goes on to statsDelta.                                  *)
LEMMA WriteReviewInv ==
  ASSUME TxInv, TypeOK', NEW i \in Tx, NEW r \in ReviewId, NEW rv \in Review,
         NEW pc \in {"stats", "notify", "commit"}, NEW users \in SUBSET User,
         CanLock(i, <<"review", r>>),
         reviews[r] # None,
         Revision(tx[i].ver, reviews[r], rv),
         pc = "stats" \/ SameContribution(reviews[r], rv),
         WriteReview(i, r, rv, pc, users)
  PROVE  TxInv'
  <1> DEFINE revs == [Idle.revs EXCEPT ![r] = rv]
             state == [Idle EXCEPT !.pc = pc, !.rid = r, !.ver = tx[i].ver,
                                   !.revs = revs,
                                   !.notify = users, !.x = {<<"review", r>>}]
  <1>1. revs \in [ReviewId -> Review \cup {None}]
    BY IdleType, FieldType
  <1>2. revs[r] = rv /\ \A q \in ReviewId \ {r} : revs[q] = None
    BY DEF Idle
  <1> HIDE DEF revs
  <1>3. state \in TxState
    BY ZenonT(40), <1>1, IdleType, PCType, SlotInv, RowType DEF TxState
  <1>4. /\ state.pc = pc /\ state.rid = r /\ state.revs = revs /\ state.ver = tx[i].ver
        /\ state.x = {<<"review", r>>} /\ state.rows = Idle.rows /\ state.marks = Idle.marks
        /\ state.who = Idle.who /\ state.dst = Idle.dst /\ state.ks = Idle.ks
    BY IdleType DEF TxState
  <1>5. /\ \A t \in Target : Idle.rows[t] = None /\ Idle.marks[t] = None
        /\ Idle.who = None /\ Idle.dst = None /\ Idle.ks = {}
    BY DEF Idle
  <1>6. Becomes(i, state)
    BY DEF WriteReview, revs
  <1> HIDE DEF state
  <1>7. Posting(state) /\ Merging(state)
    BY <1>4, <1>5 DEF Posting, Merging
  <1>8. Revising(state)
    BY <1>2, <1>4 DEF Revising
  <1>9. Balanced(state)
    BY <1>2, <1>4, <1>5 DEF Balanced
  <1>10. Rightful(state)
    BY <1>7, <1>8, <1>9 DEF Rightful
  <1> QED BY <1>3, <1>4, <1>5, <1>6, <1>10, BecomesInv

LEMMA BeginInv ==
  ASSUME TxInv, NEW i \in Tx, Begin(i)
  PROVE  TxInv'
  <1>0. TypeOK'
    BY BeginType DEF TxInv
  <1>9. /\ \A t \in Target : Idle.rows[t] = None /\ Idle.marks[t] = None
        /\ \A r \in ReviewId : Idle.revs[r] = None
        /\ Idle.who = None /\ Idle.dst = None /\ Idle.ks = {} /\ Idle.x = {}
    BY DEF Idle
  <1>1. ASSUME NEW u \in User, NEW t \in Target, NEW r \in ReviewId, LockUser(i, u, t, r)
        PROVE  TxInv'
    <2> DEFINE state == [Idle EXCEPT !.pc = "target", !.who = u, !.src = t, !.rid = r,
                                     !.x = {<<"user", u>>, <<"review", r>>}]
    <2>1. state \in TxState
      BY IdleType, RowType, PCType DEF TxState
    <2>2. /\ state.pc = "target" /\ state.who = u /\ state.src = t /\ state.rid = r
          /\ state.revs = Idle.revs /\ state.rows = Idle.rows /\ state.marks = Idle.marks
          /\ state.dst = Idle.dst /\ state.ks = Idle.ks
          /\ state.x = {<<"user", u>>, <<"review", r>>}
      BY IdleType DEF TxState
    <2>3. Becomes(i, state) /\ reviews[r] = None
      BY <1>1 DEF LockUser
    <2> HIDE DEF state
    <2>4. Posting(state) /\ Revising(state) /\ Balanced(state) /\ Merging(state)
      BY <1>9, <2>2, <2>3, NotNone DEF Posting, Revising, Balanced, Merging
    <2>5. Rightful(state)
      BY <2>4 DEF Rightful
    <2>6. \A row \in state.x : CanLock(i, row)
      BY <1>1, <2>2 DEF LockUser
    <2> QED BY <1>0, <1>9, <2>1, <2>2, <2>3, <2>5, <2>6, BecomesInv
  <1>2. ASSUME NEW r \in ReviewId, OpenDraft(i, r)
        PROVE  TxInv'
    <2> DEFINE state == [Idle EXCEPT !.pc = "draft", !.rid = r, !.ver = reviews[r].version]
    <2>1. reviews[r].version \in Nat
      BY <1>2, SlotInv DEF OpenDraft, Review
    <2>2. state \in TxState
      BY <2>1, IdleType, PCType DEF TxState
    <2>3. /\ state.pc = "draft" /\ state.who = Idle.who /\ state.dst = Idle.dst
          /\ state.revs = Idle.revs /\ state.rows = Idle.rows /\ state.marks = Idle.marks
          /\ state.x = Idle.x /\ state.ks = Idle.ks
      BY IdleType DEF TxState
    <2>4. Becomes(i, state)
      BY <1>2 DEF OpenDraft
    <2> HIDE DEF state
    <2>5. Rightful(state)
      BY <1>9, <2>2, <2>3, BareRightful
    <2> QED BY <1>0, <1>9, <2>2, <2>3, <2>4, <2>5, BecomesInv
  <1>3. ASSUME NEW r \in ReviewId, Remove(i, r)
        PROVE  TxInv'
    <2> DEFINE old == reviews[r]
               rv == [old EXCEPT !.status = "removed"]
               pc == IF Published(old) THEN "stats" ELSE "commit"
    <2>1. rv \in Review /\ ~Published(rv)
      BY <1>3, SlotInv DEF Remove, Review, Status, Published
    <2>2. /\ CanLock(i, <<"review", r>>) /\ WriteReview(i, r, rv, pc, {})
          /\ reviews[r] # None /\ old.status # "removed"
      BY <1>3 DEF Remove
    <2>3. pc = "stats" \/ SameContribution(old, rv)
      BY <2>1 DEF SameContribution
    <2>4. pc \in {"stats", "notify", "commit"} /\ {} \in SUBSET User
      OBVIOUS
    <2>5. Revision(tx[i].ver, old, rv)
      BY <2>2 DEF Revision
    <2> HIDE DEF rv, pc
    <2> QED BY <1>0, <2>1, <2>2, <2>3, <2>4, <2>5, WriteReviewInv
  <1>4. ASSUME NEW k \in Rating, Update(i, k)
        PROVE  TxInv'
    <2>1. tx[i].rid \in ReviewId /\ tx[i].ver < MaxVersion
      BY <1>4, SlotInv DEF Update, Shaped
    <2>2. CASE Active(reviews[tx[i].rid]) /\ reviews[tx[i].rid].version = tx[i].ver
      <3> DEFINE r == tx[i].rid
                 old == reviews[r]
                 rv == [old EXCEPT !.rating = k, !.version = @ + 1]
                 pc == IF Published(old) THEN "stats" ELSE "commit"
      <3>1. old \in Review /\ old # None
        BY <2>1, <2>2, SlotInv DEF Active
      <3>2. old.version + 1 \in Nat
        BY <3>1 DEF Review
      <3>3. rv \in Review /\ (Published(rv) => Published(old))
        BY <2>2, <3>1, <3>2 DEF Review, Published, Active
      <3>4. CanLock(i, <<"review", r>>) /\ WriteReview(i, r, rv, pc, {})
        BY <1>4, <2>2 DEF Update
      <3>5. pc = "stats" \/ SameContribution(old, rv)
        BY <3>3 DEF SameContribution
      <3>6. pc \in {"stats", "notify", "commit"} /\ {} \in SUBSET User
        OBVIOUS
      <3>7. rv = [old EXCEPT !.rating = k, !.version = tx[i].ver + 1]
        BY <2>2
      <3>8. Revision(tx[i].ver, old, rv)
        BY <2>1, <2>2, <3>7 DEF Revision
      <3> HIDE DEF r, rv, pc
      <3>9. r \in ReviewId
        BY <2>1 DEF r
      <3> QED BY <1>0, <3>1, <3>3, <3>4, <3>5, <3>6, <3>8, <3>9, WriteReviewInv
    <2> QED BY <1>4, <2>2, RollbackInv DEF Update
  <1>5. ASSUME NEW r \in ReviewId, NEW s \in Outcome, SetModerationStatus(i, r, s)
        PROVE  TxInv'
    <2> DEFINE old == reviews[r]
               rv == [old EXCEPT !.status = s]
               pc == IF Published(old) \/ Published(rv) THEN "stats" ELSE "notify"
    <2>1. /\ rv \in Review /\ old # None /\ old.status # s
          /\ {old.author} \in SUBSET User
      BY <1>5, SlotInv, TxAssumption DEF SetModerationStatus, Review
    <2>2. CanLock(i, <<"review", r>>) /\ WriteReview(i, r, rv, pc, {old.author})
      BY <1>5 DEF SetModerationStatus
    <2>3. Revision(tx[i].ver, old, rv)
      BY <2>1 DEF Revision
    <2>4. pc = "stats" \/ SameContribution(old, rv)
      BY DEF SameContribution
    <2>5. pc \in {"stats", "notify", "commit"}
      OBVIOUS
    <2> HIDE DEF rv, pc
    <2> QED BY <1>0, <2>1, <2>2, <2>3, <2>4, <2>5, WriteReviewInv
  <1>6. ASSUME NEW r \in ReviewId, NEW l \in UpgradeLevel, UpgradeVerification(i, r, l)
        PROVE  TxInv'
    <2> DEFINE old == reviews[r]
               rv == [old EXCEPT !.level = l]
               users == IF l = "media_attached" THEN {} ELSE {old.author}
               pc == IF ~Verified(old) /\ Verified(rv) /\ Published(old)
                     THEN "stats" ELSE Notifying(users)
    <2>1. /\ old \in Review /\ rv \in Review /\ old # None
          /\ rv.status = old.status /\ rv.rating = old.rating /\ rv.level = l
          /\ users \in SUBSET User
          /\ levelRank[l] > levelRank[old.level]
      BY <1>6, SlotInv, TxAssumption DEF UpgradeVerification, Review
    <2>2. pc \in {"stats", "notify", "commit"}
      BY DEF Notifying
    <2>3. Published(rv) <=> Published(old)
      BY <2>1, NotNone DEF Published
    <2>4. Verified(old) => Verified(rv)
      BY <2>1 DEF Verified, VerifiedLevels, levelRank, Review, Level
    <2>5. pc = "stats" \/ SameContribution(old, rv)
      BY <2>1, <2>3, <2>4 DEF SameContribution
    <2>6. CanLock(i, <<"review", r>>) /\ WriteReview(i, r, rv, pc, users)
      BY <1>6 DEF UpgradeVerification
    <2>7. Revision(tx[i].ver, old, rv)
      BY <2>1 DEF Revision
    <2> HIDE DEF pc, users, rv
    <2> QED BY <1>0, <2>1, <2>2, <2>5, <2>6, <2>7, WriteReviewInv
  <1>7. ASSUME NEW t \in Target, NEW s \in TargetOutcome, DecideTarget(i, t, s)
        PROVE  TxInv'
    <2> DEFINE users == {CreatorOf[t]} \ {None}
               pc == Notifying(users)
               marks == [Idle.marks EXCEPT ![t] = s]
               state == [Idle EXCEPT !.pc = pc, !.marks = marks,
                                     !.notify = users, !.x = {<<"target", t>>}]
    <2>1. users \in SUBSET User /\ s \in TargetStatus /\ s # "merged"
      BY TxAssumption DEF TargetStatus
    <2>2. pc \in {"notify", "commit"}
      BY DEF Notifying
    <2>3. /\ marks \in [Target -> TargetStatus \cup {None}]
          /\ \A q \in Target : marks[q] # None => q = t /\ marks[q] = s
      BY <1>9, <2>1, IdleType, FieldType
    <2>7. Becomes(i, state) /\ CanLock(i, <<"target", t>>)
      BY <1>7 DEF DecideTarget
    <2> HIDE DEF users, pc, marks
    <2>4. state \in TxState
      BY <2>1, <2>2, <2>3, IdleType, RowType, PCType DEF TxState
    <2>5. /\ state.pc = pc /\ state.who = Idle.who /\ state.dst = Idle.dst
          /\ state.revs = Idle.revs /\ state.rows = Idle.rows /\ state.marks = marks
          /\ state.x = {<<"target", t>>} /\ state.ks = Idle.ks
      BY IdleType DEF TxState
    <2> HIDE DEF state
    <2>6. Posting(state) /\ Revising(state) /\ Balanced(state) /\ Merging(state)
      BY <1>9, <2>1, <2>2, <2>3, <2>5 DEF Posting, Revising, Balanced, Merging
    <2>8. Rightful(state)
      BY <2>6 DEF Rightful
    <2> QED BY <1>0, <1>9, <2>4, <2>5, <2>7, <2>8, BecomesInv
  <1>8. ASSUME NEW s \in Target, NEW d \in Target, MergeTargets(i, s, d)
        PROVE  TxInv'
    <2> DEFINE t == Earlier(s, d)
               state == [Idle EXCEPT !.pc = "second", !.src = s, !.dst = d,
                                     !.x = {<<"target", t>>}]
    <2>1. /\ t \in Target /\ s # d /\ <<s, d>> \in Merges
          /\ CanLock(i, <<"target", t>>) /\ Mergeable(s, t) /\ Becomes(i, state)
      BY <1>8 DEF MergeTargets, Earlier
    <2>2. t = Earlier(s, d)
      OBVIOUS
    <2> HIDE DEF t
    <2>3. state \in TxState
      BY <2>1, IdleType, RowType, PCType DEF TxState
    <2>4. /\ state.pc = "second" /\ state.who = Idle.who /\ state.src = s /\ state.dst = d
          /\ state.revs = Idle.revs /\ state.rows = Idle.rows /\ state.marks = Idle.marks
          /\ state.x = {<<"target", t>>} /\ state.ks = Idle.ks
      BY IdleType DEF TxState
    <2> HIDE DEF state
    <2>5. Posting(state) /\ Revising(state) /\ Balanced(state)
      BY <1>9, <2>4, NotNone DEF Posting, Revising, Balanced
    <2>6. Merging(state)
      BY <1>9, <2>1, <2>2, <2>4 DEF Merging
    <2>7. Rightful(state)
      BY <2>5, <2>6 DEF Rightful
    <2> QED BY <1>0, <1>9, <2>1, <2>3, <2>4, <2>7, BecomesInv
  <1> QED BY <1>1, <1>2, <1>3, <1>4, <1>5, <1>6, <1>7, <1>8 DEF Begin, update, remove, decideReview

(* The fields of a slot that a step leaves alone.                          *)
LEMMA PostingOn ==
  ASSUME TxInv, NEW i \in Tx, NEW s \in TxState,
         tx[i].pc \in {"stats", "notify"}, s.pc \in {"notify", "commit"},
         s.who = tx[i].who, s.rid = tx[i].rid, s.ver = tx[i].ver,
         s.src = tx[i].src, s.dst = tx[i].dst, s.revs = tx[i].revs,
         tx[i].x \subseteq s.x, tx[i].ks \subseteq s.ks
  PROVE  Posting(s) /\ Revising(s) /\ Merging(s)
  <1>1. Posting(tx[i]) /\ Revising(tx[i]) /\ Merging(tx[i])
    BY SlotInv
  <1>2. Admitted(tx[i]) => Admitted(s)
    BY DEF Admitted
  <1>3. Posting(s)
    BY <1>1, <1>2 DEF Posting
  <1>4. Revising(s)
    BY <1>1 DEF Revising
  <1>5. Merging(s)
    BY <1>1 DEF Merging
  <1> QED BY <1>3, <1>4, <1>5

LEMMA RecountEmpty ==
  ASSUME NEW revs, NEW t, \A r \in ReviewId : revs[r] # None => revs[r].target # t
  PROVE  Recount(revs, t) = ZeroRow
  <1>1. \A k \in Rating : CountedAt(revs, t, k) = {}
    BY DEF CountedAt, Published
  <1>2. \A k \in Rating : VerifiedAt(revs, t, k) = {}
    BY <1>1 DEF VerifiedAt
  <1> QED BY <1>1, <1>2, FS_EmptySet DEF Recount, ZeroRow

LEMMA PostInv ==
  ASSUME TxInv, TypeOK', NEW i \in Tx,
         \/ ReadTarget(i) \/ CheckPolicy(i) \/ (\E k \in Rating : InsertReview(i, k))
  PROVE  TxInv'
  <1>0. /\ TypeOK /\ tx[i] \in TxState /\ Shaped(tx[i])
        /\ Posting(tx[i]) /\ Balanced(tx[i]) /\ Merging(tx[i])
    BY SlotInv
  <1>00. /\ tx[i].pc \in {"target", "policy", "insert"}
         /\ tx[i].who \in User /\ tx[i].src \in Target /\ tx[i].rid \in ReviewId
    BY <1>0 DEF ReadTarget, CheckPolicy, InsertReview, Shaped
  <1>01. /\ tx[i].who # None /\ tx[i].dst = None
         /\ \A r \in ReviewId \ {tx[i].rid} : tx[i].revs[r] = None
         /\ \A t \in Target : tx[i].rows[t] = None
    BY <1>0, <1>00, NotNone DEF Merging, Posting, Balanced
  <1>1. ASSUME tx[i].pc \in {"target", "policy"}, NEW pc \in {"policy", "insert"},
               Becomes(i, [tx[i] EXCEPT !.pc = pc]),
               pc = "insert" => Admitted(tx[i])
        PROVE  TxInv'
    <2> DEFINE state == [tx[i] EXCEPT !.pc = pc]
    <2>1. state \in TxState
      BY SlotRecord, <1>0, PCType DEF TxState
    <2>2. /\ state.pc = pc /\ state.who = tx[i].who /\ state.rid = tx[i].rid
          /\ state.src = tx[i].src /\ state.dst = tx[i].dst /\ state.revs = tx[i].revs
          /\ state.rows = tx[i].rows /\ state.marks = tx[i].marks
          /\ state.x = tx[i].x /\ state.ks = tx[i].ks
      BY <1>0 DEF TxState
    <2> HIDE DEF state
    <2>3. Admitted(tx[i]) => Admitted(state)
      BY <2>2 DEF Admitted
    <2>4. Posting(state)
      BY <1>0, <1>1, <2>2, <2>3 DEF Posting
    <2>5. \A r \in ReviewId : state.revs[r] = None
      BY <1>0, <1>1, <1>01, <2>2 DEF Posting
    <2>6. Revising(state) /\ Merging(state) /\ Balanced(state)
      BY <1>0, <1>01, <2>2, <2>5 DEF Revising, Merging, Balanced
    <2>7. Rightful(state)
      BY <2>4, <2>6 DEF Rightful
    <2> QED BY <1>1, <2>1, <2>2, <2>7, BecomesInv DEF state
  <1>2. CASE ReadTarget(i)
    BY <1>1, <1>2, RollbackInv DEF ReadTarget
  <1>3. CASE CheckPolicy(i)
    <2>1. CASE InCooldown(reviews, tx[i].who, tx[i].src, now) \/ AtDailyCap(reviews, tx[i].who, now)
      BY <1>3, <2>1, RollbackInv DEF CheckPolicy
    <2>2. CASE ~(InCooldown(reviews, tx[i].who, tx[i].src, now) \/ AtDailyCap(reviews, tx[i].who, now))
      <3>1. InCooldown(Ledger!Barring, tx[i].who, tx[i].src, now)
               => InCooldown(reviews, tx[i].who, tx[i].src, now)
        BY DEF InCooldown, Ledger!Barring, Active
      <3>2. Admitted(tx[i])
        BY <2>2, <3>1 DEF Admitted
      <3> QED BY <1>1, <1>3, <2>2, <3>2 DEF CheckPolicy
    <2> QED BY <2>1, <2>2
  <1>4. ASSUME NEW k \in Rating, InsertReview(i, k)
        PROVE  TxInv'
    <2> DEFINE rv == NewReview(tx[i].who, tx[i].src, k, now)
               users == ManagersOf[tx[i].src] \ {tx[i].who}
               revs == [tx[i].revs EXCEPT ![tx[i].rid] = rv]
               ks == tx[i].ks \cup {<<"target", tx[i].src>>}
               state == [tx[i] EXCEPT !.pc = "stats", !.revs = revs,
                                      !.notify = users, !.ks = ks]
    <2>1. rv \in Review /\ users \in SUBSET User
      BY <1>0, <1>00, NewReviewType, SlotType, TxAssumption
    <2>2. tx[i].pc = "insert" /\ Becomes(i, state) /\ CanShare(i, <<"target", tx[i].src>>)
      BY <1>4 DEF InsertReview
    <2>3. rv = NewReview(tx[i].who, tx[i].src, k, now)
      OBVIOUS
    <2> HIDE DEF rv, users
    <2>4. /\ revs \in [ReviewId -> Review \cup {None}] /\ revs[tx[i].rid] = rv
          /\ \A q \in ReviewId \ {tx[i].rid} : revs[q] = None
          /\ ks \in SUBSET Row /\ <<"target", tx[i].src>> \in ks
          /\ \A row \in ks : row \in tx[i].ks \/ row = <<"target", tx[i].src>>
      BY <1>0, <1>00, <1>01, <2>1, FieldType, RowType
    <2> HIDE DEF revs, ks
    <2>5. state \in TxState
      BY <1>0, <2>1, <2>4, SlotRecord, PCType DEF TxState
    <2>6. /\ state.pc = "stats" /\ state.who = tx[i].who /\ state.rid = tx[i].rid
          /\ state.src = tx[i].src /\ state.dst = tx[i].dst /\ state.revs = revs
          /\ state.rows = tx[i].rows /\ state.marks = tx[i].marks
          /\ state.x = tx[i].x /\ state.ks = ks
      BY <1>0 DEF TxState
    <2> HIDE DEF state
    <2>7. Admitted(state)
      BY <1>0, <1>01, <2>2, <2>6 DEF Admitted, Posting
    <2>8. Posting(state)
      BY <1>0, <1>00, <1>01, <2>2, <2>3, <2>4, <2>6, <2>7 DEF Posting
    <2>9. Balanced(state)
      BY <1>0, <1>01, <2>6 DEF Balanced
    <2>10. Revising(state) /\ Merging(state)
      BY <1>01, <2>6 DEF Revising, Merging
    <2>11. Rightful(state)
      BY <2>8, <2>9, <2>10 DEF Rightful
    <2>12. \A row \in state.ks : row \in tx[i].ks \/ CanShare(i, row)
      BY <2>2, <2>4, <2>6
    <2> QED BY <2>2, <2>5, <2>6, <2>11, <2>12, BecomesInv
  <1> QED BY <1>2, <1>3, <1>4

LEMMA ApplyStatsInv ==
  ASSUME TxInv, TypeOK', NEW i \in Tx, ApplyStats(i)
  PROVE  TxInv'
  <1> DEFINE r == tx[i].rid
             new == tx[i].revs[r]
             t == new.target
             row == Rebalanced(stats[t], reviews[r], new)
             pc == Notifying(tx[i].notify)
             rows == [tx[i].rows EXCEPT ![t] = row]
             x == tx[i].x \cup {<<"stats", t>>}
             state == [tx[i] EXCEPT !.pc = pc, !.rows = rows, !.x = x]
  <1>0. /\ TypeOK /\ tx[i] \in TxState /\ Shaped(tx[i]) /\ Posting(tx[i]) /\ Revising(tx[i])
        /\ Balanced(tx[i]) /\ Merging(tx[i])
    BY SlotInv
  <1>1. /\ tx[i].pc = "stats" /\ r \in ReviewId /\ new \in Review /\ t \in Target
        /\ CanLock(i, <<"stats", t>>)
    BY <1>0 DEF ApplyStats, Shaped, Review
  <1>2. tx[i].dst = None
    BY <1>0, <1>1 DEF Merging
  <1>3. row \in StatsRow
    BY <1>0, <1>1, SlotType, RebalancedType
  <1>4. pc \in {"notify", "commit"}
    BY DEF Notifying
  <1>5. Becomes(i, state) \/ Rollback(i)
    BY DEF ApplyStats
  <1>6. row = Rebalanced(stats[t], reviews[r], new) /\ new.target = t
    OBVIOUS
  <1>7. /\ \A q \in Target : tx[i].rows[q] = None
        /\ \A q \in Target : tx[i].marks[q] # None =>
               tx[i].marks[q] # "merged" /\ <<"target", q>> \in tx[i].x
        /\ \A q \in ReviewId \ {r} : tx[i].revs[q] = None
    BY <1>0, <1>1, <1>2 DEF Balanced, Posting, Revising
  <1> HIDE DEF t, row
  <1>8. /\ rows \in [Target -> StatsRow \cup {None}] /\ x \in SUBSET Row
        /\ rows[t] = row /\ \A q \in Target \ {t} : rows[q] = None
        /\ <<"stats", t>> \in x /\ tx[i].x \subseteq x
        /\ \A l \in x : l \in tx[i].x \/ l = <<"stats", t>>
    BY <1>0, <1>1, <1>3, <1>7, FieldType, RowType
  <1> HIDE DEF pc, rows, x
  <1>9. state \in TxState
    BY <1>0, <1>4, <1>8, SlotRecord, PCType DEF TxState
  <1>10. /\ state.pc = pc /\ state.who = tx[i].who /\ state.rid = r /\ state.ver = tx[i].ver
         /\ state.src = tx[i].src /\ state.dst = tx[i].dst /\ state.revs = tx[i].revs
         /\ state.rows = rows /\ state.marks = tx[i].marks /\ state.x = x
         /\ state.ks = tx[i].ks
    BY <1>0 DEF TxState
  <1> HIDE DEF state
  <1>11. new # None /\ row # None
    BY <1>1, <1>3, NotNone
  <1>12. Balanced(state)
    <2>1. ASSUME NEW q \in ReviewId, state.revs[q] # None
          PROVE  state.rows[state.revs[q].target] # None
      <3>1. q = r /\ state.revs[q] = new
        BY <1>7, <1>10, <2>1
      <3> QED BY <1>6, <1>8, <1>10, <1>11, <3>1
    <2>2. ASSUME NEW q \in Target, state.rows[q] # None
          PROVE  /\ state.pc \in {"notify", "commit"}
                 /\ <<"stats", q>> \in state.x
                 /\ state.rid \in ReviewId
                 /\ state.revs[state.rid] # None
                 /\ state.revs[state.rid].target = q
                 /\ state.rows[q] = Rebalanced(stats[q], reviews[state.rid], state.revs[state.rid])
      <3>1. q = t
        BY <1>8, <1>10, <2>2
      <3>2. state.revs[state.rid] = new
        BY <1>10
      <3> QED BY <1>1, <1>4, <1>6, <1>8, <1>10, <1>11, <3>1, <3>2
    <2>3. ASSUME NEW q \in Target, state.marks[q] # None
          PROVE  state.marks[q] # "merged" /\ <<"target", q>> \in state.x
      BY <1>7, <1>8, <1>10, <2>3
    <2> QED BY <2>1, <2>2, <2>3 DEF Balanced
  <1>13. Posting(state) /\ Revising(state) /\ Merging(state)
    BY <1>1, <1>4, <1>8, <1>9, <1>10, PostingOn
  <1>14. Rightful(state)
    BY <1>12, <1>13 DEF Rightful
  <1>15. \A l \in state.x : l \in tx[i].x \/ CanLock(i, l)
    BY <1>1, <1>8, <1>10
  <1> QED BY <1>5, <1>9, <1>10, <1>14, <1>15, BecomesInv, RollbackInv

LEMMA NotifyInv ==
  ASSUME TxInv, TypeOK', NEW i \in Tx, NEW u \in User, Notify(i, u)
  PROVE  TxInv'
  <1> DEFINE users == tx[i].notify \ {u}
             pc == Notifying(users)
             ks == tx[i].ks \cup {<<"user", u>>}
             state == [tx[i] EXCEPT !.pc = pc, !.notify = users, !.ks = ks]
  <1>0. tx[i] \in TxState /\ Balanced(tx[i]) /\ TypeOK
    BY SlotInv
  <1>1. /\ pc \in {"notify", "commit"} /\ tx[i].pc = "notify"
        /\ CanShare(i, <<"user", u>>) /\ Becomes(i, state)
    BY DEF Notifying, Notify
  <1>2. /\ users \in SUBSET User /\ ks \in SUBSET Row /\ tx[i].ks \subseteq ks
        /\ \A row \in ks : row \in tx[i].ks \/ row = <<"user", u>>
    BY <1>0, FieldType, RowType
  <1> HIDE DEF users, pc, ks
  <1>3. state \in TxState
    BY <1>0, <1>1, <1>2, SlotRecord, PCType DEF TxState
  <1>4. /\ state.pc = pc /\ state.who = tx[i].who /\ state.rid = tx[i].rid
        /\ state.ver = tx[i].ver
        /\ state.src = tx[i].src /\ state.dst = tx[i].dst /\ state.revs = tx[i].revs
        /\ state.rows = tx[i].rows /\ state.marks = tx[i].marks /\ state.x = tx[i].x
        /\ state.ks = ks
    BY <1>0 DEF TxState
  <1> HIDE DEF state
  <1>5. Balanced(state)
    BY <1>0, <1>1, <1>4 DEF Balanced
  <1>6. Posting(state) /\ Revising(state) /\ Merging(state)
    BY <1>1, <1>2, <1>3, <1>4, PostingOn
  <1>7. Rightful(state)
    BY <1>5, <1>6 DEF Rightful
  <1>8. \A row \in state.ks : row \in tx[i].ks \/ CanShare(i, row)
    BY <1>1, <1>2, <1>4
  <1> QED BY <1>1, <1>3, <1>4, <1>7, <1>8, BecomesInv

LEMMA MergeInv ==
  ASSUME TxInv, TypeOK', NEW i \in Tx,
         \/ LockSecond(i) \/ (\E r \in ReviewId : MoveReview(i, r))
         \/ MarkMerged(i) \/ ReadAggregate(i) \/ WriteAggregate(i)
  PROVE  TxInv'
  <1> DEFINE s == tx[i].src
             d == tx[i].dst
  <1>0. /\ TypeOK /\ tx[i] \in TxState /\ Shaped(tx[i]) /\ Posting(tx[i])
        /\ Balanced(tx[i]) /\ Merging(tx[i])
    BY SlotInv
  <1>1. /\ tx[i].pc \in {"second", "move", "agg", "write"} /\ d # None
        /\ s \in Target /\ d \in Target /\ s # d /\ <<s, d>> \in Merges
        /\ tx[i].who = None
    <2>1. tx[i].pc \in {"second", "move", "agg", "write"}
      BY DEF LockSecond, MoveReview, MarkMerged, ReadAggregate, WriteAggregate
    <2>2. d # None
      BY <1>0, <2>1, NotNone DEF Shaped
    <2> QED BY <1>0, <2>1, <2>2 DEF Merging
  (* What is left to show of the slot's next state.                        *)
  <1>2. ASSUME NEW state \in TxState, Becomes(i, state), Merging(state),
               state.who = tx[i].who, state.dst = d, state.ks = tx[i].ks,
               \A row \in state.x : row \in tx[i].x \/ CanLock(i, row)
        PROVE  TxInv'
    <2>1. Posting(state) /\ Revising(state) /\ Balanced(state)
      BY <1>1, <1>2 DEF Posting, Revising, Balanced
    <2>2. Rightful(state)
      BY <1>2, <2>1 DEF Rightful
    <2> QED BY <1>2, <2>2, BecomesInv
  <1> HIDE DEF s, d
  <1>3. CASE LockSecond(i)
    <2> DEFINE t == Later(tx[i].src, tx[i].dst)
               x == tx[i].x \cup {<<"target", t>>}
               state == [tx[i] EXCEPT !.pc = "move", !.x = x]
    <2>1. t \in Target /\ (t = s \/ t = d) /\ (t = s => Earlier(s, d) = d)
          /\ (t = d => Earlier(s, d) = s) /\ tx[i].pc = "second"
      BY <1>1, <1>3 DEF Later, Earlier, LockSecond, s, d
    <2>2. CASE ~Mergeable(tx[i].src, t)
      BY <1>3, <2>2, RollbackInv DEF LockSecond
    <2>3. CASE Mergeable(tx[i].src, t)
      <3>1. Becomes(i, state) /\ CanLock(i, <<"target", t>>) /\ Mergeable(s, t)
        BY <1>3, <2>3 DEF LockSecond, s
      <3> HIDE DEF t
      <3>2. x \in SUBSET Row /\ (\A row \in x : row \in tx[i].x \/ row = <<"target", t>>)
            /\ <<"target", t>> \in x /\ tx[i].x \subseteq x
        BY <1>0, <2>1, FieldType, RowType
      <3> HIDE DEF x
      <3>3. state \in TxState
        BY <1>0, <3>2, SlotRecord, PCType DEF TxState
      <3>4. /\ state.pc = "move" /\ state.who = tx[i].who /\ state.src = s /\ state.dst = d
            /\ state.revs = tx[i].revs /\ state.rows = tx[i].rows
            /\ state.marks = tx[i].marks /\ state.x = x /\ state.ks = tx[i].ks
        BY <1>0 DEF TxState, s, d
      <3> HIDE DEF state
      <3>5. Merging(state)
        <4>1. \A q \in {s, d} : <<"target", q>> \in x /\ Mergeable(s, q)
          <5>1. <<"target", Earlier(s, d)>> \in tx[i].x /\ Mergeable(s, Earlier(s, d))
            BY <1>0, <1>1, <2>1 DEF Merging, s, d
          <5> QED BY <2>1, <3>1, <3>2, <5>1
        <4>2. /\ \A r \in ReviewId : tx[i].revs[r] = None
              /\ \A q \in Target : tx[i].marks[q] = None
              /\ \A q \in Target : tx[i].rows[q] # None =>
                     q \in {s, d} /\ <<"stats", q>> \in tx[i].x
              /\ tx[i].rows[s] # None => tx[i].rows[s] = ZeroRow
          BY <1>0, <1>1, <2>1 DEF Merging, s, d
        <4> QED BY <1>1, <3>2, <3>4, <4>1, <4>2 DEF Merging
      <3>6. \A row \in state.x : row \in tx[i].x \/ CanLock(i, row)
        BY <3>1, <3>2, <3>4
      <3> QED BY <1>2, <3>1, <3>3, <3>4, <3>5, <3>6
    <2> QED BY <2>2, <2>3
  (* What the merge has read and locked by the time it moves reviews.      *)
  <1>4. tx[i].pc # "second" =>
            /\ \A q \in {s, d} : <<"target", q>> \in tx[i].x /\ Mergeable(s, q)
            /\ \A r \in ReviewId : tx[i].revs[r] # None =>
                   /\ <<"review", r>> \in tx[i].x
                   /\ reviews[r] # None
                   /\ reviews[r].target = s
                   /\ tx[i].revs[r] = MovedTo(d, reviews[r])
            /\ \A t \in Target : tx[i].marks[t] # None =>
                   t = s /\ tx[i].pc \in {"agg", "write", "commit"}
            /\ tx[i].pc \in {"agg", "write", "commit"} =>
                   \A r \in ReviewId :
                       reviews[r] # None /\ reviews[r].target = s => tx[i].revs[r] # None
            /\ \A t \in Target : tx[i].rows[t] # None =>
                   t \in {s, d} /\ <<"stats", t>> \in tx[i].x
            /\ tx[i].rows[s] # None => tx[i].rows[s] = ZeroRow
            /\ tx[i].pc = "write" /\ tx[i].rows[s] = None => tx[i].agg = ZeroRow
    BY <1>0, <1>1 DEF Merging, s, d
  <1>5. ASSUME NEW r \in ReviewId, MoveReview(i, r)
        PROVE  TxInv'
    <2> DEFINE rv == [reviews[r] EXCEPT !.target = tx[i].dst]
               revs == [tx[i].revs EXCEPT ![r] = rv]
               x == tx[i].x \cup {<<"review", r>>}
               state == [tx[i] EXCEPT !.revs = revs, !.x = x]
    <2>1. /\ tx[i].pc = "move" /\ reviews[r] # None /\ reviews[r] \in Review
          /\ reviews[r].target = s /\ CanLock(i, <<"review", r>>) /\ Becomes(i, state)
      BY <1>5, SlotInv DEF MoveReview, ToMove, s
    <2>2. rv \in Review /\ rv = MovedTo(d, reviews[r])
      BY <1>1, <2>1 DEF Review, MovedTo, d
    <2> HIDE DEF rv
    <2>3. /\ revs \in [ReviewId -> Review \cup {None}] /\ x \in SUBSET Row
          /\ revs[r] = rv /\ \A q \in ReviewId \ {r} : revs[q] = tx[i].revs[q]
          /\ <<"review", r>> \in x /\ tx[i].x \subseteq x
          /\ \A row \in x : row \in tx[i].x \/ row = <<"review", r>>
      BY <1>0, <2>2, FieldType, RowType
    <2> HIDE DEF revs, x
    <2>4. state \in TxState
      BY <1>0, <2>3, SlotRecord DEF TxState
    <2>5. /\ state.pc = "move" /\ state.who = tx[i].who /\ state.src = s /\ state.dst = d
          /\ state.revs = revs /\ state.rows = tx[i].rows
          /\ state.marks = tx[i].marks /\ state.x = x /\ state.ks = tx[i].ks
      BY <1>0, <2>1 DEF TxState, s, d
    <2> HIDE DEF state
    <2>6. \A q \in ReviewId : revs[q] # None =>
              /\ <<"review", q>> \in x /\ reviews[q] # None
              /\ reviews[q].target = s /\ revs[q] = MovedTo(d, reviews[q])
      BY <1>4, <2>1, <2>2, <2>3
    <2>7. Merging(state)
      BY <1>1, <1>4, <2>1, <2>3, <2>5, <2>6 DEF Merging
    <2>8. \A row \in state.x : row \in tx[i].x \/ CanLock(i, row)
      BY <2>1, <2>3, <2>5
    <2> QED BY <1>2, <2>1, <2>4, <2>5, <2>7, <2>8
  <1>6. CASE MarkMerged(i)
    <2> DEFINE marks == [tx[i].marks EXCEPT ![tx[i].src] = "merged"]
               state == [tx[i] EXCEPT !.pc = "agg", !.marks = marks]
    <2>1. tx[i].pc = "move" /\ Becomes(i, state) /\ ToMove(i) = {}
      BY <1>6 DEF MarkMerged
    <2>2. /\ marks \in [Target -> TargetStatus \cup {None}]
          /\ \A t \in Target : marks[t] # None => t = s
      BY <1>0, <1>1, <1>4, <2>1, FieldType DEF TargetStatus, s
    <2> HIDE DEF marks
    <2>3. state \in TxState
      BY <1>0, <2>2, SlotRecord, PCType DEF TxState
    <2>4. /\ state.pc = "agg" /\ state.who = tx[i].who /\ state.src = s /\ state.dst = d
          /\ state.revs = tx[i].revs /\ state.rows = tx[i].rows
          /\ state.marks = marks /\ state.x = tx[i].x /\ state.ks = tx[i].ks
      BY <1>0 DEF TxState, s, d
    <2> HIDE DEF state
    <2>5. \A r \in ReviewId :
              reviews[r] # None /\ reviews[r].target = s => tx[i].revs[r] # None
      BY <2>1 DEF ToMove, s
    <2>6. Merging(state)
      BY <1>1, <1>4, <2>1, <2>2, <2>4, <2>5 DEF Merging
    <2> QED BY <1>2, <2>1, <2>3, <2>4, <2>6
  <1>7. CASE ReadAggregate(i)
    <2> DEFINE row == Recount(View(i), Recomputing(i))
               state == [tx[i] EXCEPT !.pc = "write", !.agg = row]
    <2>1. tx[i].pc = "agg" /\ Becomes(i, state)
      BY <1>7 DEF ReadAggregate
    <2>2. row \in StatsRow
      BY <1>1, RecountType DEF Recomputing, s, d
    <2>3. tx[i].rows[s] = None => row = ZeroRow
      <3> SUFFICES ASSUME tx[i].rows[s] = None PROVE row = ZeroRow
        OBVIOUS
      <3>1. Recomputing(i) = s
        BY DEF Recomputing, s
      <3>2. ASSUME NEW r \in ReviewId, View(i)[r] # None
            PROVE  View(i)[r].target # s
        <4>1. CASE tx[i].revs[r] = None
          BY <1>4, <2>1, <3>2, <4>1 DEF View
        <4>2. CASE tx[i].revs[r] # None
          <5>1. View(i)[r] = MovedTo(d, reviews[r]) /\ reviews[r] \in Review
            BY <1>4, <2>1, <4>2, SlotInv DEF View
          <5>2. MovedTo(d, reviews[r]).target = d
            BY <5>1 DEF MovedTo, Review
          <5> QED BY <1>1, <5>1, <5>2
        <4> QED BY <4>1, <4>2
      <3> QED BY <3>1, <3>2, RecountEmpty
    <2> HIDE DEF row
    <2>4. state \in TxState
      BY <1>0, <2>2, SlotRecord, PCType DEF TxState
    <2>5. /\ state.pc = "write" /\ state.who = tx[i].who /\ state.src = s /\ state.dst = d
          /\ state.revs = tx[i].revs /\ state.rows = tx[i].rows /\ state.agg = row
          /\ state.marks = tx[i].marks /\ state.x = tx[i].x /\ state.ks = tx[i].ks
      BY <1>0 DEF TxState, s, d
    <2> HIDE DEF state
    <2>6. Merging(state)
      BY <1>1, <1>4, <2>1, <2>3, <2>5 DEF Merging
    <2> QED BY <1>2, <2>1, <2>4, <2>5, <2>6
  <1>8. CASE WriteAggregate(i)
    <2> DEFINE t == Recomputing(i)
               pc == IF t = tx[i].src THEN "agg" ELSE "commit"
               rows == [tx[i].rows EXCEPT ![t] = tx[i].agg]
               x == tx[i].x \cup {<<"stats", t>>}
               state == [tx[i] EXCEPT !.pc = pc, !.rows = rows, !.agg = None, !.x = x]
    <2>1. /\ tx[i].pc = "write" /\ Becomes(i, state) /\ CanLock(i, <<"stats", t>>)
          /\ tx[i].agg \in StatsRow
      BY <1>0, <1>8 DEF WriteAggregate, Shaped
    <2>2. /\ t \in {s, d} /\ pc \in {"agg", "commit"}
          /\ t = s <=> tx[i].rows[s] = None
          /\ pc = "commit" => t # s
      BY <1>1 DEF Recomputing, s, d
    <2> HIDE DEF t
    <2>3. /\ rows \in [Target -> StatsRow \cup {None}] /\ x \in SUBSET Row
          /\ rows[t] = tx[i].agg /\ \A q \in Target \ {t} : rows[q] = tx[i].rows[q]
          /\ <<"stats", t>> \in x /\ tx[i].x \subseteq x
          /\ \A row \in x : row \in tx[i].x \/ row = <<"stats", t>>
      BY ZenonT(40), <1>0, <1>1, <2>1, <2>2, FieldType, RowType
    <2> HIDE DEF pc, rows, x
    <2>4. state \in TxState
      BY <1>0, <2>2, <2>3, SlotRecord, PCType DEF TxState
    <2>5. /\ state.pc = pc /\ state.who = tx[i].who /\ state.src = s /\ state.dst = d
          /\ state.revs = tx[i].revs /\ state.rows = rows
          /\ state.marks = tx[i].marks /\ state.x = x /\ state.ks = tx[i].ks
      BY <1>0 DEF TxState, s, d
    <2> HIDE DEF state
    <2>6. /\ rows[s] # None => rows[s] = ZeroRow
          /\ pc = "commit" => rows[s] # None
          /\ \A q \in Target : rows[q] # None => q \in {s, d} /\ <<"stats", q>> \in x
      BY <1>1, <1>4, <2>1, <2>2, <2>3
    <2>7. Merging(state)
      BY <1>1, <1>4, <2>1, <2>2, <2>3, <2>5, <2>6 DEF Merging
    <2>8. \A row \in state.x : row \in tx[i].x \/ CanLock(i, row)
      BY <2>1, <2>3, <2>5
    <2> QED BY <1>2, <2>1, <2>4, <2>5, <2>7, <2>8
  <1> QED BY <1>3, <1>5, <1>6, <1>7, <1>8

-------------------------------------------------------------------------------
(* A commit publishes what its slot holds the locks of.                    *)

LEMMA RevisionKeeps ==
  ASSUME NEW v \in Nat, NEW old \in Review, NEW new \in Review, Revision(v, old, new)
  PROVE  new.author = old.author /\ new.at = old.at /\ new.target = old.target
  BY DEF Revision, Review

LEMMA MovedKeeps ==
  ASSUME NEW rv \in Review, NEW t \in Target
  PROVE  /\ MovedTo(t, rv) \in Review
         /\ MovedTo(t, rv).author = rv.author /\ MovedTo(t, rv).at = rv.at
         /\ MovedTo(t, rv).target = t
         /\ MovedTo(t, rv).rating = rv.rating /\ MovedTo(t, rv).version = rv.version
         /\ MovedTo(t, rv).status = rv.status /\ MovedTo(t, rv).level = rv.level
  BY DEF MovedTo, Review

LEMMA NewKeeps ==
  ASSUME NEW u \in User, NEW t \in Target, NEW k \in Rating
  PROVE  /\ NewReview(u, t, k, now).author = u /\ NewReview(u, t, k, now).target = t
         /\ NewReview(u, t, k, now).at = now
  BY DEF NewReview

(* What becomes of a review at a commit.                                   *)
LEMMA CommitReview ==
  ASSUME TxInv, TypeOK', NEW i \in Tx, Commit(i), NEW r \in ReviewId
  PROVE  \/ reviews'[r] = reviews[r] /\ tx[i].revs[r] = None
         \/ /\ tx[i].who \in User /\ tx[i].dst = None /\ r = tx[i].rid /\ reviews[r] = None
            /\ tx[i].src \in Target
            /\ <<"user", tx[i].who>> \in tx[i].x
            /\ <<"target", tx[i].src>> \in tx[i].ks
            /\ Admitted(tx[i])
            /\ \E k \in Rating : reviews'[r] = NewReview(tx[i].who, tx[i].src, k, now)
            /\ reviews'[r] = tx[i].revs[r]
            /\ reviews'[r].author = tx[i].who /\ reviews'[r].at = now
            /\ reviews'[r].target = tx[i].src
         \/ /\ tx[i].who = None /\ tx[i].dst = None /\ r = tx[i].rid
            /\ reviews[r] \in Review /\ reviews'[r] = tx[i].revs[r]
            /\ Revision(tx[i].ver, reviews[r], reviews'[r])
            /\ reviews'[r].author = reviews[r].author /\ reviews'[r].at = reviews[r].at
            /\ reviews'[r].target = reviews[r].target
         \/ /\ tx[i].dst # None
            /\ reviews[r] \in Review /\ reviews[r].target = tx[i].src
            /\ reviews'[r] = MovedTo(tx[i].dst, reviews[r])
            /\ reviews'[r] = tx[i].revs[r]
            /\ reviews'[r].author = reviews[r].author /\ reviews'[r].at = reviews[r].at
            /\ reviews'[r].target = tx[i].dst
  <1>0. /\ tx[i] \in TxState /\ Posting(tx[i]) /\ Revising(tx[i]) /\ Merging(tx[i])
        /\ tx[i].pc = "commit" /\ tx[i].ver \in Nat /\ tx[i].who \in User \cup {None}
        /\ tx[i].dst \in Target \cup {None}
        /\ \A q \in ReviewId : reviews[q] # None => reviews[q] \in Review
        /\ \A q \in ReviewId : reviews'[q] # None => reviews'[q] \in Review
        /\ reviews'[r] = IF tx[i].revs[r] # None THEN tx[i].revs[r] ELSE reviews[r]
    BY SlotInv DEF Commit, View, TxState, TypeOK
  <1>1. CASE tx[i].revs[r] = None
    BY <1>0, <1>1
  <1>2. CASE tx[i].revs[r] # None /\ tx[i].who # None
    <2>1. /\ tx[i].dst = None /\ r = tx[i].rid /\ tx[i].src \in Target /\ reviews[r] = None
          /\ <<"user", tx[i].who>> \in tx[i].x /\ <<"target", tx[i].src>> \in tx[i].ks
          /\ Admitted(tx[i])
          /\ \E k \in Rating : reviews'[r] = NewReview(tx[i].who, tx[i].src, k, now)
      BY <1>0, <1>2 DEF Posting, Merging
    <2>2. PICK k \in Rating : reviews'[r] = NewReview(tx[i].who, tx[i].src, k, now)
      BY <2>1
    <2>3. /\ reviews'[r].author = tx[i].who /\ reviews'[r].at = now
          /\ reviews'[r].target = tx[i].src
      BY <1>0, <1>2, <2>1, <2>2, NewKeeps
    <2> QED BY <1>0, <1>2, <2>1, <2>3
  <1>3. CASE tx[i].revs[r] # None /\ tx[i].who = None /\ tx[i].dst = None
    <2>1. /\ r = tx[i].rid /\ reviews[r] \in Review /\ reviews'[r] = tx[i].revs[r]
          /\ Revision(tx[i].ver, reviews[r], reviews'[r]) /\ reviews'[r] \in Review
      BY <1>0, <1>3 DEF Revising
    <2>2. /\ reviews'[r].author = reviews[r].author /\ reviews'[r].at = reviews[r].at
          /\ reviews'[r].target = reviews[r].target
      BY <1>0, <2>1, RevisionKeeps
    <2> QED BY <1>3, <2>1, <2>2
  <1>4. CASE tx[i].revs[r] # None /\ tx[i].dst # None
    <2>1. /\ reviews[r] \in Review /\ reviews[r].target = tx[i].src
          /\ reviews'[r] = MovedTo(tx[i].dst, reviews[r]) /\ reviews'[r] = tx[i].revs[r]
          /\ tx[i].dst \in Target
      BY <1>0, <1>4 DEF Merging
    <2>2. /\ reviews'[r].author = reviews[r].author /\ reviews'[r].at = reviews[r].at
          /\ reviews'[r].target = tx[i].dst
      <3>1. \A rv \in Review : /\ MovedTo(tx[i].dst, rv).author = rv.author
                               /\ MovedTo(tx[i].dst, rv).at = rv.at
                               /\ MovedTo(tx[i].dst, rv).target = tx[i].dst
        BY <2>1, MovedKeeps
      <3> QED BY <2>1, <3>1
    <2> QED BY <1>4, <2>1, <2>2
  <1> QED BY <1>1, <1>2, <1>3, <1>4

(* A slot has the lock of every row it writes.                             *)
LEMMA Owns ==
  ASSUME TxInv, NEW i \in Tx
  PROVE  /\ \A r \in ReviewId : tx[i].revs[r] # None => <<"review", r>> \in tx[i].x
         /\ \A t \in Target : tx[i].rows[t] # None => <<"stats", t>> \in tx[i].x
         /\ \A t \in Target : tx[i].marks[t] # None => <<"target", t>> \in tx[i].x
  <1>1. Posting(tx[i]) /\ Revising(tx[i]) /\ Balanced(tx[i]) /\ Merging(tx[i])
    BY SlotInv
  <1>2. CASE tx[i].dst = None
    BY <1>1, <1>2 DEF Posting, Revising, Balanced
  <1>3. CASE tx[i].dst # None
    BY <1>1, <1>3 DEF Merging
  <1> QED BY <1>2, <1>3

LEMMA CommitKeeps ==
  ASSUME TxInv, NEW i \in Tx, Commit(i), NEW j \in Tx, j # i
  PROVE  /\ \A r \in ReviewId : <<"review", r>> \in tx[j].x => reviews'[r] = reviews[r]
         /\ \A t \in Target : <<"stats", t>> \in tx[j].x => stats'[t] = stats[t]
         /\ \A t \in Target : <<"target", t>> \in tx[j].x => targets'[t] = targets[t]
  <1>1. \A row \in tx[j].x : row \notin tx[i].x
    BY DEF TxInv, LocksExclusive
  <1>2. \A r \in ReviewId : tx[i].revs[r] = None => reviews'[r] = reviews[r]
    BY DEF Commit, View
  <1>3. \A t \in Target : tx[i].rows[t] = None => stats'[t] = stats[t]
    BY DEF Commit
  <1>4. \A t \in Target : tx[i].marks[t] = None => targets'[t] = targets[t]
    BY DEF Commit
  <1> QED BY <1>1, <1>2, <1>3, <1>4, Owns

(* Who wrote a review, and when, never changes; a new one is of the moment *)
(* and of the author whose row the commit's slot holds.                    *)
LEMMA CommitWritten ==
  ASSUME TxInv, TypeOK', NEW i \in Tx, Commit(i), NEW u \in User, NEW time,
         tx[i].who # u
  PROVE  WrittenSince(reviews', u, time) = WrittenSince(reviews, u, time)
  <1>1. ASSUME NEW r \in ReviewId
        PROVE  (reviews'[r] # None /\ reviews'[r].author = u /\ reviews'[r].at > time)
               <=> (reviews[r] # None /\ reviews[r].author = u /\ reviews[r].at > time)
    <2>1. reviews'[r] \in Review => reviews'[r] # None
      BY NotNone
    <2>2. reviews[r] \in Review => reviews[r] # None
      BY NotNone
    <2>3. reviews'[r] # None => reviews'[r] \in Review
      BY DEF TypeOK
    <2>4. CASE reviews'[r] = reviews[r]
      BY <2>4
    <2>5. CASE reviews[r] = None /\ reviews'[r].author = tx[i].who
      BY <2>5
    <2>6. CASE /\ reviews[r] \in Review /\ reviews'[r] # None
               /\ reviews'[r].author = reviews[r].author /\ reviews'[r].at = reviews[r].at
      BY <2>2, <2>6
    <2>7. \/ reviews'[r] = tx[i].revs[r] /\ tx[i].revs[r] # None
          \/ reviews'[r] = reviews[r]
      BY DEF Commit, View
    <2> QED BY <2>4, <2>5, <2>6, <2>7, CommitReview
  <1> QED BY <1>1 DEF WrittenSince

LEMMA CommitAdmitted ==
  ASSUME TxInv, TypeOK', NEW i \in Tx, Commit(i), NEW j \in Tx, j # i,
         tx[j].who \in User, tx[j].src \in Target, <<"user", tx[j].who>> \in tx[j].x,
         Admitted(tx[j])
  PROVE  Admitted(tx[j])'
  <1> DEFINE u == tx[j].who
             t == tx[j].src
  <1>1. tx'[j] = tx[j] /\ now' = now
    BY DEF Commit, TxInv, TypeOK
  <1>2. tx[i].who # u
    <2>1. tx[i].who # None => <<"user", tx[i].who>> \in tx[i].x
      BY SlotInv DEF Posting
    <2> QED BY <2>1, NotNone DEF TxInv, LocksExclusive
  <1>3. ~AtDailyCap(reviews', u, now)
    BY <1>2, CommitWritten DEF Admitted, AtDailyCap
  <1>4. ASSUME NEW r \in ReviewId, r \notin reinstated',
               Active(reviews'[r]), reviews'[r].author = u, reviews'[r].target = t
        PROVE  /\ r \notin reinstated /\ reviews[r].at = reviews'[r].at
               /\ Active(reviews[r]) /\ reviews[r].author = u /\ reviews[r].target = t
    <2>1. r \notin reinstated
      BY <1>4 DEF Commit
    <2>2. CASE reviews'[r] = reviews[r]
      BY <1>4, <2>1, <2>2
    <2>3. CASE reviews'[r] # reviews[r]
      <3>1. /\ reviews[r] \in Review /\ reviews'[r].author = reviews[r].author
            /\ reviews'[r].at = reviews[r].at /\ reviews'[r] = tx[i].revs[r]
        BY <1>2, <1>4, <2>3, CommitReview
      <3>2. reviews[r] # None /\ tx[i].revs[r] # None
        BY <1>4, <3>1, NotNone DEF Active
      <3>3. Active(reviews[r]) /\ reviews[r].target = reviews'[r].target
        BY <1>4, <3>1, <3>2 DEF Commit
      <3> QED BY <1>4, <2>1, <3>1, <3>3
    <2> QED BY <2>2, <2>3
  <1>5. ASSUME InCooldown(Ledger!Barring', u, t, now)
        PROVE  InCooldown(Ledger!Barring, u, t, now)
    <2>1. PICK r \in ReviewId : /\ Active(Ledger!Barring'[r])
                                /\ Ledger!Barring'[r].author = u
                                /\ Ledger!Barring'[r].target = t
                                /\ now - Ledger!Barring'[r].at < Cooldown
      BY <1>5 DEF InCooldown
    <2>2. r \notin reinstated' /\ Ledger!Barring'[r] = reviews'[r]
      BY <2>1 DEF Ledger!Barring, Active
    <2>3. /\ r \notin reinstated /\ reviews[r].at = reviews'[r].at
          /\ Active(reviews[r]) /\ reviews[r].author = u /\ reviews[r].target = t
      BY <1>4, <2>1, <2>2
    <2>4. Ledger!Barring[r] = reviews[r]
      BY <2>3 DEF Ledger!Barring
    <2> QED BY <2>1, <2>2, <2>3, <2>4 DEF InCooldown
  <1> QED BY <1>1, <1>3, <1>5 DEF Admitted

(* No review gets to the source of a merge that has emptied it.            *)
LEMMA CommitDrained ==
  ASSUME TxInv, TypeOK', NEW i \in Tx, Commit(i), NEW j \in Tx, j # i,
         tx[j].dst # None, tx[j].pc \in {"agg", "write", "commit"},
         NEW r \in ReviewId, reviews'[r] # None, reviews'[r].target = tx[j].src
  PROVE  tx[j].revs[r] # None
  <1>1. /\ <<"target", tx[j].src>> \in tx[j].x /\ tx[j].src \in Target
        /\ reviews[r] # None /\ reviews[r].target = tx[j].src => tx[j].revs[r] # None
    BY SlotInv DEF Merging
  <1>2. <<"target", tx[j].src>> \notin tx[i].x \cup tx[i].ks
    BY <1>1 DEF TxInv, LocksExclusive
  <1>3. CASE reviews'[r] = reviews[r]
    BY <1>1, <1>3
  <1>4. CASE <<"target", tx[i].src>> \in tx[i].ks /\ reviews'[r].target = tx[i].src
    BY <1>2, <1>4
  <1>5. CASE reviews[r] \in Review /\ reviews'[r].target = reviews[r].target
    BY <1>1, <1>5, NotNone
  <1>6. CASE tx[i].dst # None /\ reviews'[r].target = tx[i].dst
    <2>1. tx[i].pc = "commit"
      BY DEF Commit
    <2>2. <<"target", tx[i].dst>> \in tx[i].x
      BY <1>6, <2>1, SlotInv DEF Merging
    <2> QED BY <1>2, <1>6, <2>2
  <1> QED BY <1>3, <1>4, <1>5, <1>6, CommitReview

LEMMA CommitOthers ==
  ASSUME TxInv, TypeOK', NEW i \in Tx, Commit(i), NEW j \in Tx, j # i
  PROVE  Rightful(tx[j])'
  <1> DEFINE s == tx[j]
  <1>0. /\ s \in TxState /\ Shaped(s) /\ Posting(s) /\ Revising(s) /\ Balanced(s) /\ Merging(s)
        /\ \A r \in ReviewId : s.revs[r] # None => <<"review", r>> \in s.x
    BY SlotInv, Owns
  <1>1. tx'[j] = s /\ now' = now /\ s.who \in User \cup {None}
    BY <1>0 DEF Commit, TxInv, TypeOK, TxState
  <1>2. /\ \A r \in ReviewId : <<"review", r>> \in s.x => reviews'[r] = reviews[r]
        /\ \A t \in Target : <<"stats", t>> \in s.x => stats'[t] = stats[t]
        /\ \A t \in Target : <<"target", t>> \in s.x => targets'[t] = targets[t]
    BY CommitKeeps
  <1>3. /\ s.who # None /\ Admitted(s) => Admitted(tx[j])'
    BY <1>0, <1>1, CommitAdmitted DEF Posting
  <1>4. s.dst # None /\ s.pc \in {"agg", "write", "commit"} =>
            \A r \in ReviewId :
                reviews'[r] # None /\ reviews'[r].target = s.src => s.revs[r] # None
    BY CommitDrained
  <1> HIDE DEF s
  <1>5. Posting(tx[j])'
    <2>1. s.who # None => reviews'[s.rid] = reviews[s.rid]
      BY <1>0, <1>2 DEF Posting
    <2> QED BY <1>0, <1>1, <1>3, <2>1 DEF Posting
  <1>6. Revising(tx[j])'
    BY <1>0, <1>1, <1>2 DEF Revising
  <1>7. Balanced(tx[j])'
    <2>1. \A r \in ReviewId : s.revs[r] # None => reviews'[r] = reviews[r]
      BY <1>0, <1>2
    <2>2. s.dst = None => \A t \in Target : s.rows[t] # None => stats'[t] = stats[t]
      BY <1>0, <1>2 DEF Balanced
    <2> QED BY <1>0, <1>1, <2>1, <2>2 DEF Balanced
  <1>8. Merging(tx[j])'
    <2>1. \A r \in ReviewId : s.revs[r] # None => reviews'[r] = reviews[r]
      BY <1>0, <1>2
    <2>2. \A t \in Target : <<"target", t>> \in s.x => targets'[t] = targets[t]
      BY <1>2
    <2> QED BY <1>0, <1>1, <1>4, <2>1, <2>2 DEF Merging, Mergeable
  <1> QED BY <1>5, <1>6, <1>7, <1>8 DEF Rightful

LEMMA CommitInv ==
  ASSUME TxInv, TypeOK', NEW i \in Tx, Commit(i)
  PROVE  TxInv'
  <1>1. \A j \in Tx : tx'[j] = IF j = i THEN Idle ELSE tx[j]
    BY DEF Commit, TxInv, TypeOK
  <1>2. LocksExclusive'
    BY <1>1 DEF LocksExclusive, TxInv, Idle
  <1>3. ASSUME NEW j \in Tx
        PROVE  Rightful(tx[j])'
    <2>1. CASE j # i
      BY <2>1, CommitOthers
    <2>2. CASE j = i
      <3>1. /\ Idle.pc = "idle" /\ Idle.who = None /\ Idle.dst = None
            /\ \A r \in ReviewId : Idle.revs[r] = None
            /\ \A t \in Target : Idle.rows[t] = None /\ Idle.marks[t] = None
        BY DEF Idle
      <3>2. tx'[j] = Idle
        BY <1>1, <2>2
      <3> QED BY <3>1, <3>2 DEF Rightful, Posting, Revising, Balanced, Merging
    <2> QED BY <2>1, <2>2
  <1>4. ASSUME NEW r \in ReviewId, reviews'[r] # None
        PROVE  reviews'[r].at <= now'
    <2>1. now' = now /\ now \in Nat
      BY DEF Commit, TxInv, TypeOK
    <2>2. \A q \in Review : q # None
      BY NotNone
    <2>3. reviews[r] # None => reviews[r].at <= now
      BY DEF TxInv
    <2>4. \/ reviews'[r] = reviews[r]
          \/ reviews'[r].at = now
          \/ reviews[r] \in Review /\ reviews'[r].at = reviews[r].at
      BY CommitReview
    <2> QED BY <1>4, <2>1, <2>2, <2>3, <2>4
  <1> QED BY <1>2, <1>3, <1>4 DEF TxInv

LEMMA ProceedInv ==
  ASSUME TxInv, NEW i \in Tx, Proceed(i)
  PROVE  TxInv'
  <1>1. TypeOK'
    BY ProceedType DEF TxInv
  <1> QED BY <1>1, PostInv, ApplyStatsInv, NotifyInv, MergeInv, CommitInv DEF Proceed

LEMMA TickInv ==
  ASSUME TxInv, Tick
  PROVE  TxInv'
  <1>1. TypeOK' /\ now' = now + 1 /\ now \in Nat
    BY TickType DEF TxInv, Tick, TypeOK
  <1>2. /\ reviews' = reviews /\ stats' = stats /\ targets' = targets /\ tx' = tx
        /\ reinstated' = reinstated
    BY DEF Tick
  <1>3. ASSUME NEW i \in Tx
        PROVE  Rightful(tx[i])'
    <2>1. tx[i].pc \in {"idle", "draft"} /\ Posting(tx[i])
      BY SlotInv DEF Tick
    <2>2. tx[i].who = None
      BY <2>1 DEF Posting
    <2>3. Posting(tx[i])'
      BY <1>2, <2>2 DEF Posting
    <2>4. Revising(tx[i]) /\ Balanced(tx[i]) /\ Merging(tx[i])
      BY SlotInv
    <2>5. Revising(tx[i])'
      BY <1>2, <2>4 DEF Revising
    <2>6. Balanced(tx[i])'
      BY <1>2, <2>4 DEF Balanced
    <2>7. Merging(tx[i])'
      BY <1>2, <2>4 DEF Merging, Mergeable
    <2> QED BY <2>3, <2>5, <2>6, <2>7 DEF Rightful
  <1>4. \A r \in ReviewId : reviews'[r] # None => reviews'[r].at <= now'
    BY <1>1, <1>2 DEF TxInv, TypeOK, Review
  <1>5. LocksExclusive'
    BY <1>2 DEF TxInv, LocksExclusive
  <1> QED BY <1>1, <1>3, <1>4, <1>5 DEF TxInv

LEMMA StutterInv ==
  ASSUME TxInv, UNCHANGED vars
  PROVE  TxInv'
  <1>1. TypeOK'
    BY DEF vars, TxInv, TypeOK
  <1>2. ASSUME NEW i \in Tx
        PROVE  Rightful(tx[i])'
    <2>1. Posting(tx[i]) /\ Revising(tx[i]) /\ Balanced(tx[i]) /\ Merging(tx[i])
      BY SlotInv
    <2>2. /\ reviews' = reviews /\ stats' = stats /\ targets' = targets /\ tx' = tx
          /\ reinstated' = reinstated /\ now' = now
      BY DEF vars
    <2>3. Posting(tx[i])'
      BY <2>1, <2>2 DEF Posting, Admitted, Ledger!Barring
    <2>4. Revising(tx[i])' /\ Balanced(tx[i])'
      BY <2>1, <2>2 DEF Revising, Balanced
    <2>5. Merging(tx[i])'
      BY <2>1, <2>2 DEF Merging, Mergeable
    <2> QED BY <2>3, <2>4, <2>5 DEF Rightful
  <1>3. LocksExclusive' /\ \A r \in ReviewId : reviews'[r] # None => reviews'[r].at <= now'
    BY DEF vars, TxInv, LocksExclusive
  <1> QED BY <1>1, <1>2, <1>3 DEF TxInv

LEMMA InitInv == Init => TxInv
  <1> SUFFICES ASSUME Init PROVE TxInv
    OBVIOUS
  <1>1. TypeOK
    BY InitType
  <1>2. \A i \in Tx : tx[i] = Idle
    BY DEF Init
  <1>3. LocksExclusive
    BY <1>2 DEF LocksExclusive, Idle
  <1>4. \A r \in ReviewId : reviews[r] = None
    BY DEF Init
  <1> QED BY <1>1, <1>2, <1>3, <1>4, IdleRightful DEF TxInv

LEMMA NextInv == TxInv /\ [Next]_vars => TxInv'
  <1> SUFFICES ASSUME TxInv, [Next]_vars PROVE TxInv'
    OBVIOUS
  <1>1. ASSUME NEW i \in Tx, Begin(i) \/ Proceed(i)
        PROVE  TxInv'
    BY <1>1, BeginInv, ProceedInv
  <1>2. ASSUME NEW i \in Tx, ConnectionLost(i) \/ DeadlockAbort(i)
        PROVE  TxInv'
    BY <1>2, RollbackInv DEF ConnectionLost, DeadlockAbort
  <1> QED BY <1>1, <1>2, TickInv, StutterInv DEF Next

(* A transaction writes only rows it has locked, and what it is about to   *)
(* write is right by the committed rows, whatever the others do: the       *)
(* inductive invariant of this module.                                     *)
THEOREM TransactionsRightful == Spec => []TxInv
  BY InitInv, NextInv, PTL DEF Spec

-------------------------------------------------------------------------------
(* The limits on submissions.                                              *)

LEMMA WrittenFinite ==
  ASSUME NEW revs, NEW u, NEW time
  PROVE  IsFiniteSet(WrittenSince(revs, u, time))
  BY DataAssumption, FS_Subset DEF WrittenSince

LEMMA CommitCap ==
  ASSUME TxInv, TypeOK', DailyCap, NEW i \in Tx, Commit(i)
  PROVE  DailyCap'
  <1>1. now' = now /\ now \in Nat /\ Day \in Nat /\ MaxReviewsPerDay \in Nat
    BY DataAssumption DEF Commit, TxInv, TypeOK
  <1> SUFFICES ASSUME NEW u \in User, NEW end \in 0..now
               PROVE  Cardinality({r \in WrittenSince(reviews', u, end - Day) :
                                       reviews'[r].at <= end}) <= MaxReviewsPerDay
    BY <1>1 DEF DailyCap
  <1> DEFINE S == {r \in WrittenSince(reviews, u, end - Day) : reviews[r].at <= end}
             T == {r \in WrittenSince(reviews', u, end - Day) : reviews'[r].at <= end}
  <1>2. IsFiniteSet(S) /\ IsFiniteSet(T) /\ Cardinality(S) \in Nat /\ Cardinality(T) \in Nat
    BY WrittenFinite, FS_Subset, FS_CardinalityType
  <1>3. Cardinality(S) <= MaxReviewsPerDay
    BY DEF DailyCap
  <1>4. ASSUME NEW r \in ReviewId, reviews[r] # None
        PROVE  r \in T <=> r \in S
    <2>1. reviews[r] \in Review /\ reviews[r] # None
      BY <1>4, SlotInv
    <2>2. /\ reviews'[r] # None
          /\ reviews'[r].author = reviews[r].author /\ reviews'[r].at = reviews[r].at
      <3>1. reviews'[r] # None
        BY <2>1 DEF Commit, View
      <3> QED BY <2>1, <3>1, CommitReview
    <2> QED BY <2>1, <2>2 DEF WrittenSince
  <1>5. S \subseteq T
    BY <1>4 DEF WrittenSince
  <1>6. CASE T \subseteq S
    <2>1. T = S
      BY <1>5, <1>6
    <2>2. Cardinality(T) <= MaxReviewsPerDay
      BY <1>3, <2>1
    <2> QED BY <2>2
  <1>7. CASE \E r \in T : r \notin S
    <2>1. PICK r \in T : r \notin S
      BY <1>7
    <2>2. /\ r \in ReviewId /\ reviews'[r] # None /\ reviews'[r].author = u
          /\ reviews'[r].at <= end /\ reviews[r] = None
      BY <1>4, <2>1 DEF WrittenSince
    <2>3. /\ tx[i].who = u /\ r = tx[i].rid /\ reviews'[r].at = now /\ Admitted(tx[i])
      <3>1. reviews[r] \notin Review
        BY <2>2, NotNone
      <3> QED BY <2>2, <3>1, CommitReview
    <2>4. end = now
      BY <1>1, <2>2, <2>3
    <2>5. ASSUME NEW q \in T, q # r
          PROVE  q \in S
      <3>1. q \in ReviewId /\ reviews'[q] # None
        BY DEF WrittenSince
      <3>2. reviews[q] # None
        BY <2>3, <2>5, <3>1, CommitReview, NotNone
      <3> QED BY <1>4, <3>1, <3>2
    <2>6. T = S \cup {r}
      BY <1>5, <2>1, <2>5
    <2>7. S \subseteq WrittenSince(reviews, u, now - Day)
      BY <2>4
    <2>8. Cardinality(S) <= Cardinality(WrittenSince(reviews, u, now - Day))
      BY <2>7, WrittenFinite, FS_Subset
    <2>9. Cardinality(WrittenSince(reviews, u, now - Day)) \in Nat
      BY WrittenFinite, FS_CardinalityType
    <2>10. ~(Cardinality(WrittenSince(reviews, u, now - Day)) >= MaxReviewsPerDay)
      BY <2>3 DEF Admitted, AtDailyCap
    <2> HIDE DEF S, T
    <2>11. Cardinality(T) = Cardinality(S) + 1
      BY <1>2, <2>1, <2>6, FS_AddElement
    <2>12. Cardinality(T) <= MaxReviewsPerDay
      BY <1>1, <1>2, <2>8, <2>9, <2>10, <2>11
    <2> QED BY <2>12 DEF T
  <1> QED BY <1>6, <1>7

LEMMA TickCap ==
  ASSUME TxInv, DailyCap, Tick
  PROVE  DailyCap'
  <1>1. /\ reviews' = reviews /\ now' = now + 1 /\ now \in Nat
        /\ Day \in Nat /\ MaxReviewsPerDay \in Nat
    BY DataAssumption DEF Tick, TxInv, TypeOK
  <1> SUFFICES ASSUME NEW u \in User, NEW end \in 0..(now + 1)
               PROVE  Cardinality({r \in WrittenSince(reviews, u, end - Day) :
                                       reviews[r].at <= end}) <= MaxReviewsPerDay
    BY <1>1 DEF DailyCap
  <1>2. CASE end \in 0..now
    BY <1>2 DEF DailyCap
  <1>3. CASE end \notin 0..now
    <2> DEFINE S == {r \in WrittenSince(reviews, u, now - Day) : reviews[r].at <= now}
               T == {r \in WrittenSince(reviews, u, end - Day) : reviews[r].at <= end}
    <2>1. end = now + 1
      BY <1>1, <1>3
    <2>2. \A r \in ReviewId : reviews[r] # None => reviews[r].at \in Nat /\ reviews[r].at <= now
      BY DEF Review, TxInv, TypeOK
    <2>3. T \subseteq S
      BY <1>1, <2>1, <2>2 DEF WrittenSince
    <2>4. Cardinality(S) <= MaxReviewsPerDay
      BY <1>1 DEF DailyCap
    <2>5. IsFiniteSet(S)
      BY WrittenFinite, FS_Subset
    <2>6. /\ Cardinality(T) <= Cardinality(S)
          /\ Cardinality(S) \in Nat /\ Cardinality(T) \in Nat
      BY <2>3, <2>5, FS_Subset, FS_CardinalityType
    <2> HIDE DEF S, T
    <2>7. Cardinality(T) <= MaxReviewsPerDay
      BY <1>1, <2>4, <2>6
    <2> QED BY <2>7 DEF T
  <1> QED BY <1>2, <1>3

LEMMA CommitCooldown ==
  ASSUME TxInv, TypeOK', CooldownKept, NEW i \in Tx, Commit(i)
  PROVE  CooldownKept'
  <1> DEFINE Counts(r) == Active(reviews[r]) /\ r \notin reinstated
  <1>1. ASSUME NEW r \in ReviewId, Active(reviews'[r]), r \notin reinstated'
        PROVE  /\ r \notin reinstated
               /\ \/ /\ reviews[r] = None /\ r = tx[i].rid
                     /\ tx[i].who = reviews'[r].author /\ tx[i].src = reviews'[r].target
                     /\ reviews'[r].at = now /\ Admitted(tx[i])
                  \/ /\ Active(reviews[r]) /\ reviews[r].author = reviews'[r].author
                     /\ reviews[r].target = reviews'[r].target
                     /\ reviews[r].at = reviews'[r].at
    <2>1. r \notin reinstated
      BY <1>1 DEF Commit
    <2>2. CASE reviews'[r] = reviews[r]
      BY <1>1, <2>1, <2>2
    <2>3. CASE reviews[r] \in Review /\ reviews'[r] = tx[i].revs[r]
      <3>1. reviews[r] # None /\ tx[i].revs[r] # None
        BY <1>1, <2>3, NotNone DEF Active
      <3>2. Active(reviews[r]) /\ reviews[r].target = reviews'[r].target
        BY <1>1, <2>3, <3>1 DEF Commit
      <3>3. reviews[r].author = reviews'[r].author /\ reviews[r].at = reviews'[r].at
        BY <2>3, <3>1, CommitReview
      <3> QED BY <2>1, <3>2, <3>3
    <2>4. CASE reviews'[r] # reviews[r] /\ reviews[r] \notin Review
      BY <2>1, <2>4, CommitReview
    <2> QED BY <2>2, <2>3, <2>4, CommitReview
  <1>2. ASSUME NEW r \in ReviewId, NEW q \in ReviewId, r # q,
               Active(reviews'[r]), r \notin reinstated',
               Active(reviews'[q]), q \notin reinstated',
               reviews'[r].author = reviews'[q].author,
               reviews'[r].target = reviews'[q].target,
               reviews'[r].at - reviews'[q].at \in 0..(Cooldown - 1)
        PROVE  FALSE
    <2>1. r \notin reinstated /\ q \notin reinstated
      BY <1>1, <1>2
    <2>2. CASE Active(reviews[r]) /\ Active(reviews[q])
      <3>1. reviews[r] # None /\ reviews[q] # None
        BY <2>2 DEF Active
      <3>2. /\ reviews[r].author = reviews[q].author /\ reviews[r].target = reviews[q].target
            /\ reviews[r].at - reviews[q].at \in 0..(Cooldown - 1)
        BY <1>1, <1>2, <3>1
      <3> QED BY <1>2, <2>1, <2>2, <3>2 DEF CooldownKept
    <2>3. ASSUME NEW n \in ReviewId, NEW o \in ReviewId, n # o,
                 n \in {r, q}, o \in {r, q},
                 ~Active(reviews[n])
          PROVE  FALSE
      <3>1. /\ reviews[n] = None /\ n = tx[i].rid /\ tx[i].who = reviews'[n].author
            /\ tx[i].src = reviews'[n].target /\ reviews'[n].at = now /\ Admitted(tx[i])
        BY <1>1, <1>2, <2>3
      <3>2. /\ Active(reviews[o]) /\ reviews[o].author = reviews'[o].author
            /\ reviews[o].target = reviews'[o].target /\ reviews[o].at = reviews'[o].at
        BY <1>1, <1>2, <2>3, <3>1
      <3>3. reviews[o] # None /\ reviews[o] \in Review
        BY <3>2, SlotInv DEF Active
      <3>4. reviews[o].at \in Nat /\ reviews[o].at <= now /\ now \in Nat /\ Cooldown \in Nat
        BY <3>3, DataAssumption DEF TxInv, TypeOK, Review
      <3>5. now - reviews[o].at < Cooldown
        BY <1>2, <2>3, <3>1, <3>2, <3>4
      <3>6. o \notin reinstated
        BY <2>1, <2>3
      <3>7. Ledger!Barring[o] = reviews[o]
        BY <3>6 DEF Ledger!Barring
      <3>8. reviews[o].author = tx[i].who /\ reviews[o].target = tx[i].src
        BY <1>2, <2>3, <3>1, <3>2
      <3>9. InCooldown(Ledger!Barring, tx[i].who, tx[i].src, now)
        BY <3>2, <3>5, <3>7, <3>8 DEF InCooldown
      <3> QED BY <3>1, <3>9 DEF Admitted
    <2> QED BY <1>2, <2>2, <2>3
  <1> QED BY <1>2 DEF CooldownKept

LEMMA SameReviews ==
  ASSUME NEW i \in Tx, Begin(i) \/ Proceed(i) \/ ConnectionLost(i) \/ DeadlockAbort(i)
  PROVE  \/ Commit(i)
         \/ /\ UNCHANGED <<reviews, targets, stats, now, reinstated>>
  <1>1. ASSUME NEW state, Becomes(i, state)
        PROVE  UNCHANGED <<reviews, targets, stats, now, reinstated>>
    BY <1>1 DEF Becomes
  <1>2. ASSUME Rollback(i)
        PROVE  UNCHANGED <<reviews, targets, stats, now, reinstated>>
    BY <1>1, <1>2 DEF Rollback
  <1>3. ASSUME NEW r, NEW rv, NEW pc, NEW users, WriteReview(i, r, rv, pc, users)
        PROVE  UNCHANGED <<reviews, targets, stats, now, reinstated>>
    BY <1>1, <1>3 DEF WriteReview
  <1>4. CASE ConnectionLost(i) \/ DeadlockAbort(i)
    BY <1>2, <1>4 DEF ConnectionLost, DeadlockAbort
  <1>5. CASE Begin(i)
    <2>1. ASSUME NEW k, Update(i, k)
          PROVE  UNCHANGED <<reviews, targets, stats, now, reinstated>>
      BY <1>2, <1>3, <2>1, Zenon DEF Update
    <2>2. ASSUME NEW r, Remove(i, r)
          PROVE  UNCHANGED <<reviews, targets, stats, now, reinstated>>
      BY <1>3, <2>2, Zenon DEF Remove
    <2>3. ASSUME NEW r, NEW s, SetModerationStatus(i, r, s)
          PROVE  UNCHANGED <<reviews, targets, stats, now, reinstated>>
      BY <1>3, <2>3, Zenon DEF SetModerationStatus
    <2>4. ASSUME NEW r, NEW l, UpgradeVerification(i, r, l)
          PROVE  UNCHANGED <<reviews, targets, stats, now, reinstated>>
      BY <1>3, <2>4, Zenon DEF UpgradeVerification
    <2>5. ASSUME NEW u, NEW t, NEW r, LockUser(i, u, t, r)
          PROVE  UNCHANGED <<reviews, targets, stats, now, reinstated>>
      BY <2>5 DEF LockUser, Becomes
    <2>6. ASSUME NEW r, OpenDraft(i, r)
          PROVE  UNCHANGED <<reviews, targets, stats, now, reinstated>>
      BY <2>6 DEF OpenDraft, Becomes
    <2>7. ASSUME NEW t, NEW s, DecideTarget(i, t, s)
          PROVE  UNCHANGED <<reviews, targets, stats, now, reinstated>>
      BY <2>7 DEF DecideTarget, Becomes
    <2>8. ASSUME NEW s, NEW d, MergeTargets(i, s, d)
          PROVE  UNCHANGED <<reviews, targets, stats, now, reinstated>>
      BY <2>8 DEF MergeTargets, Becomes
    <2> QED BY <1>5, <2>1, <2>2, <2>3, <2>4, <2>5, <2>6, <2>7, <2>8
            DEF Begin, update, remove, decideReview
  <1>6. CASE Proceed(i)
    <2>1. CASE ReadTarget(i) \/ CheckPolicy(i) \/ ApplyStats(i) \/ LockSecond(i)
      BY <1>2, <2>1 DEF ReadTarget, CheckPolicy, ApplyStats, LockSecond, Becomes
    <2>2. CASE \/ \E k \in Rating : InsertReview(i, k)
               \/ \E u \in User : Notify(i, u)
               \/ \E r \in ReviewId : MoveReview(i, r)
      BY <2>2 DEF InsertReview, Notify, MoveReview, Becomes
    <2>3. CASE MarkMerged(i) \/ ReadAggregate(i) \/ WriteAggregate(i)
      BY <2>3 DEF MarkMerged, ReadAggregate, WriteAggregate, Becomes
    <2> QED BY <1>6, <2>1, <2>2, <2>3 DEF Proceed
  <1> QED BY <1>4, <1>5, <1>6

(* Every step commits, lets time pass, or changes no committed row.        *)
LEMMA StepCases ==
  ASSUME [Next]_vars
  PROVE  \/ \E i \in Tx : Commit(i)
         \/ Tick
         \/ UNCHANGED <<reviews, targets, stats, now, reinstated>>
  BY SameReviews DEF Next, vars

(* No one gets more reviews into a day than the cap, for any number of     *)
(* requests in parallel, any cap, day and clock.                           *)
THEOREM NeverOverCap == Spec => []DailyCap
  <1>1. Init => DailyCap
    <2> SUFFICES ASSUME Init, NEW u \in User, NEW end \in 0..now
                 PROVE  Cardinality({r \in WrittenSince(reviews, u, end - Day) :
                                         reviews[r].at <= end}) <= MaxReviewsPerDay
      BY DEF DailyCap
    <2>1. {r \in WrittenSince(reviews, u, end - Day) : reviews[r].at <= end} = {}
      BY DEF Init, WrittenSince
    <2>2. Cardinality({r \in WrittenSince(reviews, u, end - Day) : reviews[r].at <= end}) = 0
      BY <2>1, FS_EmptySet
    <2>3. MaxReviewsPerDay \in Nat
      BY DataAssumption
    <2> QED BY <2>2, <2>3
  <1>2. TxInv /\ TxInv' /\ DailyCap /\ [Next]_vars => DailyCap'
    <2> SUFFICES ASSUME TxInv, TxInv', DailyCap, [Next]_vars PROVE DailyCap'
      OBVIOUS
    <2>1. ASSUME UNCHANGED <<reviews, targets, stats, now, reinstated>> PROVE DailyCap'
      BY <2>1 DEF DailyCap, WrittenSince
    <2>2. TypeOK'
      BY DEF TxInv
    <2> QED BY <2>1, <2>2, StepCases, CommitCap, TickCap
  <1> QED BY <1>1, <1>2, TransactionsRightful, PTL DEF Spec

(* Two reviews of one target by one author are a cooldown apart, unless a  *)
(* moderator restored or a merge moved one of them, whatever runs in       *)
(* parallel.                                                               *)
THEOREM CooldownHeld == Spec => []CooldownKept
  <1>1. Init => CooldownKept
    BY DEF Init, CooldownKept, Active
  <1>2. TxInv /\ TxInv' /\ CooldownKept /\ [Next]_vars => CooldownKept'
    <2> SUFFICES ASSUME TxInv, TxInv', CooldownKept, [Next]_vars PROVE CooldownKept'
      OBVIOUS
    <2>1. ASSUME reviews' = reviews, reinstated' = reinstated PROVE CooldownKept'
      BY <2>1 DEF CooldownKept
    <2>2. TypeOK'
      BY DEF TxInv
    <2> QED BY <2>1, <2>2, StepCases, CommitCooldown DEF Tick
  <1> QED BY <1>1, <1>2, TransactionsRightful, PTL DEF Spec

-------------------------------------------------------------------------------
(* Edits and merges.                                                       *)

LEMMA RevisionEdits ==
  ASSUME NEW v \in Nat, NEW old \in Review, NEW new \in Review, Revision(v, old, new)
  PROVE  \/ new.rating = old.rating /\ new.version = old.version
         \/ old.version = v /\ new.version = v + 1
  BY DEF Revision, Review

(* No edit overwrites a version its author has not seen, and nothing but   *)
(* an edit changes a rating, for any operations in parallel.               *)
THEOREM EditsSeen == Spec => NoLostEdit
  <1>1. ASSUME TxInv, TxInv', [Next]_vars, NEW r \in ReviewId,
               reviews[r] # None, reviews'[r] # reviews[r]
        PROVE  \/ /\ reviews'[r].rating = reviews[r].rating
                  /\ reviews'[r].version = reviews[r].version
               \/ \E i \in Tx : /\ tx[i].rid = r /\ tx'[i].rid = None
                                /\ tx[i].ver = reviews[r].version
                                /\ reviews'[r].version = reviews[r].version + 1
    <2>1. PICK i \in Tx : Commit(i)
      BY <1>1, StepCases DEF Tick
    <2>2. TypeOK' /\ TypeOK /\ reviews[r] \in Review /\ reviews'[r] \in Review \cup {None}
          /\ tx[i].ver \in Nat
      BY <1>1 DEF TxInv, TypeOK, TxState
    <2>3. reviews'[r] = tx[i].revs[r] /\ tx[i].revs[r] # None /\ reviews'[r] \in Review
      BY <1>1, <2>1, <2>2 DEF Commit, View
    <2>4. CASE tx[i].dst # None
      <3>1. reviews'[r] = MovedTo(tx[i].dst, reviews[r]) /\ tx[i].dst \in Target
        BY <1>1, <2>3, <2>4, SlotInv DEF Merging
      <3>2. \A rv \in Review : /\ MovedTo(tx[i].dst, rv).rating = rv.rating
                               /\ MovedTo(tx[i].dst, rv).version = rv.version
        BY <3>1, MovedKeeps
      <3> QED BY <2>2, <3>1, <3>2
    <2>5. CASE tx[i].dst = None
      <3>1. tx[i].rid = r /\ Revision(tx[i].ver, reviews[r], reviews'[r])
        BY <1>1, <2>1, <2>2, <2>3, <2>5, CommitReview
      <3>2. tx'[i].rid = None
        BY <2>1, <2>2 DEF Commit, TypeOK, Idle
      <3> QED BY <2>2, <2>3, <3>1, <3>2, RevisionEdits
    <2> QED BY <2>4, <2>5
  <1>2. TxInv /\ TxInv' /\ [Next]_vars =>
          [\A r \in ReviewId :
             (reviews[r] # None /\ reviews'[r] # reviews[r]) =>
                \/ /\ reviews'[r].rating = reviews[r].rating
                   /\ reviews'[r].version = reviews[r].version
                \/ \E i \in Tx : /\ tx[i].rid = r /\ tx'[i].rid = None
                                 /\ tx[i].ver = reviews[r].version
                                 /\ reviews'[r].version = reviews[r].version + 1]_vars
    BY <1>1
  <1> QED BY <1>2, TransactionsRightful, PTL DEF Spec, NoLostEdit

(* A merge that commits marks its source, which has nothing left.          *)
LEMMA MergeCommit ==
  ASSUME TxInv, TypeOK', NEW i \in Tx, Commit(i), tx[i].dst # None
  PROVE  /\ tx[i].src \in Target /\ tx[i].dst \in Target /\ tx[i].src # tx[i].dst
         /\ targets[tx[i].src] # "merged" /\ targets[tx[i].dst] = "published"
         /\ stats'[tx[i].src] = ZeroRow
         /\ \A t \in Target \ {tx[i].src} : targets'[t] = targets[t]
         /\ \A t \in Target \ {tx[i].src, tx[i].dst} : stats'[t] = stats[t]
         /\ \A r \in ReviewId : reviews'[r] # None => reviews'[r].target # tx[i].src
  <1> DEFINE s == tx[i].src
             d == tx[i].dst
  <1>1. /\ s \in Target /\ d \in Target /\ s # d
        /\ \A t \in {s, d} : Mergeable(s, t)
        /\ \A t \in Target : tx[i].marks[t] # None => t = s
        /\ \A t \in Target : tx[i].rows[t] # None => t \in {s, d}
        /\ tx[i].rows[s] = ZeroRow /\ tx[i].rows[s] # None
        /\ \A r \in ReviewId : reviews[r] # None /\ reviews[r].target = s => tx[i].revs[r] # None
    BY SlotInv DEF Merging, Commit
  <1>2. targets[s] # "merged" /\ targets[d] = "published"
    BY <1>1 DEF Mergeable
  <1>3. stats'[s] = ZeroRow /\ \A t \in Target \ {s, d} : stats'[t] = stats[t]
    BY <1>1 DEF Commit
  <1>4. \A t \in Target \ {s} : targets'[t] = targets[t]
    BY <1>1 DEF Commit
  <1>5. ASSUME NEW r \in ReviewId, reviews'[r] # None
        PROVE  reviews'[r].target # s
    <2>1. CASE tx[i].revs[r] = None
      BY <1>1, <1>5, <2>1 DEF Commit, View
    <2>2. CASE tx[i].revs[r] # None
      <3>1. reviews'[r] = MovedTo(d, reviews[r]) /\ reviews[r] \in Review
        BY <2>2, SlotInv DEF Merging, Commit, View
      <3>2. \A rv \in Review : MovedTo(d, rv).target = d
        BY <1>1, MovedKeeps
      <3> QED BY <1>1, <3>1, <3>2
    <2> QED BY <2>1, <2>2
  <1> QED BY <1>1, <1>2, <1>3, <1>4, <1>5

LEMMA OtherCommit ==
  ASSUME TxInv, NEW i \in Tx, Commit(i), tx[i].dst = None, NEW t \in Target,
         targets'[t] = "merged"
  PROVE  targets[t] = "merged"
  BY SlotInv DEF Balanced, Commit

(* At the instant a target is merged away no review points at it, for any  *)
(* reviews posted, removed or decided meanwhile.                           *)
THEOREM NothingLeft == Spec => MergeMovesAll
  <1>1. ASSUME TxInv, TxInv', [Next]_vars, NEW t \in Target,
               targets[t] # "merged", targets'[t] = "merged",
               NEW r \in ReviewId, reviews'[r] # None
        PROVE  reviews'[r].target # t
    <2>1. PICK i \in Tx : Commit(i)
      BY <1>1, StepCases DEF Tick
    <2>2. tx[i].dst # None
      BY <1>1, <2>1, OtherCommit
    <2>3. TypeOK'
      BY <1>1 DEF TxInv
    <2>4. t = tx[i].src
      BY <1>1, <2>1, <2>2, <2>3, MergeCommit
    <2> QED BY <1>1, <2>1, <2>2, <2>3, <2>4, MergeCommit
  <1>2. TxInv /\ TxInv' /\ [Next]_vars =>
          [\A t \in Target :
             (targets[t] # "merged" /\ targets'[t] = "merged") =>
                \A r \in ReviewId : reviews'[r] # None => reviews'[r].target # t]_vars
    BY <1>1
  <1> QED BY <1>2, TransactionsRightful, PTL DEF Spec, MergeMovesAll

-------------------------------------------------------------------------------
(* The totals.                                                             *)

(* A commit that is no merge keeps the totals of a target exact.           *)
LEMMA CommitExact ==
  ASSUME TxInv, TypeOK', NEW i \in Tx, Commit(i), tx[i].dst = None,
         NEW t \in Target, stats[t] = Recount(reviews, t)
  PROVE  stats'[t] = Recount(reviews', t)
  <1> DEFINE r == tx[i].rid
             new == tx[i].revs[r]
  <1>1. Balanced(tx[i]) /\ tx[i].pc = "commit"
    BY SlotInv DEF Commit
  <1>2. \A q \in ReviewId : reviews'[q] = IF tx[i].revs[q] # None THEN tx[i].revs[q]
                                                                   ELSE reviews[q]
    BY DEF Commit, View
  <1>3. stats'[t] = IF tx[i].rows[t] # None THEN tx[i].rows[t] ELSE stats[t]
    BY DEF Commit
  <1>4. CASE \A q \in ReviewId : tx[i].revs[q] = None
    <2>1. stats'[t] = stats[t]
      BY <1>1, <1>3, <1>4 DEF Balanced
    <2>2. \A q \in ReviewId : reviews'[q] = reviews[q]
      BY <1>2, <1>4
    <2>3. Recount(reviews', t) = Recount(reviews, t)
      BY <2>2 DEF Recount, VerifiedAt, CountedAt
    <2> QED BY <2>1, <2>3
  <1>5. CASE ~ \A q \in ReviewId : tx[i].revs[q] = None
    <2>1. r \in ReviewId /\ new # None /\ \A q \in ReviewId \ {r} : tx[i].revs[q] = None
      BY <1>5, SlotInv DEF Posting, Revising
    <2>2. /\ reviews'[r] = new
          /\ \A q \in ReviewId \ {r} : reviews'[q] = reviews[q]
      BY <1>2, <2>1
    <2>3. reviews[r] # None => reviews[r].target = new.target
      BY <2>1, <2>2, CommitReview
    <2>4. tx[i].rows[new.target] # None \/ SameContribution(reviews[r], new)
      BY <1>1, <2>1 DEF Balanced
    <2>5. CASE tx[i].rows[t] # None
      <3>1. new.target = t /\ stats'[t] = Rebalanced(stats[t], reviews[r], new)
        BY <1>1, <1>3, <2>5 DEF Balanced
      <3>2. Recount(reviews', t) = Rebalanced(Recount(reviews, t), reviews[r], reviews'[r])
        BY <2>1, <2>2, <2>3, <3>1, RecountRebalanced
      <3> QED BY <2>2, <3>1, <3>2
    <2>6. CASE tx[i].rows[t] = None
      <3>1. stats'[t] = stats[t]
        BY <1>3, <2>6
      <3>2. new.target # t \/ SameContribution(reviews[r], new)
        BY <2>4, <2>6
      <3>3. Recount(reviews', t) = Recount(reviews, t)
        <4>1. /\ reviews'[r] # None
              /\ reviews[r] # None => reviews[r].target = reviews'[r].target
              /\ reviews'[r].target # t \/ SameContribution(reviews[r], reviews'[r])
          BY <2>1, <2>2, <2>3, <3>2
        <4> HIDE DEF r, new
        <4> QED BY <2>1, <2>2, <4>1, RecountSame
      <3> QED BY <3>1, <3>3
    <2> QED BY <2>5, <2>6
  <1> QED BY <1>4, <1>5

(* The totals of a target that is merged away are exact, whatever merges,  *)
(* decisions and submissions run in parallel.                              *)
THEOREM MergedAwayExact == Spec => []MergedExact
  <1>1. Init => MergedExact
    BY DEF Init, MergedExact
  <1>2. ASSUME TxInv, TypeOK', MergedExact, NEW i \in Tx, Commit(i),
               NEW t \in Target, targets'[t] = "merged"
        PROVE  stats'[t] = Recount(reviews', t)
    <2>1. CASE tx[i].dst = None
      BY <1>2, <2>1, OtherCommit, CommitExact DEF MergedExact
    <2>2. CASE tx[i].dst # None /\ t = tx[i].src
      BY <1>2, <2>2, MergeCommit, RecountEmpty
    <2>3. CASE tx[i].dst # None /\ t # tx[i].src
      <3>1. targets[t] = "merged" /\ t # tx[i].dst /\ stats'[t] = stats[t]
        <4>1. targets[t] = "merged"
          BY <1>2, <2>3, MergeCommit
        <4>2. t # tx[i].dst
          BY <1>2, <2>3, <4>1, MergeCommit
        <4> QED BY <1>2, <2>3, <4>1, <4>2, MergeCommit
      <3>2. stats[t] = Recount(reviews, t)
        BY <1>2, <3>1 DEF MergedExact
      <3>3. ASSUME NEW r \in ReviewId
            PROVE  /\ reviews'[r] = reviews[r]
                   \/ /\ reviews[r] # None => reviews[r].target # t
                      /\ reviews'[r].target # t
        <4>1. CASE tx[i].revs[r] = None
          BY <1>2, <4>1 DEF Commit, View
        <4>2. CASE tx[i].revs[r] # None
          <5>1. reviews'[r] = tx[i].revs[r] /\ reviews[r].target = tx[i].src
                /\ reviews'[r] = MovedTo(tx[i].dst, reviews[r]) /\ reviews[r] \in Review
                /\ tx[i].dst \in Target
            BY <1>2, <2>3, <4>2, SlotInv DEF Merging, Commit, View
          <5>2. \A rv \in Review : MovedTo(tx[i].dst, rv).target = tx[i].dst
            BY <5>1, MovedKeeps
          <5> QED BY <2>3, <3>1, <5>1, <5>2
        <4> QED BY <4>1, <4>2
      <3>4. \A k \in Rating : CountedAt(reviews', t, k) = CountedAt(reviews, t, k)
        BY <3>3 DEF CountedAt, Published
      <3>5. \A k \in Rating : VerifiedAt(reviews', t, k) = VerifiedAt(reviews, t, k)
        BY <3>3 DEF VerifiedAt, CountedAt, Published
      <3>6. Recount(reviews', t) = Recount(reviews, t)
        BY <3>4, <3>5 DEF Recount
      <3> QED BY <3>1, <3>2, <3>6
    <2> QED BY <2>1, <2>2, <2>3
  <1>3. TxInv /\ TxInv' /\ MergedExact /\ [Next]_vars => MergedExact'
    <2> SUFFICES ASSUME TxInv, TxInv', MergedExact, [Next]_vars PROVE MergedExact'
      OBVIOUS
    <2>1. ASSUME reviews' = reviews, stats' = stats, targets' = targets PROVE MergedExact'
      BY <2>1 DEF MergedExact, Recount, VerifiedAt, CountedAt
    <2>2. ASSUME NEW i \in Tx, Commit(i) PROVE MergedExact'
      BY <1>2, <2>2 DEF TxInv, MergedExact
    <2> QED BY <2>1, <2>2, StepCases DEF Tick
  <1> QED BY <1>1, <1>3, TransactionsRightful, PTL DEF Spec

LEMMA NoMerge ==
  ASSUME Merges = {}, TxInv, NEW i \in Tx
  PROVE  tx[i].dst = None
  BY SlotInv DEF Merging

LEMMA InitExact == Init => StatsExact
  <1> SUFFICES ASSUME Init, NEW t \in Target PROVE stats[t] = Recount(reviews, t)
    BY DEF StatsExact
  <1>1. Recount(reviews, t) = ZeroRow
    BY RecountEmpty DEF Init
  <1> QED BY <1>1 DEF Init

LEMMA NextExact ==
  ASSUME Merges = {}, TxInv, TxInv', StatsExact, [Next]_vars
  PROVE  StatsExact'
  <1>1. ASSUME reviews' = reviews, stats' = stats PROVE StatsExact'
    BY <1>1 DEF StatsExact, Recount, VerifiedAt, CountedAt
  <1>2. ASSUME NEW i \in Tx, Commit(i) PROVE StatsExact'
    BY <1>2, NoMerge, CommitExact DEF StatsExact, TxInv
  <1> QED BY <1>1, <1>2, StepCases DEF Tick

(* The totals of every target are the recount of its published reviews in  *)
(* every state, for any users, targets, reviews and connections, as long   *)
(* as no targets are merged (docs/rating-and-ranking.md section 1).        *)
THEOREM TotalsExact ==
  ASSUME Merges = {}
  PROVE  Spec => []StatsExact
  <1>1. TxInv /\ TxInv' /\ StatsExact /\ [Next]_vars => StatsExact'
    BY NextExact
  <1> QED BY <1>1, InitExact, TransactionsRightful, PTL DEF Spec

-------------------------------------------------------------------------------
(* The ledger: a commit is one of its operations, or nothing.              *)

(* The ledger speaks of the same rows and rules as the transactions.       *)
LEMMA SameData ==
  /\ Ledger!ZeroRow = ZeroRow
  /\ Ledger!levelRank = levelRank
  /\ \A rv : Ledger!Active(rv) <=> Active(rv)
  /\ \A rv : Ledger!Verified(rv) <=> Verified(rv)
  /\ \A revs, t : Ledger!Recount(revs, t) = Recount(revs, t)
  /\ \A revs, u, t, n : Ledger!InCooldown(revs, u, t, n) <=> InCooldown(revs, u, t, n)
  /\ \A revs, u, n : Ledger!AtDailyCap(revs, u, n) <=> AtDailyCap(revs, u, n)
  /\ \A u, t, k, n : Ledger!NewReview(u, t, k, n) = NewReview(u, t, k, n)
  <1>1. Ledger!ZeroRow = ZeroRow /\ Ledger!levelRank = levelRank
    BY DEF Ledger!ZeroRow, ZeroRow, Ledger!levelRank, levelRank
  <1>2. \A rv : Ledger!Active(rv) <=> Active(rv)
    BY DEF Ledger!Active, Active
  <1>3. \A rv : Ledger!Verified(rv) <=> Verified(rv)
    BY DEF Ledger!Verified, Verified, Ledger!VerifiedLevels, VerifiedLevels
  <1>4. \A revs, t : Ledger!Recount(revs, t) = Recount(revs, t)
    <2> SUFFICES ASSUME NEW revs, NEW t
                 PROVE  Ledger!Recount(revs, t) = Recount(revs, t)
      OBVIOUS
    <2>0. \A S : Ledger!Cardinality(S) = Cardinality(S)
      BY DEF Ledger!Cardinality, Cardinality
    <2>1. \A k : Ledger!CountedAt(revs, t, k) = CountedAt(revs, t, k)
      BY DEF Ledger!CountedAt, CountedAt, Ledger!Published, Published
    <2>2. \A k : Ledger!VerifiedAt(revs, t, k) = VerifiedAt(revs, t, k)
      BY <2>1, <1>3 DEF Ledger!VerifiedAt, VerifiedAt
    <2> QED BY <2>0, <2>1, <2>2 DEF Ledger!Recount, Recount
  <1>5. \A revs, u, t, n : Ledger!InCooldown(revs, u, t, n) <=> InCooldown(revs, u, t, n)
    BY <1>2 DEF Ledger!InCooldown, InCooldown
  <1>6. \A revs, u, n : Ledger!AtDailyCap(revs, u, n) <=> AtDailyCap(revs, u, n)
    <2>0. \A S : Ledger!Cardinality(S) = Cardinality(S)
      BY DEF Ledger!Cardinality, Cardinality
    <2>1. \A revs, u, n : Ledger!WrittenSince(revs, u, n) = WrittenSince(revs, u, n)
      BY DEF Ledger!WrittenSince, WrittenSince
    <2> QED BY <2>0, <2>1 DEF Ledger!AtDailyCap, AtDailyCap
  <1>7. \A u, t, k, n : Ledger!NewReview(u, t, k, n) = NewReview(u, t, k, n)
    BY DEF Ledger!NewReview, NewReview
  <1> QED BY <1>1, <1>2, <1>3, <1>4, <1>5, <1>6, <1>7

(* A commit of one review records it.                                      *)
LEMMA CommitRecord ==
  ASSUME Merges = {}, TxInv, TypeOK', StatsExact', NEW i \in Tx, Commit(i),
         NEW r \in ReviewId, r = tx[i].rid, tx[i].revs[r] # None
  PROVE  /\ Ledger!Record(r, tx[i].revs[r])
         /\ reviews'[r] = tx[i].revs[r]
  <1> DEFINE rv == tx[i].revs[r]
  <1>0. /\ tx[i].dst = None /\ \A q \in ReviewId \ {r} : tx[i].revs[q] = None
        /\ \A q \in ReviewId : reviews'[q] = IF tx[i].revs[q] # None THEN tx[i].revs[q]
                                                                     ELSE reviews[q]
        /\ reviews' = [q \in ReviewId |-> reviews'[q]]
        /\ reviews \in [ReviewId -> Review \cup {None}]
    BY NoMerge, SlotInv DEF Posting, Revising, Commit, View, TypeOK
  <1>1. reviews' = [reviews EXCEPT ![r] = rv]
    BY <1>0
  <1>2. stats' = [t \in Target |-> Recount(reviews', t)]
    <2>1. stats' = [t \in Target |-> stats'[t]]
      BY DEF Commit
    <2> QED BY <2>1 DEF StatsExact
  <1>3. reviews[r] # None => reviews[r].target = rv.target
    <2>1. \/ reviews[r] = None
          \/ reviews'[r] = tx[i].revs[r] /\ reviews'[r].target = reviews[r].target
      BY <1>0, CommitReview, Zenon
    <2> QED BY <2>1
  <1>4. reinstated' = IF reviews[r] # None /\ ~Active(reviews[r]) /\ Active(rv)
                      THEN reinstated \cup {r} ELSE reinstated
    <2> DEFINE more == {q \in ReviewId : /\ reviews[q] # None
                                         /\ tx[i].revs[q] # None
                                         /\ \/ ~Active(reviews[q]) /\ Active(tx[i].revs[q])
                                            \/ reviews[q].target # tx[i].revs[q].target}
    <2>1. reinstated' = reinstated \cup more
      BY DEF Commit
    <2>2. more = IF reviews[r] # None /\ ~Active(reviews[r]) /\ Active(rv) THEN {r} ELSE {}
      BY <1>0, <1>3
    <2> HIDE DEF more
    <2> QED BY <2>1, <2>2
  <1>5. now' = now
    BY DEF Commit
  <1> QED BY <1>0, <1>1, <1>2, <1>4, <1>5, SameData DEF Ledger!Record

LEMMA CommitLedger ==
  ASSUME Merges = {}, TxInv, TxInv', StatsExact', NEW i \in Tx, Commit(i)
  PROVE  [Ledger!Next]_<<reviews, stats, now, reinstated>>
  <1> DEFINE r == tx[i].rid
             rv == tx[i].revs[r]
  <1>0. /\ TypeOK' /\ tx[i].dst = None /\ tx[i].pc = "commit" /\ tx[i] \in TxState
        /\ Posting(tx[i]) /\ Revising(tx[i]) /\ Balanced(tx[i])
    BY NoMerge, SlotInv DEF TxInv, Commit
  <1>1. CASE \A q \in ReviewId : tx[i].revs[q] = None
    <2>1. reviews' = reviews
      <3>1. \A q \in ReviewId : reviews'[q] = reviews[q]
        BY <1>1 DEF Commit, View
      <3>2. reviews' = [q \in ReviewId |-> reviews'[q]] /\ reviews = [q \in ReviewId |-> reviews[q]]
        BY DEF TxInv, TypeOK
      <3> QED BY <3>1, <3>2
    <2>2. stats' = stats
      <3>1. \A t \in Target : tx[i].rows[t] = None
        BY <1>0, <1>1 DEF Balanced
      <3>2. \A t \in Target : stats'[t] = stats[t]
        BY <3>1 DEF Commit
      <3>3. stats' = [t \in Target |-> stats'[t]] /\ stats = [t \in Target |-> stats[t]]
        BY DEF TxInv, TypeOK
      <3> QED BY <3>2, <3>3
    <2>3. reinstated' = reinstated /\ now' = now
      BY <1>1 DEF Commit
    <2> QED BY <2>1, <2>2, <2>3
  <1>2. CASE ~ \A q \in ReviewId : tx[i].revs[q] = None
    <2>1. r \in ReviewId /\ rv # None
      BY <1>0, <1>2 DEF Posting, Revising
    <2>2. Ledger!Record(r, rv)
      BY <1>0, <2>1, CommitRecord
    <2>3. CASE tx[i].who # None
      <3>1. /\ reviews[r] = None /\ Admitted(tx[i]) /\ tx[i].src \in Target
            /\ tx[i].who \in User
            /\ \E k \in Rating : rv = NewReview(tx[i].who, tx[i].src, k, now)
        BY <1>0, <2>1, <2>3 DEF Posting, TxState
      <3>2. PICK k \in Rating : rv = NewReview(tx[i].who, tx[i].src, k, now)
        BY <3>1
      <3>3. Ledger!Post(r, tx[i].who, tx[i].src, k)
        BY <2>2, <3>1, <3>2, SameData DEF Ledger!Post, Ledger!Barring, Admitted
      <3> QED BY <2>1, <3>1, <3>3 DEF Ledger!Next
    <2>4. CASE tx[i].who = None
      <3>1. reviews[r] # None /\ Revision(tx[i].ver, reviews[r], rv)
        BY <1>0, <2>1, <2>4 DEF Revising
      <3>2. CASE /\ Active(reviews[r]) /\ reviews[r].version = tx[i].ver
                 /\ tx[i].ver < MaxVersion
                 /\ \E k \in Rating : rv = [reviews[r] EXCEPT !.rating = k,
                                                              !.version = tx[i].ver + 1]
        <4>1. PICK k \in Rating : rv = [reviews[r] EXCEPT !.rating = k,
                                                          !.version = tx[i].ver + 1]
          BY <3>2
        <4>2. rv = [reviews[r] EXCEPT !.rating = k, !.version = @ + 1]
          BY <3>2, <4>1
        <4>3. Ledger!Edit(r, k)
          BY <2>2, <3>2, <4>2, SameData DEF Ledger!Edit
        <4> QED BY <2>1, <4>3 DEF Ledger!Next
      <3>3. CASE /\ reviews[r].status # "removed"
                 /\ rv = [reviews[r] EXCEPT !.status = "removed"]
        BY <2>1, <2>2, <3>1, <3>3 DEF Ledger!Next, Ledger!Withdraw
      <3>4. CASE \E s \in Outcome : /\ reviews[r].status # s
                                    /\ rv = [reviews[r] EXCEPT !.status = s]
        BY <2>1, <2>2, <3>1, <3>4 DEF Ledger!Next, Ledger!Decide
      <3>5. CASE \E l \in UpgradeLevel : /\ levelRank[l] > levelRank[reviews[r].level]
                                         /\ rv = [reviews[r] EXCEPT !.level = l]
        BY <2>1, <2>2, <3>1, <3>5, SameData DEF Ledger!Next, Ledger!Verify
      <3> QED BY <3>1, <3>2, <3>3, <3>4, <3>5 DEF Revision
    <2> QED BY <2>3, <2>4
  <1> QED BY <1>1, <1>2

(* Without merges each committed transaction is one instantaneous          *)
(* operation of the ledger, and every other step is none: the totals       *)
(* follow the reviews at every instant a reader can look.                  *)
THEOREM LedgerKept ==
  ASSUME Merges = {}
  PROVE  Spec => ImplementsLedger
  <1>1. Init => Ledger!Init
    BY SameData DEF Init, Ledger!Init
  <1>2. /\ TxInv /\ TxInv' /\ StatsExact' /\ [Next]_vars
        => [Ledger!Next]_Ledger!vars
    <2> SUFFICES ASSUME TxInv, TxInv', StatsExact', [Next]_vars
                 PROVE  [Ledger!Next]_<<reviews, stats, now, reinstated>>
      BY DEF Ledger!vars
    <2>1. CASE Tick
      BY <2>1 DEF Tick, Ledger!Next, Ledger!Tick
    <2> QED BY <2>1, StepCases, CommitLedger
  <1>3. Spec => []StatsExact
    BY TotalsExact
  <1> QED BY <1>1, <1>2, <1>3, TransactionsRightful, PTL
          DEF Spec, ImplementsLedger, Ledger!Spec
===============================================================================
