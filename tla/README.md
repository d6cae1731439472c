# Adera: TLA+ specifications

Adera is a review platform for places and services in Ethiopia: a Go HTTP API
over PostgreSQL and object storage (`src/internal`, `src/migrations`,
`src/cmd/api`) and a React Native client (`src/mobile`). The API keeps no state
of its own. Every request runs on a pooled connection, so its concurrency is
that of PostgreSQL transactions at READ COMMITTED, plus four background loops
(`cmd/api/main.go`), plus a client that queues, retries and refreshes. That is
where these specifications look.

## 1. Inventory

Each entry gives the state kept, the operations, who calls whom, what is hard,
and what makes it correct.

**Reviews and rating totals** (`internal/reviews/repo.go`,
`internal/ratings`). State: `reviews`, and `target_rating_stats`, one row of
totals per target. Operations: `Create` (locks the author's `users` row, checks
the repeat cooldown and the daily cap, inserts, adjusts totals, notifies the
members of the business), `Update` (optimistic version), `Remove`,
`SetModerationStatusTx`, `UpgradeVerificationTx`, `statsDelta`. Called by the
HTTP handlers, moderation, media. Hard: totals maintained by increments from
five operations that run in parallel; limits checked by reading. Correct when
totals equal the recount, limits cannot be raced past, no edit is lost.

**Moderation** (`internal/moderation`). State: `reports`, `review_evidence`,
`moderation_actions`, statuses of reviews and targets. Operations: file and
resolve a report, decide a review, a target, evidence. Calls reviews and
notifications inside its transactions. Hard: decisions that meet edits, merges
and finalisations; deadlocks through the notification's foreign key. Correct
when a decision is applied once, to what the moderator saw.

**Target merge** (`internal/admin`, `MergeTargets`). State: `review_targets`
status and the target of each review. Hard: everything that reads a target's
status without locking it; totals recomputed while others adjust them. Correct
when the source is left empty and both rows of totals are exact.

**Sessions and sign-in** (`internal/auth`). State: `auth_sessions` (families of
rotated refresh tokens), `verification_tokens`, `users.password_hash`.
Operations: register, login, refresh with reuse detection, logout of one, all
or other sessions, password change and reset, codes, deactivation. Hard: rows
inserted while a revocation is under way; decisions taken on a status or a
password read before. Correct when rotation never forks, lifetimes hold, and a
revocation is final.

**User administration** (`internal/admin`, `SuspendUser`, `ReinstateUser`,
`GrantRole`; category and criterion editing). Hard: meets login and erasure.

**Privacy and erasure** (`internal/privacy`). State: `data_erasure_requests`,
`pending_object_deletions`. Operations: request, cancel, cancel on sign-in, the
erasure loop, the purge loop, export. Hard: an irreversible act on a request
that may be cancelled at the last moment; lock order opposite to login's.
Correct when an erasure happens exactly if due and not cancelled, and leaves a
tombstone.

**Media** (`internal/media`). State: `review_media`, objects in two buckets.
Operations: presign, finalise (claim, sanitise, upload, commit or undo, with
takeover of a stale claim), stale-upload cleanup, visibility sync, evidence.
Hard: no transaction spans the database and the store; crash between steps;
sync against erasure. Correct when hidden photos are not public and no object
outlives its row unqueued.

**Notifications** (`internal/notifications`). State: `notifications`,
`notification_outbox`, `device_tokens`. Operations: enqueue inside the caller's
transaction with a dedupe key, claim a batch with a visibility timeout, send,
mark delivered, retry with backoff or abandon; register and prune devices.
Hard: at-least-once delivery, lapsed claims, unguarded marks. Correct when
nothing is lost and nothing reaches a signed-out phone.

**Idempotency keys** (`internal/reviews/idempotency.go`). State:
`idempotency_keys`. Operations: begin, complete, abort, purge. Hard: a crash
between begin and complete. Correct when one key creates at most one review.

**Claims, businesses, responses** (`internal/claims`, `internal/businesses`).
State: `business_claims`, `business_members`, `user_roles`, responses.
Operations: submit, decide, revoke, respond. Hard: the role is derived from
memberships other transactions are changing. Correct when the role is held
exactly by members.

**Listing and helpful votes** (`internal/reviews/list.go`, `votes.go`). State:
the cursor the client holds, `helpful_votes`. Operations: pages of a target's
reviews in five orders, pages of one's own, vote, unvote. Hard: the list changes
between two pages, the key it is sorted by included. Correct when a walk misses
nothing that stayed in place, repeats nothing, and ends.

**Targets** (`internal/targets`). State: `review_targets` with its place and
`merged_into_id`. Operations: create, update, decide, redirect of merged
targets; ranking and nearby queries read. Hard: the city and the area are
checked together but may be changed by two requests; merges, decisions and
restorations in any order. Correct when an area lies in its city, and a link
to a merged target leads somewhere.

**Mobile offline queue** (`mobile/src/features/reviews/offline-queue.ts`) and
**mobile session middleware** (`mobile/src/auth/middleware.ts`): a persisted
queue replayed in order with retries, and single-flight refresh. Hard: lost
answers, restarts. Correct when a queued review is created once, and a lost
answer does not sign the user out.

**Rate limiter, migration runner, app-version gate, signals, categories,
locations, search, profile, pages, configuration, storage client**: small or
pure I/O; see `PROJECT.json` for what becomes of each.

## 2. Modules

| module | what it is |
|---|---|
| `ReviewData` | the data of reviews: statuses, levels, totals, `statsDelta`, the recount, cooldown and cap |
| `ReviewLedger` | abstract: every operation instantaneous; only reviews |
| `ReviewTx` | the transactions statement by statement, with row locks |
| `MCReviewTx` | instances of `ReviewTx` |
| `Sessions` | one account: status, sessions, erasure requests and every handler that changes them |
| `Media` | the photos of a review: rows, objects in two buckets, the visibility loop, erasure and the purge |
| `Evidence` | the private evidence of a review, its cleanup and its decisions |
| `AtLeastOnce` | abstract: what the outbox promises |
| `Delivery` | the outbox, the dispatchers, the device registry and the sends |
| `Submission` | the app's wizard and offline queue composed with `POST /reviews` and its idempotency keys |
| `Ownership` | claims, memberships, the owner role, and what members write |
| `Catalog` | targets, reports on them, decisions and merges |
| `Listing` | the walk of a reader through pages of reviews |
| `ReviewTxProofs`, `SessionsProofs`, `MediaProofs` (of `Media` and of `Evidence`), `DeliveryProofs`, `SubmissionProofs`, `OwnershipProofs`, `CatalogProofs`, `ListingProofs` | theorems |
| `MC*` | instances for TLC: model values, and the definitions a configuration gives to constants |

`ReviewTx` has `ReviewData` and implements `ReviewLedger`; `Delivery` implements
`AtLeastOnce`. Two modules that touch one table meet at the operation they
share: `Moderate` of `Media` and `SetModerationStatus` of `Listing` are what
`ReviewTx` does at a commit; `SignIn` and `EndSignIn` of `Delivery` what
`Sessions` does; the erasure that `Sessions` decides is carried out on files in
`Media` and on tokens in `Delivery`; a merge is in `ReviewTx` for reviews and
totals, in `Catalog` for links and reports, in `Listing` for its reader.

### ReviewTx

State: the committed rows (`reviews`, `targets`, `stats`), a clock, and for each
connection slot `tx[i]` the transaction it runs: program counter, rows written
and not yet committed (`revs`, `rows`, `tgts`), exclusive and KEY SHARE row
locks (`x`, `ks`). A commit publishes the writes and frees the locks in one
step; a rollback drops them. `reinstated` is a history variable.

| code | actions |
|---|---|
| `Create` | `LockUser`, `ReadTarget`, `CheckPolicy`, `InsertReview`, `ApplyStats`, `Notify`, `Commit` |
| `Update` | `OpenDraft` (the client loads the review), `Update`, `ApplyStats`, `Commit` |
| `Remove` | `Remove`, `ApplyStats`, `Commit` |
| `DecideReview` | `SetModerationStatus`, `ApplyStats`, `Notify`, `Commit` |
| `UpgradeVerificationTx` | `UpgradeVerification`, `ApplyStats`, `Notify`, `Commit` |
| `DecideTarget` | `DecideTarget`, `Notify`, `Commit` |
| `MergeTargets` | `MergeTargets`, `LockSecond`, `MoveReview`, `MarkMerged`, `ReadAggregate`, `WriteAggregate`, `Commit` |
| `InTx`, client, server | `Rollback`, `ConnectionLost`, `DeadlockAbort` |

PostgreSQL is external and modelled by what the code relies on: a statement
reads committed rows overlaid with the transaction's own; FOR UPDATE and UPDATE
wait and then see the latest version; a foreign key takes KEY SHARE; an
`UPDATE ... FROM (aggregate)` reads its aggregate before it waits (hence two
steps, `ReadAggregate` and `WriteAggregate`); a cycle of waits loses a member.

Left out of the data: titles, texts and criterion scores; the recommend and
return columns, which are linear in the same increments as `review_count`; the
self-heal of a missing totals row, which only an operator's DELETE could reach.
Moderators are outside `User`: `DecideReview` refuses the author.

### Sessions

State: `users.status`, the rows of `auth_sessions` and
`data_erasure_requests`, a clock, and per slot the handler in progress. `ended`
is a history variable: the families a committed sign-out was to end.

A multi-row UPDATE or DELETE is two kinds of step: `FindSessions` (the snapshot)
and `SweepRow` (lock one row, look at it again). This is the point of the
module: rows inserted after the snapshot are not found.

| code | actions |
|---|---|
| `Login` | `LoginRead`, `Reactivate`, `FindScheduled`, `CancelOnSignIn`, `Commit`, `insertSession` |
| `Refresh` | `FindSession`, `Refresh`, `Rotate`, or on reuse the sweep |
| `VerifyAccess` and the endpoint behind it | one action per endpoint (`logout`, `changePassword`, `createRequest`, ...), which starts by `VerifyAccess`; then sweep (`Logout`, `LogoutAll`, `RevokeSession`), `UpdatePassword` and sweep (`ChangePassword`), `SetStatus` and sweep (`Deactivate`), `CreateRequest`, `LockAccount` and sweep, `CancelOnSignIn` of the request named (`CancelRequest`) |
| `ConfirmPasswordReset` | `ConfirmPasswordReset`, `UpdatePassword`, sweep |
| `SuspendUser`, `ReinstateUser` | the same names |
| `RunDueErasures` | `RunDueErasures`, `Recheck`, sweep, `eraseAccount`, `Commit` |

Left out: the password hash (its checks refuse a request, its change is the
lock and the sweep that follow it); the push tokens deleted with the sessions;
verification codes (a reset starts where its code is consumed); what erasure
deletes elsewhere.

### Media

State: the rows of `review_media`, the private and the public objects, the queue
of deletions, per request slot the handler in progress, and the photo the
visibility loop is moving. No transaction spans the database and the store, so
every call to either is a step; a store call in `Flaky` may fail; `Restart`
drops everything in flight. Several photos found by one query of the loop are
moved one by one, each read when its turn comes.

| code | actions |
|---|---|
| `PresignReviewMedia` | `PresignReviewMedia`, cleanup, `CountMedia`, `InsertMedia`; `Upload` is the client's |
| `cleanupStaleUploads` | `StartCleanup`, `CleanObject`, `CleanRow` per row found |
| `FinalizeReviewMedia` | `FinalizeReviewMedia`, `Claim`, `sanitizeImage`, `PutFinal`, `PutThumb`, `MarkReady`, `RemoveStaging`, `NoteStaging`; on failure `removePublicObjects`, `ResetClaim` |
| `SyncVisibility`, `moveObject` | `SyncVisibility`, `MoveRead`, `MovePut`, `MoveRemove` per key, `MarkMoved` |
| `eraseAccount`, `PurgeQueuedObjects` | `QueueFiles`, `eraseAccount`, `PurgeObject`, `PurgeRow` |

A tick is `FinalizeWindow`; a request times out after 30 seconds, so a handler
ends within its tick. One process serves requests and runs the loops
(architecture.md, "correct for single instance"), so a restart stops both.

### Evidence

State: the row of each ticket, its file, the review's verification level, the
records of decisions, the requests in flight. Time is whether a ticket's window
is over. `PresignEvidence` (`StartEvidenceCleanup`, `RemoveObject`, `DeleteRow`,
`CountEvidence`, `InsertEvidence`), `FinalizeEvidence` (`FinalizeEvidence`, then
`Gone`, or `CheckObject` and `MarkSubmitted`), `DecideEvidence`
(`DecideEvidence` locks the row, `CommitDecision` commits the level too).

### AtLeastOnce and Delivery

`AtLeastOnce` has, per event, a state, the failed sends and whether a send
succeeded; an event is done only after a success or `MaxAttempts` failures.
`Delivery` has the rows of the outbox, the registry of phones (a set of rows, one
per token, in the order they were last seen), and what each dispatcher does.
Time is kept as the ticks left until a claim lapses, a budget
ends or an event falls due, so it needs no bound. The mapping reads an event's
state from its row; failures and successes are histories.

| code | actions |
|---|---|
| `EnqueueTx` | `EnqueueTx`, with the notification's dedupe key |
| `Dispatcher.RunOnce` | `ClaimOutboxBatch`, `Send`, `sendToToken` per phone, `FinishSend`, `EndBatch` |
| `MarkOutboxDelivered`, `retry`, `MarkOutboxAbandoned` | `MarkOutboxDelivered`, `retry`; `NotRecorded` when the statement fails |
| `RegisterDevice` with its pruning, `UnregisterDevice`, `DeviceTokensFor` | the same names |
| `SuspendUser` and deactivation, `ReinstateUser`, erasure | `Suspend`, `Reinstate`, `eraseAccount` |

`Stop` drops a dispatcher's work between any two steps. `SignIn`,
`EndSignIn`, `Suspend` and `Reinstate` stand for `Sessions`. A request
authenticated before its account was erased may still register a token, of no
sign-in. A message that the service refuses counts as
delivered, as `Send` has it.

### Submission

State on the server: `idempotency_keys`, `reviews`, the requests being handled.
On the phone: the account, the open wizards, the queue in memory (`jobs`) and
in AsyncStorage (`disk`), and the run of `processQueue`, which works on a copy.

| code | actions |
|---|---|
| `create` and `BeginIdempotent`, `CompleteIdempotent`, `AbortIdempotent` | `BeginIdempotent`, `Lookup`, `Create`, `CompleteIdempotent`, `AbortIdempotent` |
| the wizard's `submit` | `OpenWizard`, `Submit`, `SubmitOffline`, `SubmitAnswered` |
| `processQueue`, `runJob` | `processQueue`, `NextJob`, `RunJob`, `RunAnswered`, `uploadPhotos`, `RetryLater`, `Failed`, `StopRun`, `persist` |
| `retryJob`, `dismissJob`, sign-in and sign-out | the same names |

Faults: `HangUp` (the phone hears no more of a request, which may run on), `Cut`
(it stops at its next statement: its context is cancelled, which the release of
the key needs too, or the server stops), `Told` (an answer, or none), `Killed`
(the app starts again from its disk), `Unauthorized` (the access token is refused
and its refresh fails without ending the session, `middleware.ts`: a run stops
there and counts no attempt). Being offline is not to start a run.

### Ownership

State: claims, memberships, owner roles, each business and its profile, each
review's answer and its edit history, the audit trail, the requests in flight.
`Decide` is `LockClaim`, `Decide`, `GrantMember`, `GrantOwnerRole`, `Commit`;
`Revoke` is `LockClaim`, `Revoke`, `RemoveMember`, `StillOwner`, `RemoveRole`,
`Commit`; each has the row locks its statements wait for. `CreateResponse` is
`Respond`, `MayRespond`, `InsertResponse`; `UpdateResponse` is `UpdateResponse`,
`MayEdit`, `WriteResponse`; `update` of the profile is `UpdateBusiness`,
`UpdateDescription`. A text is represented by its writer. The erasure of an
account, which deletes its claims, memberships and roles, is left out.

### Catalog

State: of each target its status, `merged_into_id`, city and area; the reports
with their log of decisions; the requests in flight with the rows they locked.

| code | actions |
|---|---|
| `Create`, `Update` | `Create`; `StartUpdate` (lock, check), `CommitUpdate` |
| `DecideTarget` | `StartDecide`, `CommitDecide` |
| `FileReport` | `StartFile` (the insert, with its entry in the unique index), `CommitFile` (after its foreign-key check) |
| `ResolveReport` | `StartResolve`, `CommitResolve` |
| `MergeTargets` | `LockFirst`, `LockSecond`, `MoveReports` (waits for reports taken up and for inserts in the way; a unique violation ends it), `CommitMerge` |
| `redirectMerged`, `MergedInto`, `get` | the operators `Redirect`, `MergedInto`, `get` |

### Listing

State: the committed reviews, those whose transaction has not committed
(`writing`: `created_at` is the time of the insert, visibility that of the
commit), the votes, the walk with its cursor, the pages shown. `ReadPage` is one
query: filter, order, the row comparison with the cursor, `LIMIT n + 1`, and the
next cursor from the last row shown. `kept` is a history: the reviews that were
in the list at the same place since the walk began.


## 3. What is checked

`CHECK_DEADLOCK FALSE` everywhere: ids, versions and clocks are bounded, so an
instance ends at rest once they are used up. That requests do not hang is a
property instead (`EveryTxEnds`, `ErasureHappens`, `QueueDrains`,
`EveryEventSettles`, `QueueSettles`, `WalkEnds`), and that merges do not wait in
a circle is `WaitInOrder`.

| run | bounds | what it shows |
|---|---|---|
| `totals` | 2 users, 1 target, 2 reviews, ratings 1 and 5, 2 connections, 2 versions, no merges | `StatsExact`: totals are the recount at every instant. `NoLostEdit`. `ImplementsLedger`: every commit is one operation of the ledger |
| `merge` | 1 user, who contributed a target, 2 targets merged both ways, 2 reviews, moderators that publish reviews and hide targets; cap 1, day 1, cooldown 2, clock to 1 | `MergeMovesAll`, `MergedExact`: the source of a merge is left empty and its totals exact. `DailyCap`, `CooldownKept` under parallel submissions. `EveryTxEnds`: also when a submission, which holds its author's row, and a decision, which holds a row the submission needs and notifies that author, wait for each other and one of them is rolled back |
| `rotation` | 3 sessions, 1 request, 2 connections, every operation; TTL, lifetime, grace 1, clock to 1 | `OneHead`: a family never has two refreshable tokens. `Tombstone`, `OnlyWhenDue`: erasure happens once, if due and not cancelled, and lasts |
| `account` | 2 sessions, 2 requests, owner and erasure loop; TTL 2, lifetime 2, grace 1, clock to 3 | `LifetimeKept`. `SignInWins`: whoever gets in has no erasure scheduled. `ErasureHappens`: what stays due is carried out or cancelled |
| `photos` | 1 photo, 2 requests, get, put and remove may fail, review hidden and restored, clock to 2 | `PhotoKept`: the objects of a ready photo are never lost. `OneFinalizer`. `PhotosFollowReview`: a photo out of step with its review gets to where it belongs, unless the review is decided the other way first. `QueueDrains` |
| `push` | 2 users, 1 event, 2 phones, 2 sign-ins, 2 dispatchers, 2 attempts, visibility 2, budget 1, 1 device each | `ImplementsPromise`: the outbox implements `AtLeastOnce`. `OneSender`. `EveryEventSettles` |
| `queue` | 2 users, 1 key, 2 reviews, 2 requests, key life 2, cooldown 1, 2 attempts, clock to 2 | `OncePerKey`: reviews that one key created and acknowledged are a key's life apart. `DoneIsThere`: a job that ended as done has its review. `QueueSettles` |
| `claims` | 2 users, both moderators, 1 business, 1 review, 2 requests, 3 claims, 2 texts | `MembersApproved`, `TrailTellsStatus`, `EditsComplete`, `OnlyManagersSpeak` |
| `evidence` | 3 tickets of two kinds, 2 requests, limit 2 | `LabelEarned`: the level is the best a moderator accepted. `OneDecisionEach`, `FileKept` |
| `walk` | 3 reviews, 2 users, 2 targets, page of 1, 2 ratings, star filter, 2 changes, clock to 2 | `NoneMissed`, `InOrder`, `WalkEnds` |
| `catalog` | 3 targets, 1 user, 2 cities, 1 area, 2 requests, 2 reports, 5 calls | `AreaInCity`, `MergesLeadSomewhere`, `OpenReportsMove`, `WaitInOrder`: two merges never wait for each other, whichever way round |
| `redirect` | the same, 3 calls | violates `OldLinksRedirect`, see below |

`ImplementsPromise` and `OneSender` hold although a dispatcher's marks are not
guarded by its claim, because the send budget ends before the claim lapses
(`Budget < Visibility`, an assumption of the module; in the code it is
`dispatcherLeaseMargin`). The margin is assumed to cover the statement after
the last send.

Why these bounds are enough. An anomaly of READ COMMITTED needs two
transactions and the rows they share, so two requests and the smallest number of
rows on which they can meet; a third row where a chain or a replacement is the
point (a merge of a merge, a claim after a revoked one, a ticket beyond the
limit, a review between two pages). The second rating tells a recount from a
count. Each clock reaches both sides of the boundaries in its run (day, TTL,
lifetime, grace, upload window, key life), except that of the cooldown in
`merge`, where the clock stops before a review is old enough to allow another:
the run, like `CooldownHeld`, is about the side where it is refused. In `queue`
the cooldown is shorter than a key lives (in the code it is 30 times as long),
so that `OncePerKey` rests on the keys alone and not on the cooldown. Two attempts tell a
retry from the last. Named bounds: `MaxNow`, `MaxVersion`, `MaxCalls`,
`MaxClaims`, `MaxTexts`, `MaxReports`, `MaxChanges`, the numbers of ids, and
`RoomForSession` and `RoomForRequest`, which refuse a request that could not
find a free id. Where time matters the clock moves only between requests, as a
request lasts milliseconds and a tick minutes to days; in `Delivery`, where a
send races its own claim, time passes between sends as long as the budget lasts.

`TypeOK` of each module holds in its instances; only `totals` lists it, since
the other properties of a run read every field anyway. Operation sets (`Ops`,
`Merges`, `Outcome`, `TargetOutcome`, `UpgradeLevel`, `Flaky`, `Moderator`,
`SwitchDuringRun`) say who takes part; between them the runs take every action.

### Fairness

- `ReviewTx`: strong fairness of each slot's progress, weak fairness of the
  deadlock detector. PostgreSQL grants locks in queue order, so a statement
  whose lock is free again and again gets it; the detector runs after
  `deadlock_timeout`. Arrivals, decisions and the clock have none.
- `Sessions`: the same detector; strong fairness of the three steps that wait in
  a lock queue (`CancelOnSignIn`, `Recheck`, `eraseAccount`), so that the victim
  of a cycle does not overtake the other when it retries; strong fairness of
  `RunDueErasures`, a loop every 15 minutes; and from some time on a handler
  gives up only by its own code or as the victim of a cycle.
- `Media`: strong fairness of the start of a move and of store calls, reads
  included, that succeed (the loops run every 5 and 15 minutes and retry what failed; a call
  tried for ever succeeds in the end), weak fairness of the other steps of the
  loops, of the purge and of the second half of an erasure; from some time on
  no restart. Requests of clients have none.
- `Delivery`: weak fairness of each dispatcher and of time, strong fairness of
  sending (a batch claimed again and again is not too late every time); from
  some time on no stop and no failing statement. Phones and sends have none: a
  send may fail each time.
- `Submission`: a handler ends, a write to storage ends, the queue is drained
  again (the app starts, reconnects, comes to the foreground), and the app is
  not killed for ever. That a request succeeds is not assumed, only that it is
  not refused on every run because its token could not be refreshed (`Admitted`):
  such a refusal counts no attempt (`offline-queue.ts:237`), and with nothing
  else the job would wait for ever, its owner signed in and not told.
- `Listing`: the reader goes on asking while there is a cursor.
- `Ownership`, `Evidence`, `Catalog`: safety only; every step of theirs is a
  handler's, which ends by the timeout of its request.

### Disagreements found

One is a run: `redirect`. "MergedInto returns the surviving target a merged
target now points to, so old links can redirect" (`targets/repo.go:193`), but
after A is merged into B and B into C the link of A leads to B, which is no
longer published: 404.

The others have a configuration each that ends in a counterexample; they are
kept to be run by hand.

| configuration | what happens |
|---|---|
| `ReviewTx_drift` | A merge overwrites the destination's totals with an aggregate read before a concurrent moderation committed (`admin.go:326`): `StatsExact` fails once there are merges |
| `ReviewTx_stranded` | `Create` read the target as published, waited on the merge's row lock in its foreign-key check, and inserts on a merged target |
| `Sessions_logout` | A refresh that holds the family's head inserts a row the logout's UPDATE does not find (`service.go:386`) |
| `Sessions_suspension` | A login that read `deactivated` sets an account active after it was suspended (`service.go:215`) |
| `Sessions_grace` | Suspended and reinstated while an erasure is scheduled, the account is active and a sign-in no longer cancels the erasure (`service.go:211`) |
| `Sessions_deactivated` | The user deactivates the account and a login reactivates it while the request for its erasure, whose handler saw `deactivated`, is committing: the account is active with an erasure scheduled, against "Signing in again within ErasureGracePeriod cancels the request" (`privacy.go:157`) |
| `Media_unread` | The copy of a withheld photo is in place, the original could not be removed, and the next read fails: `moveObject` takes the original for gone, the photo is marked as moved, and the original stays public, against "a saved link stops working" (`moderation-policy.md` section 7; `visibility.go:94`) |
| `Media_interrupted` | A move stops before it is recorded and the decision is reversed meanwhile: the row agrees with the review again, so the move is not redone and the photo is not found where it is listed, against "an interrupted move is simply redone" (`visibility.go:20`) |
| `Catalog_deadlock` | A user with an open report on the source files one on the destination: the insert has its entry in the unique index and waits for the merge's row (`moderation.go:127`), the merge's update of reports waits for that entry (`admin.go:313`), and PostgreSQL fails one of them, although `MergeTargets` orders its locks "to avoid deadlocks" (`admin.go:272`) |
| `Submission_stranger` | The account changes while the queue is drained: the run took the user at its start but each request carries the token of whoever is signed in (`offline-queue.ts:189`), against the comment at 178 |
| `Submission_inflight` | A request whose context was cancelled cannot release its key: "original request still in flight" for a day (`idempotency.go:67`) |
| `Ownership_role` | Two claims of one user, one revoked while the other is approved: the role is removed though a membership is left (`claims.go:234`) |

`Sessions_suspension` is one case of a pattern: `Login` checks in one statement
and acts in another, so a sign-in that verified the old password may also insert
its session after a password reset revoked every session.

Stated in the modules and known not to hold: `Catalog!NoDeadlock`,
`Media!LinkStopsWorking` and `RestoredShown`, `Submission!UnderOwnName` when
accounts change during a run (all above); `Evidence!DecidedOnce` (the UPDATE
of a second finalization is not guarded by the status, so evidence a moderator
decided meanwhile is submitted again, `media.go:609`),
`Evidence!OriginalPreserved` (an upload finalized as its window ends loses its
file to a cleanup), `Media!ErasureTakesFiles` (a photo being moved or finalized
during the erasure leaves an object that no row and no queue names).

Seen while reading, true of the models, and refuting no sentence of the docs: a
claim left by a crash cannot be taken over to any use, because the upload's own
window is over by then (410); a restart between `PutFinal` and the commit of
`MarkReady` leaves a public image without a row; the media limit counts before it
inserts and can be overrun by parallel requests; a second approved claim whose
first is revoked leaves an approved claim without membership; a merge fails as a
whole when one user has an open report on both duplicates; a dismissed report
reopened during a merge stays on the source; a report whose insert waited for a
merge lands on the target merged away; an answer is published after its writer's
claim was revoked, if the check came before; a push goes on to phones that signed
out since the tokens were read; a review whose key was never completed can be
created again once the key is purged, and only the cooldown bars it; approving or restoring a merged
target clears its link.

## 4. What is proved

With TLAPS, for every value of the constants that satisfies the named
assumptions of the modules (`DataAssumption`, `TxAssumption`,
`SessionsAssumption`, `MediaAssumption`, `EvidenceAssumption`,
`DeliveryAssumption`, `SubmissionAssumption`, `OwnershipAssumption`,
`CatalogAssumption`, `InitialAssumption`, `ListingAssumption`). They ask for
finite sets, natural bounds, `None` outside the sets of ids, functions with the
right domain, initial targets unmerged with places that fit, and in `Delivery`
the lease margin named in section 3. Every run evaluates those of its module.

Every invariant and every action property of the passing runs, and both
refinements, are theorems. Each proof module has one inductive invariant (two
where a property holds under a hypothesis), which TLC checked before it was
proved, one lemma per action or kind of step, and a `TypeCorrect`.

| theorem | states | for |
|---|---|---|
| `ReviewTxProofs!TransactionsRightful` | `[]TxInv`, the invariant the others rest on | all |
| `NeverOverCap`, `CooldownHeld` | `[]DailyCap`, `[]CooldownKept` | all |
| `EditsSeen` | `NoLostEdit` | all |
| `NothingLeft`, `MergedAwayExact` | `MergeMovesAll`, `[]MergedExact` | all |
| `TotalsExact`, `LedgerKept` | `[]StatsExact`, `ImplementsLedger` | `Merges = {}` |
| `SessionsProofs!NeverForked`, `NeverOutlived` | `[]OneHead`, `[]LifetimeKept` | all |
| `ErasedForGood`, `ErasedWhenDue` | `[]Tombstone`, `OnlyWhenDue` | all |
| `SignInCancels` | `[]SignInWins` | `Calm` |
| `MediaProofs!NeverLost`, `FinalizedByOne` | `[]PhotoKept`, `[]OneFinalizer` | all |
| `EachDecided`, `FilesKept`, `LabelIsEarned` | `[]OneDecisionEach`, `[]FileKept`, `[]LabelEarned` of `Evidence` | all |
| `DeliveryProofs!SentByOne` | `[]OneSender` | all |
| `PromiseKept` | `ImplementsPromise` | all |
| `SubmissionProofs!KeyCreatesOnce` | `[]OncePerKey` | all |
| `DoneCreated` | `[]DoneIsThere` | `~SwitchDuringRun` |
| `OwnershipProofs!ManagedByClaim`, `TrailTells` | `[]MembersApproved`, `[]TrailTellsStatus` | all |
| `NoTextLost`, `SpokenByManagers` | `[]EditsComplete`, `OnlyManagersSpeak` | all |
| `CatalogProofs!AreasAgree`, `LinksEnd` | `[]AreaInCity`, `[]MergesLeadSomewhere` | all |
| `NoReportLeft` | `OpenReportsMove` | all |
| `MergesQueueUp` | `[]WaitInOrder` | all |
| `Decisive` | `[]DecisionsDiffer`, in no run | all |
| `ListingProofs!NothingMissed`, `Ordered` | `[]NoneMissed`, `[]InOrder` | any page size, sort and filter |

None of the three hypotheses is there for the proof's convenience; each has a
configuration that refutes the conclusion without it (section 3): merges let
totals drift (`ReviewTx_drift`); a suspension, reinstatement or deactivation by
hand can leave an erasure scheduled on an active account (`Sessions_grace`,
`Sessions_deactivated`), which `Calm` excludes; a change of account while the
queue is drained submits a job under another name and takes it for done
(`Submission_stranger`, which violates `DoneIsThere` too). The runs
that check these properties satisfy the hypotheses.

The arguments:

*Reviews.* `TypeOK` says, for each program counter, that the fields the next
statement reads are filled in (`Shaped`). `TxInv` adds that exclusive locks are
exclusive (`LocksExclusive`), that no review is dated in the future, and what
each transaction may rely on (`Rightful`): it holds the lock of every row it is
about to write, the pending review differs from the committed one only in what
its operation changes, and its pending totals are the committed ones rebalanced
by that review. Each other slot keeps its part at a commit because the row it
rests on is locked by it. The limits follow since what `CheckPolicy` found stays
true until the insert: the author's row is locked, and no other transaction adds
a review of that author. A lost edit would need a version to move under the row
lock of `Update`. A merge keeps both targets locked from before its first
`MoveReview` to its commit, so the source it marks is the one it drained, and
what it writes as its totals is the recount of no reviews. `StatsExact` follows
because a transaction's pending totals and its pending review commit together
(`RebalancedRecount`); the refinement of `ReviewLedger` uses it, since the
ledger's totals are the recount: each commit is one operation of the ledger,
every other step a stutter.

*Sessions.* `SessionsInv`: locks are exclusive; one handler at a time schedules
an erasure; what a handler read under a lock is still so (`Knows`): the head it
rotates is unrotated and locked, the request it carries out is due and
scheduled; the id of a family stays taken and its sessions share the date it
began at and end within its lifetime (`Founded`). `OneHead` and `Tombstone` are conjuncts, for each needs the
other parts to survive a commit. `CalmInv` adds that a scheduled request goes
with a deactivated or erased account, that there is one at most, and what a
login that saw `deactivated` will still cancel (`Expects`). In that calm world
an explicit cancellation never finds anything to cancel: signing in already did.

*Media.* `MediaInv`: a request at work has claimed its row in the present tick
(`Claimed`) and no other request works on it; what it has put is in the public
bucket (`Stored`); the loop removes an object only where the copy is in the
other bucket (`Moving`); when the account falls due for erasure no request of
its author is left (`Ending`). `HandlerInv` reduces a step of a request to what
it may do to others: leave ready photos in place, and leave alone the photos
other requests work on.

*Evidence.* `EvidenceInv`: no two moderators hold one ticket (`OneDecider`);
what a request will remove was expired when it was found, and what it will
submit has its file or has overrun its window (`Knows`); every decision answers
one marking (`Counted`: fewer decisions than markings while submitted). The
label is the best accepted because a commit raises it by the maximum, whatever
the order.

*Delivery.* `DeliveryInv`: the claim of an event outlives the budget of the
dispatcher that holds it (`Outlives`), so that no two hold one event
(`Exclusive`); what a dispatcher sent or failed to send is in the histories as
often as the row's attempts say (`Counted`, `Knows`). For `PromiseKept` every step is mapped to `Accept`, `Withdraw`, `Outcome` or `Record` of
`AtLeastOnce`, or to a stutter when the `Stage` of every event is unchanged.

*Submission.* `SubmissionInv`: every request is somebody's, for some key
(`Asked`), the wizard waits for one at a time (`Writing`), the queue works on a
job it has (`Held`). `KeyInv`: a request past `BeginIdempotent` has its key to
itself (`Alone`), and as long as the key of an acknowledged review lives, its row
is the one that review was created under and no request for it can create or
release any more (`Remembered`). A second request that got to create would have
found the key free, so purged, so a life later. The cooldown is not used.
`OwnInv`: whose key it is, is the same in the wizard, in the job in memory, on
disk and in the run's copy, in the request, and in the row of the key
(`OwnJob`, `OwnRequest`, `OwnKey`); it needs that the run's account is the one
signed in.

*Ownership.* `OwnershipInv`: a claim and an answer being written are locked by
one request (`Exclusive`), what it read under the lock still holds (`Knows`),
each membership has an approved claim that no revocation which found nothing to
remove is about to take back (`MembersBacked`), and an answer's present text
with its edit history are all the texts it had (`AnswersKept`).

*Targets.* `LockInv`: a target is locked by one request (`Exclusive`) and what a
request read of a row under its lock still holds at its commit (`Held`).
`AreasAgree` follows as the place is checked under the lock. `LinksEnd`: a merge
adds a link from an unmerged target to a published, hence unmerged, one, which
both locks keep so until the commit. So a set that holds the source either lacks
the destination, and the source leads out of it, or holds it, and the
destination leads nowhere; a restoration only removes a link.

*Reports.* `WaitInv`: a report is taken by one request, a merge that waits for
its second target holds only the lower one, one that waits for reports has
taken none, and a decision that holds a report waits for nothing. So each wait
of one merge for another goes to a greater target, or to one that needs no
further target, which is `WaitInOrder`. It leaves out reports being filed,
which do break it (`Catalog_deadlock`). `DrainInv`: once a
merge has taken the reports of its source, every open report on it is among
them, because a new report needs a share of the target's row and no decision
makes a report open again. That is `NoReportLeft` at its commit.

*The walk.* `KeptInv`: a review kept in place so far is either shown or comes
strictly after the cursor, with a key that its row still has. A page takes the
first of what comes after the cursor, so what it leaves is again strictly after
the new cursor; a change of a row removes the row from `kept`. `OrderInv`: the
cursor is the last key shown, and every key shown is at or before it. Both rest
on `Before` being a strict total order on keys, which the id makes it.

Only model-checked: liveness (`EveryTxEnds`, `ErasureHappens`,
`PhotosFollowReview`, `QueueDrains`, `EveryEventSettles`, `QueueSettles`,
`WalkEnds`), since fairness and ENABLED are outside the prover's reach, and the
counterexamples of section 3.

## 5. Not modelled

- Verification codes (`sendVerificationCode`, `consumeCode`,
  `RequestPasswordReset`): two requests at once leave two usable codes, the daily
  cap counts before it inserts, and a code is consumed in a transaction before
  the one that sets the password.
- The mobile session middleware: a lost answer to a refresh makes the client
  present a replaced token, which revokes its whole family.
- A commit whose acknowledgement is lost: `MarkReady` of `Media` either commits
  and is told so, or does not commit. The hash of a request under an idempotency
  key; queued helpful votes; the upload of photos by the queue beyond success or
  failure; `MarkRead` and `MarkAllRead`; the cached access token of FCM.
- The sort "relevant" (a single page), `GetListed`, aliases copied by a merge,
  edit suggestions (inserted and read by nothing that decides), reports on
  reviews (the statements of those on targets), `AddNote`.
- Rating queries, ranking, search, nearby, categories and locations, profiles,
  signals, pages and configuration: reads or single statements with nothing to
  interleave. The migration runner is one PostgreSQL advisory lock, the rate
  limiter a library's bucket behind a mutex, the version gate a comparison.
- Of what is modelled: bodies of requests and their validation, wording of
  errors, page layout, columns that constrain nothing (`PROJECT.json` names
  them per component).

What would come next: verification codes, the client's session middleware over
`Sessions`, and how far the totals may drift under a merge, so that the last
hypothesis of `TotalsExact` could be weakened.
