-------------------------------- MODULE Media ---------------------------------
(***************************************************************************)
(* The photos of one review (internal/media): rows of review_media, the    *)
(* objects behind them in a private and a public bucket, the handlers that *)
(* stage and finalize an upload, the loop that moves photos between the    *)
(* buckets as the review leaves and re-enters public view, and the erasure *)
(* of the account with the purge of what it queued (internal/privacy).     *)
(*                                                                         *)
(* No transaction spans the database and the store: every call to either   *)
(* is a step, a store call in Flaky may fail, and the process may stop     *)
(* between any two. One process serves the API and runs the loops.         *)
(***************************************************************************)
EXTENDS Naturals, FiniteSets

CONSTANTS
    Photo,          \* ids of rows of review_media
    Slot,           \* requests in progress
    None, Erased,
    MaxMedia,       \* MaxMediaPerReview
    Flaky,          \* store calls that may fail
    Outcome,        \* statuses moderation gives the review
    MaxNow          \* bound on the clock

VARIABLES
    review,         \* reviews.moderation_status
    erasure,        \* when erasure of the author was requested, or Erased
    rows,           \* review_media
    private, public,    \* the objects of each bucket
    queue,          \* pending_object_deletions
    issued,         \* when the ticket of each upload was issued
    now,
    job,            \* the request each slot runs
    sync,           \* SyncVisibility
    erasing,        \* the erasure in progress: files it has queued
    purging         \* the queued file whose object was just deleted

vars == <<review, erasure, rows, private, public, queue, issued, now, job,
          sync, erasing, purging>>

Kind == {"full", "thumb"}

PrivateObject == Photo \X (Kind \cup {"staging"})

PublicObject == Photo \X Kind

Object == ({"private"} \X PrivateObject) \cup ({"public"} \X PublicObject)

MediaRow == [status: {"staged", "processing", "ready"},
             staging: BOOLEAN,      \* staging_key is not null
             thumb: BOOLEAN,        \* thumb_key is not null
             withheld: BOOLEAN,
             created: Nat,
             claimed: Nat]          \* processing_started_at

Job == [pc: {"idle", "cleanup", "cleanRow", "count", "insert", "claim", "sanitize", "put",
             "putThumb", "ready", "undo", "undoThumb", "reset", "unstage", "noteStaging"},
        op: {None, "presign", "finalize"},
        photo: Photo \cup {None},
        thumb: BOOLEAN,
        todo: SUBSET Photo]         \* rows cleanup has still to deal with

IdleJob == [pc |-> "idle", op |-> None, photo |-> None, thumb |-> FALSE, todo |-> {}]

Move == [pc: {"idle", "read", "put", "remove", "mark"},
         photo: Photo \cup {None},
         withheld: BOOLEAN,         \* as SyncVisibility read it
         keys: SUBSET Kind]         \* objects still to move

NoMove == [pc |-> "idle", photo |-> None, withheld |-> FALSE, keys |-> {}]

TypeOK ==
    /\ review \in {"published", "hidden", "removed"}
    /\ erasure \in Nat \cup {None, Erased}
    /\ rows \in [Photo -> MediaRow \cup {None}]
    /\ private \subseteq PrivateObject
    /\ public \subseteq PublicObject
    /\ queue \subseteq Object
    /\ issued \in [Photo -> Nat \cup {None}]
    /\ now \in Nat
    /\ job \in [Slot -> Job]
    /\ sync \in Move
    /\ erasing \in (SUBSET Object) \cup {None}
    /\ purging \in Object \cup {None}

ASSUME MediaAssumption ==
    /\ MaxMedia \in Nat \ {0} /\ MaxNow \in Nat
    /\ Flaky \subseteq {"get", "put", "remove"}
    /\ Outcome \subseteq {"published", "hidden", "removed"}
    /\ None \notin Photo \cup Nat \cup MediaRow /\ Erased \notin Nat \cup {None}

Init ==
    /\ review = "published"
    /\ erasure = None
    /\ rows = [p \in Photo |-> None]
    /\ private = {} /\ public = {} /\ queue = {}
    /\ issued = [p \in Photo |-> None]
    /\ now = 0
    /\ job = [i \in Slot |-> IdleJob]
    /\ sync = NoMove
    /\ erasing = None /\ purging = None

-------------------------------------------------------------------------------
(* A tick is FinalizeWindow: an upload is stale in the tick after it began. *)
(* Handlers end within their tick (requests time out after 30 seconds), and *)
(* so do the upload tickets.                                                *)

Has(p) == rows[p] # None

Stale(p) ==
    /\ Has(p)
    /\ \/ rows[p].status = "staged" /\ rows[p].created < now
       \/ rows[p].status = "processing" /\ rows[p].claimed < now

(* Finalized, but its private original could not be removed then.          *)
Unremoved(p) == Has(p) /\ rows[p].status = "ready" /\ rows[p].staging

Keys(p) == IF rows[p].thumb THEN Kind ELSE {"full"}

Fails(call) == call \in Flaky

Goto(i, pc) == job' = [job EXCEPT ![i].pc = pc]

Leave(i) == job' = [job EXCEPT ![i] = IdleJob]

KeepStore == UNCHANGED <<private, public>>

KeepOthers == UNCHANGED <<review, erasure, queue, now, sync, erasing, purging>>

(* web.RequireAuth, requireOwnReview.                                       *)
requireOwnReview == erasure = None /\ review # "removed"

-------------------------------------------------------------------------------
(* cleanupStaleUploads: for each row found, the object and then the row,    *)
(* looked at again. A failure ends the request, unless only the original of *)
(* a finalized photo was to go.                                             *)

AfterCleanup(op) == IF op = "presign" THEN "count" ELSE "idle"

Cleaned(i, p) ==
    IF job[i].todo = {p}
    THEN IF job[i].op = "presign"
         THEN job' = [job EXCEPT ![i] = [IdleJob EXCEPT !.pc = "count", !.op = "presign"]]
         ELSE Leave(i)
    ELSE job' = [job EXCEPT ![i].pc = "cleanup", ![i].todo = @ \ {p}, ![i].photo = None]

CleanObject(i, p) ==
    /\ job[i].pc = "cleanup"
    /\ p \in job[i].todo
    /\ \/ /\ private' = private \ {<<p, "staging">>}
          /\ job' = [job EXCEPT ![i].pc = "cleanRow", ![i].photo = p]
       \/ /\ Fails("remove")
          /\ IF Unremoved(p) THEN Cleaned(i, p) ELSE Leave(i)
          /\ UNCHANGED private
    /\ UNCHANGED <<rows, public, issued>>
    /\ KeepOthers

CleanRow(i) ==
    LET p == job[i].photo
    IN  /\ job[i].pc = "cleanRow"
        /\ rows' = [rows EXCEPT ![p] =
               IF Stale(p) THEN None
               ELSE IF Unremoved(p) THEN [@ EXCEPT !.staging = FALSE] ELSE @]
        /\ Cleaned(i, p)
        /\ UNCHANGED issued
        /\ KeepStore
        /\ KeepOthers

(* The rows the query finds; with none the request goes on.                 *)
StartCleanup(i, op) ==
    LET found == {p \in Photo : Stale(p) \/ Unremoved(p)}
    IN  job' = [job EXCEPT ![i] =
            IF found # {}
            THEN [IdleJob EXCEPT !.pc = "cleanup", !.op = op, !.todo = found]
            ELSE [IdleJob EXCEPT !.pc = AfterCleanup(op),
                                 !.op = IF op = "presign" THEN op ELSE None]]

-------------------------------------------------------------------------------
(* PresignReviewMedia: the count and the insert are separate statements.    *)

PresignReviewMedia(i) ==
    /\ job[i].pc = "idle"
    /\ requireOwnReview
    /\ \E p \in Photo : issued[p] = None
    /\ StartCleanup(i, "presign")
    /\ UNCHANGED <<rows, issued>>
    /\ KeepStore
    /\ KeepOthers

CountMedia(i) ==
    /\ job[i].pc = "count"
    /\ IF Cardinality({p \in Photo : Has(p)}) >= MaxMedia THEN Leave(i) ELSE Goto(i, "insert")
    /\ UNCHANGED <<rows, issued>>
    /\ KeepStore
    /\ KeepOthers

InsertMedia(i, p) ==
    /\ job[i].pc = "insert"
    /\ issued[p] = None
    /\ issued' = [issued EXCEPT ![p] = now]
    /\ rows' = [rows EXCEPT ![p] =
           [status |-> "staged", staging |-> TRUE, thumb |-> FALSE, withheld |-> FALSE,
            created |-> now, claimed |-> 0]]
    /\ Leave(i)
    /\ KeepStore
    /\ KeepOthers

(* The client posts the file with its ticket, row or no row.                *)
Upload(p) ==
    /\ issued[p] = now
    /\ private' = private \cup {<<p, "staging">>}
    /\ UNCHANGED <<rows, public, issued, job>>
    /\ KeepOthers

-------------------------------------------------------------------------------
(* FinalizeReviewMedia.                                                     *)

(* Whoever takes over a stale claim finds the upload's window over too.     *)
FinalizeReviewMedia(i, p) ==
    /\ job[i].pc = "idle"
    /\ requireOwnReview
    /\ Has(p)
    /\ rows[p].status = "staged" \/ Stale(p)
    /\ rows' = IF rows[p].status = "processing"
               THEN [rows EXCEPT ![p].status = "staged", ![p].claimed = 0]
               ELSE rows
    /\ IF rows[p].created < now
       THEN job' = [job EXCEPT ![i] = [IdleJob EXCEPT
                !.pc = "cleanup", !.op = "finalize",
                !.todo = {q \in Photo : Stale(q) \/ Unremoved(q)}]]
       ELSE job' = [job EXCEPT ![i] = [IdleJob EXCEPT
                !.pc = "claim", !.op = "finalize", !.photo = p]]
    /\ UNCHANGED issued
    /\ KeepStore
    /\ KeepOthers

(* Mutant: the UPDATE is not guarded by the status.                         *)
ClaimAnyway(i) ==
    LET p == job[i].photo
    IN  /\ job[i].pc = "claim"
        /\ Has(p)
        /\ rows' = [rows EXCEPT ![p].status = "processing", ![p].claimed = now]
        /\ Goto(i, "sanitize")
        /\ UNCHANGED issued
        /\ KeepStore
        /\ KeepOthers

Claim(i) ==
    LET p == job[i].photo
    IN  /\ job[i].pc = "claim"
        /\ IF Has(p) /\ rows[p].status = "staged"
           THEN /\ rows' = [rows EXCEPT ![p].status = "processing", ![p].claimed = now]
                /\ Goto(i, "sanitize")
           ELSE Leave(i) /\ UNCHANGED rows
        /\ UNCHANGED issued
        /\ KeepStore
        /\ KeepOthers

(* The file may be missing or refused, or no decode slot is free.           *)
sanitizeImage(i) ==
    /\ job[i].pc = "sanitize"
    /\ \/ /\ <<job[i].photo, "staging">> \in private
          /\ \E worth \in BOOLEAN :
                 job' = [job EXCEPT ![i].pc = "put", ![i].thumb = worth]
       \/ Goto(i, "reset")
    /\ UNCHANGED <<rows, issued>>
    /\ KeepStore
    /\ KeepOthers

PutFinal(i) ==
    /\ job[i].pc = "put"
    /\ \/ /\ public' = public \cup {<<job[i].photo, "full">>}
          /\ Goto(i, IF job[i].thumb THEN "putThumb" ELSE "ready")
       \/ Fails("put") /\ Goto(i, "reset") /\ UNCHANGED public
    /\ UNCHANGED <<rows, private, issued>>
    /\ KeepOthers

(* A photo is published without its thumbnail if that fails.                *)
PutThumb(i) ==
    /\ job[i].pc = "putThumb"
    /\ \/ public' = public \cup {<<job[i].photo, "thumb">>} /\ Goto(i, "ready")
       \/ /\ Fails("put")
          /\ job' = [job EXCEPT ![i].pc = "ready", ![i].thumb = FALSE]
          /\ UNCHANGED public
    /\ UNCHANGED <<rows, private, issued>>
    /\ KeepOthers

(* The transaction that marks the row ready, or its failure.                *)
MarkReady(i) ==
    LET p == job[i].photo
    IN  /\ job[i].pc = "ready"
        /\ \/ /\ Has(p) /\ rows[p].status = "processing"
              /\ rows' = [rows EXCEPT ![p].status = "ready", ![p].thumb = job[i].thumb,
                                      ![p].claimed = 0]
              /\ Goto(i, "unstage")
           \/ Goto(i, "undo") /\ UNCHANGED rows
        /\ UNCHANGED issued
        /\ KeepStore
        /\ KeepOthers

(* removePublicObjects, best effort.                                        *)
removePublicObjects(i, key) ==
    /\ job[i].pc = IF key = "full" THEN "undo" ELSE "undoThumb"
    /\ \/ public' = public \ {<<job[i].photo, key>>}
       \/ Fails("remove") /\ UNCHANGED public
    /\ Goto(i, IF key = "full" /\ job[i].thumb THEN "undoThumb" ELSE "reset")
    /\ UNCHANGED <<rows, private, issued>>
    /\ KeepOthers

ResetClaim(i) ==
    LET p == job[i].photo
    IN  /\ job[i].pc = "reset"
        /\ rows' = IF Has(p) /\ rows[p].status = "processing"
                   THEN [rows EXCEPT ![p].status = "staged", ![p].claimed = 0]
                   ELSE rows
        /\ Leave(i)
        /\ UNCHANGED issued
        /\ KeepStore
        /\ KeepOthers

RemoveStaging(i) ==
    /\ job[i].pc = "unstage"
    /\ \/ private' = private \ {<<job[i].photo, "staging">>} /\ Goto(i, "noteStaging")
       \/ Fails("remove") /\ Leave(i) /\ UNCHANGED private
    /\ UNCHANGED <<rows, public, issued>>
    /\ KeepOthers

NoteStaging(i) ==
    LET p == job[i].photo
    IN  /\ job[i].pc = "noteStaging"
        /\ rows' = IF Unremoved(p) THEN [rows EXCEPT ![p].staging = FALSE] ELSE rows
        /\ Leave(i)
        /\ UNCHANGED issued
        /\ KeepStore
        /\ KeepOthers

-------------------------------------------------------------------------------
(* SyncVisibility, one photo at a time; a photo that fails is left for the  *)
(* next run.                                                                *)

KeepRequests == UNCHANGED <<review, erasure, queue, issued, now, job, erasing, purging>>

Misplaced(p) ==
    Has(p) /\ rows[p].status = "ready" /\ rows[p].withheld # (review # "published")

(* Mutant: the new place is recorded before the objects are moved.          *)
SyncVisibilityEarly(p) ==
    /\ sync.pc = "idle"
    /\ Misplaced(p)
    /\ sync' = [pc |-> "read", photo |-> p, withheld |-> rows[p].withheld, keys |-> Keys(p)]
    /\ rows' = [rows EXCEPT ![p].withheld = ~@]
    /\ KeepStore
    /\ KeepRequests

SyncVisibility(p) ==
    /\ sync.pc = "idle"
    /\ Misplaced(p)
    /\ sync' = [pc |-> "read", photo |-> p, withheld |-> rows[p].withheld, keys |-> Keys(p)]
    /\ UNCHANGED rows
    /\ KeepStore
    /\ KeepRequests

Key == IF "full" \in sync.keys THEN "full" ELSE "thumb"

At(withheld) == IF withheld THEN private ELSE public

Moved == IF sync.keys = {Key}
         THEN [sync EXCEPT !.pc = "mark"]
         ELSE [sync EXCEPT !.pc = "read", !.keys = @ \ {Key}]

(* Mutant: the original is removed without the copy.                        *)
MoveReadOnly ==
    /\ sync.pc = "read"
    /\ sync' = [sync EXCEPT !.pc = "remove"]
    /\ UNCHANGED rows
    /\ KeepStore
    /\ KeepRequests

(* An original that cannot be read counts as moved if the copy is there.    *)
MoveRead ==
    LET o == <<sync.photo, Key>>
    IN  /\ sync.pc = "read"
        /\ \/ o \in At(sync.withheld) /\ sync' = [sync EXCEPT !.pc = "put"]
           \/ /\ o \notin At(sync.withheld) \/ Fails("get")
              /\ sync' = IF o \in At(~sync.withheld) THEN Moved ELSE NoMove
        /\ UNCHANGED rows
        /\ KeepStore
        /\ KeepRequests

MovePut ==
    LET o == {<<sync.photo, Key>>}
    IN  /\ sync.pc = "put"
        /\ \/ /\ IF sync.withheld
                 THEN public' = public \cup o /\ UNCHANGED private
                 ELSE private' = private \cup o /\ UNCHANGED public
              /\ sync' = [sync EXCEPT !.pc = "remove"]
           \/ Fails("put") /\ sync' = NoMove /\ KeepStore
        /\ UNCHANGED rows
        /\ KeepRequests

MoveRemove ==
    LET o == {<<sync.photo, Key>>}
    IN  /\ sync.pc = "remove"
        /\ \/ /\ IF sync.withheld
                 THEN private' = private \ o /\ UNCHANGED public
                 ELSE public' = public \ o /\ UNCHANGED private
              /\ sync' = Moved
           \/ Fails("remove") /\ sync' = NoMove /\ KeepStore
        /\ UNCHANGED rows
        /\ KeepRequests

MarkMoved ==
    /\ sync.pc = "mark"
    /\ rows' = IF Has(sync.photo)
               THEN [rows EXCEPT ![sync.photo].withheld = ~sync.withheld]
               ELSE rows
    /\ sync' = NoMove
    /\ KeepStore
    /\ KeepRequests

-------------------------------------------------------------------------------
(* Erasure of the author. The sessions end with the request, days before    *)
(* the account is erased: no request or ticket of theirs is left then. The  *)
(* files are queued by one statement and the rows deleted by another.       *)

RequestErasure ==
    /\ erasure = None
    /\ erasure' = now
    /\ UNCHANGED <<review, rows, private, public, queue, issued, now, job, sync, erasing, purging>>

CancelErasure ==
    /\ erasure \in Nat
    /\ erasing = None
    /\ erasure' = None
    /\ UNCHANGED <<review, rows, private, public, queue, issued, now, job, sync, erasing, purging>>

FilesOf(p) ==
    IF ~Has(p) THEN {}
    ELSE IF rows[p].status # "ready" THEN {<<"private", <<p, "staging">>>>}
    ELSE {<<IF rows[p].withheld THEN "private" ELSE "public", <<p, k>>>> : k \in Keys(p)}

QueueFiles ==
    /\ erasure \in Nat /\ erasure < now
    /\ erasing = None
    /\ erasing' = UNION {FilesOf(p) : p \in Photo}
    /\ UNCHANGED <<review, erasure, rows, private, public, queue, issued, now, job, sync, purging>>

eraseAccount ==
    /\ erasing # None
    /\ erasure' = Erased
    /\ rows' = [p \in Photo |-> None]
    /\ queue' = queue \cup erasing
    /\ erasing' = None
    /\ UNCHANGED <<review, private, public, issued, now, job, sync, purging>>

(* Mutant: an object that is already gone is an error.                      *)
PurgeObjectPresent(o) ==
    /\ purging = None
    /\ o \in queue
    /\ o[2] \in (IF o[1] = "private" THEN private ELSE public)
    /\ private' = IF o[1] = "private" THEN private \ {o[2]} ELSE private
    /\ public' = IF o[1] = "public" THEN public \ {o[2]} ELSE public
    /\ purging' = o
    /\ UNCHANGED <<review, erasure, rows, queue, issued, now, job, sync, erasing>>

(* PurgeQueuedObjects: the object, then the row of the queue.               *)
PurgeObject(o) ==
    /\ purging = None
    /\ o \in queue
    /\ private' = IF o[1] = "private" THEN private \ {o[2]} ELSE private
    /\ public' = IF o[1] = "public" THEN public \ {o[2]} ELSE public
    /\ purging' = o
    /\ UNCHANGED <<review, erasure, rows, queue, issued, now, job, sync, erasing>>

PurgeRow ==
    /\ purging # None
    /\ queue' = queue \ {purging}
    /\ purging' = None
    /\ UNCHANGED <<review, erasure, rows, private, public, issued, now, job, sync, erasing>>

-------------------------------------------------------------------------------
(* A moderator's decision, or the author removes the review (ReviewTx).     *)
Moderate(s) ==
    /\ review # s
    /\ review' = s
    /\ UNCHANGED <<erasure, rows, private, public, queue, issued, now, job, sync, erasing, purging>>

(* The process stops and is started again.                                  *)
Restart ==
    /\ \/ \E i \in Slot : job[i].pc # "idle"
       \/ sync.pc # "idle" \/ erasing # None \/ purging # None
    /\ job' = [i \in Slot |-> IdleJob]
    /\ sync' = NoMove
    /\ erasing' = None /\ purging' = None
    /\ UNCHANGED <<review, erasure, rows, private, public, queue, issued, now>>

Tick ==
    /\ now < MaxNow
    /\ \A i \in Slot : job[i].pc = "idle"
    /\ now' = now + 1
    /\ UNCHANGED <<review, erasure, rows, private, public, queue, issued, job, sync, erasing, purging>>

Finalize(i) ==
    \/ Claim(i)
    \/ sanitizeImage(i)
    \/ PutFinal(i)
    \/ PutThumb(i)
    \/ MarkReady(i)
    \/ \E key \in Kind : removePublicObjects(i, key)
    \/ ResetClaim(i)
    \/ RemoveStaging(i)
    \/ NoteStaging(i)

Handle(i) ==
    \/ PresignReviewMedia(i)
    \/ CountMedia(i)
    \/ \E p \in Photo : InsertMedia(i, p) \/ FinalizeReviewMedia(i, p) \/ CleanObject(i, p)
    \/ CleanRow(i)
    \/ Finalize(i)

Sync ==
    \/ \E p \in Photo : SyncVisibility(p)
    \/ MoveRead
    \/ MovePut
    \/ MoveRemove
    \/ MarkMoved

Next ==
    \/ \E i \in Slot : Handle(i)
    \/ \E p \in Photo : Upload(p)
    \/ Sync
    \/ RequestErasure
    \/ CancelErasure
    \/ QueueFiles
    \/ eraseAccount
    \/ \E o \in queue : PurgeObject(o)
    \/ PurgeRow
    \/ \E s \in Outcome : Moderate(s)
    \/ Restart
    \/ Tick

Spec == Init /\ [][Next]_vars

(* The loops of cmd/api run every 5 and 15 minutes, a store call that is    *)
(* tried again and again succeeds in the end, and from some time on the     *)
(* process stays up.                                                        *)
Fairness ==
    /\ SF_vars(\E p \in Photo : SyncVisibility(p))
    /\ SF_vars(MoveRead /\ sync'.pc = "put")
    /\ WF_vars(MoveRead)
    /\ SF_vars(MovePut /\ sync'.pc = "remove")
    /\ SF_vars(MoveRemove /\ sync' = Moved)
    /\ WF_vars(MovePut) /\ WF_vars(MoveRemove)
    /\ WF_vars(MarkMoved)
    /\ WF_vars(eraseAccount)
    /\ WF_vars(\E o \in queue : PurgeObject(o))
    /\ WF_vars(PurgeRow)
    /\ <>[][Restart => Sync \/ PurgeRow \/ eraseAccount \/ \E i \in Slot : Handle(i)]_vars

FairSpec == Spec /\ Fairness

-------------------------------------------------------------------------------
(* Properties.                                                              *)

Ready(p) == Has(p) /\ rows[p].status = "ready"

Objects(p) == IF Ready(p) THEN {<<p, k>> : k \in Keys(p)} ELSE {}

(* A finalized photo is never lost: whatever fails or stops in the middle   *)
(* of finalizing, undoing or moving it, each of its objects is in one of    *)
(* the buckets (FinalizeReviewMedia, removePublicObjects, moveObject).      *)
PhotoKept ==
    \A p \in Photo : Objects(p) \subseteq public \cup private

(* One request at a time works on an upload, although a claim is released   *)
(* by its status alone and cleanup may delete the row (FinalizeReviewMedia).*)
OneFinalizer ==
    \A i, j \in Slot :
        /\ job[i].photo # None /\ job[i].photo = job[j].photo
        /\ job[i].pc \in {"sanitize", "put", "putThumb", "ready", "undo", "undoThumb", "reset"}
        /\ job[j].pc \in {"sanitize", "put", "putThumb", "ready", "undo", "undoThumb", "reset"}
        => i = j

(* The photos shown with a listed review, by their public addresses.        *)
attachMedia == {p \in Photo : Ready(p) /\ ~rows[p].withheld}

(* Where a photo belongs: out of the list and in the private bucket, or in  *)
(* the list and at its public address.                                      *)
Withheld(p) == p \notin attachMedia /\ Objects(p) \subseteq private

Shown(p) == p \in attachMedia /\ Objects(p) \subseteq public

(* A photo out of step with its review is moved where it belongs, through   *)
(* failed calls, restarts, decisions and restorations, unless the review is *)
(* decided the other way, or the photo is gone with its account, before the *)
(* move is made (SyncVisibility, attachMedia).                              *)
PhotosFollowReview ==
    \A p \in Photo :
        /\ Misplaced(p) /\ review # "published"
               ~> ~Ready(p) \/ review = "published" \/ Withheld(p)
        /\ Misplaced(p) /\ review = "published"
               ~> ~Ready(p) \/ review # "published" \/ Shown(p)

(* docs/moderation-policy.md section 7: when a review leaves public view "a *)
(* saved link stops working; restoring the review moves them back".  Both   *)
(* break when a move stops before MarkMoved and the decision is reversed:   *)
(* the row agrees with the review again and the photo is not found.  The    *)
(* first breaks also if a copy was made, the original not removed, and then *)
(* not read: MoveRead takes it for gone.                                    *)
LinkStopsWorking ==
    \A p \in Photo :
        <>[](Ready(p) /\ review # "published") => <>[](Objects(p) \cap public = {})

RestoredShown ==
    \A p \in Photo : <>[](Ready(p) /\ review = "published") => <>[]Shown(p)

(* Once an account is erased, what it queued is deleted (PurgeQueuedObjects). *)
QueueDrains == []<>(queue = {})

(* erasure.go: "Stored files are queued for deletion in the same            *)
(* transaction": nothing of an erased account stays in a bucket.            *)
ErasureTakesFiles ==
    erasure = Erased /\ queue = {} /\ sync.pc = "idle" => private = {} /\ public = {}
===============================================================================
