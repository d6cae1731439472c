------------------------------ MODULE MediaProofs ------------------------------
(***************************************************************************)
(* Theorems about the two specifications of internal/media. About Media,   *)
(* for any number of photos and requests and any outage of the store: a    *)
(* finalized photo is never lost, and one request at a time works on an    *)
(* upload. About Evidence, in the second half, for any number of tickets   *)
(* and requests: a decision answers a submission of its own, the files of  *)
(* listed evidence are kept, and the label of a review is earned.          *)
(***************************************************************************)
EXTENDS Media, Evidence, TLAPS

----------------------------------------------------------------------------
(* The inductive invariant of Media.                                       *)

Working == {"sanitize", "put", "putThumb", "ready", "undo", "undoThumb", "reset"}

AtWork(i, p) == job[i].pc \in Working /\ job[i].photo = p

(* The row of the photo a request works on is claimed, in this tick.       *)
Claimed(i) ==
    /\ job[i].pc \in Working =>
          /\ job[i].photo \in Photo
          /\ Has(job[i].photo)
          /\ rows[job[i].photo].status = "processing"
          /\ rows[job[i].photo].claimed = now
    /\ job[i].pc \in {"cleanRow", "claim", "unstage", "noteStaging"} => job[i].photo \in Photo

(* What it has put is in the public bucket.                                *)
Stored(i) ==
    /\ job[i].pc \in {"putThumb", "ready"} => <<job[i].photo, "full">> \in public
    /\ job[i].pc = "ready" /\ job[i].thumb => <<job[i].photo, "thumb">> \in public

(* A photo is moved only once it is ready, and removed only from where the *)
(* copy is not.                                                            *)
Moving ==
    /\ sync.pc # "idle" =>
          sync.photo \in Photo /\ (erasure # Erased => Ready(sync.photo))
    /\ sync.pc = "remove" /\ erasure # Erased =>
          <<sync.photo, Key>> \in At(~sync.withheld)

Due == erasure \in Nat /\ erasure < now

AtRest == \A i \in Slot : job[i].pc = "idle"

(* No request is left when the account is erased, and only then are files  *)
(* queued.                                                                 *)
Ending ==
    /\ erasing # None => Due
    /\ Due => AtRest
    /\ erasure = Erased => AtRest /\ \A p \in Photo : ~Has(p)
    /\ queue # {} => erasure = Erased

Issued == \A p \in Photo : Has(p) => issued[p] # None

MediaInv ==
    /\ TypeOK
    /\ Ending
    /\ Issued
    /\ \A i \in Slot : Claimed(i) /\ Stored(i)
    /\ OneFinalizer
    /\ Moving
    /\ PhotoKept

----------------------------------------------------------------------------
(* What the step of a request may do.                                      *)

Alive == erasure # Erased /\ ~Due

(* A step of i leaves ready photos in place, and to the requests at work   *)
(* on another photo what they have.                                        *)
HandlerStep(i) ==
    /\ Alive
    /\ \E state \in Job : job' = [job EXCEPT ![i] = state]
    /\ rows' \in [Photo -> MediaRow \cup {None}]
    /\ private' \subseteq PrivateObject
    /\ public' \subseteq PublicObject
    /\ issued' \in [Photo -> Nat \cup {None}]
    /\ Issued'
    /\ KeepOthers
    /\ \A p \in Photo :
          /\ Ready(p) => Ready(p)' /\ Keys(p)' = Keys(p)
          /\ Ready(p)' => Ready(p) \/ Objects(p)' \subseteq public'
          /\ Ready(p) => \A k \in Kind :
                /\ <<p, k>> \in public => <<p, k>> \in public'
                /\ <<p, k>> \in private => <<p, k>> \in private'
          /\ \A j \in Slot \ {i} : AtWork(j, p) =>
                /\ rows'[p] = rows[p]
                /\ \A k \in Kind : <<p, k>> \in public => <<p, k>> \in public'

(* What holds of the request that made it.                                 *)
Own(i) ==
    /\ Claimed(i)'
    /\ Stored(i)'
    /\ job'[i].pc \in Working =>
          \A j \in Slot \ {i} : ~AtWork(j, job'[i].photo)

LEMMA HandlerInv ==
  ASSUME MediaInv, NEW i \in Slot, HandlerStep(i), Own(i)
  PROVE  MediaInv'
  <1>1. PICK state \in Job : job' = [job EXCEPT ![i] = state]
    BY DEF HandlerStep
  <1>2. /\ job' \in [Slot -> Job]
        /\ \A j \in Slot \ {i} : job'[j] = job[j]
    BY <1>1 DEF MediaInv, TypeOK
  <1>3. UNCHANGED <<review, erasure, queue, now, sync, erasing, purging>>
    BY DEF HandlerStep, KeepOthers
  <1>4. TypeOK'
    BY <1>2, <1>3 DEF HandlerStep, MediaInv, TypeOK
  <1>5. Ending'
    BY <1>3 DEF HandlerStep, Alive, Due, MediaInv, Ending
  <1>6. ASSUME NEW j \in Slot PROVE Claimed(j)' /\ Stored(j)'
    <2>1. CASE j = i
      BY <2>1 DEF Own
    <2>2. CASE j # i
      <3>1. job'[j] = job[j] /\ Claimed(j) /\ Stored(j)
        BY <1>2, <2>2 DEF MediaInv
      <3>2. CASE job[j].pc \in Working
        <4> DEFINE p == job[j].photo
        <4>1. p \in Photo /\ AtWork(j, p)
          BY <3>1, <3>2 DEF Claimed, AtWork
        <4>2. rows'[p] = rows[p] /\ \A k \in Kind : <<p, k>> \in public => <<p, k>> \in public'
          BY <2>2, <4>1 DEF HandlerStep
        <4> QED BY <1>3, <3>1, <3>2, <4>1, <4>2 DEF Claimed, Stored, Working, Has, Kind
      <3>3. CASE job[j].pc \notin Working
        BY <3>1, <3>3 DEF Claimed, Stored, Working
      <3> QED BY <3>2, <3>3
    <2> QED BY <2>1, <2>2
  <1>7. OneFinalizer'
    <2> SUFFICES ASSUME NEW j \in Slot, NEW l \in Slot,
                        job'[j].photo = job'[l].photo,
                        job'[j].pc \in Working, job'[l].pc \in Working
                 PROVE  j = l
      BY DEF OneFinalizer, Working
    <2>1. CASE j = i \/ l = i
      BY <1>2, <2>1 DEF Own, AtWork
    <2>2. CASE j # i /\ l # i
      <3>1. job[j].photo # None
        BY <1>2, <2>2, MediaAssumption DEF MediaInv, Claimed
      <3> QED BY <1>2, <2>2, <3>1 DEF MediaInv, OneFinalizer, Working
    <2> QED BY <2>1, <2>2
  <1>8. Moving'
    <2>1. sync.pc # "idle" => sync.photo \in Photo /\ Ready(sync.photo)
      BY DEF HandlerStep, Alive, MediaInv, Moving
    <2>2. sync.pc # "idle" => Ready(sync.photo)'
      BY <1>3, <2>1 DEF HandlerStep
    <2>3. Key' = Key /\ Key \in Kind
      BY <1>3 DEF Key, Kind
    <2>4. sync.pc = "remove" => <<sync.photo, Key>> \in At(~sync.withheld)
      BY DEF HandlerStep, Alive, MediaInv, Moving
    <2>5. sync.pc = "remove" =>
            \/ ~sync.withheld = TRUE /\ <<sync.photo, Key>> \in private'
            \/ ~sync.withheld = FALSE /\ <<sync.photo, Key>> \in public'
      BY <2>1, <2>3, <2>4 DEF HandlerStep, At, MediaInv, TypeOK, Move
    <2>6. sync'.pc = "remove" => (<<sync.photo, Key>> \in At(~sync.withheld))'
      BY <1>3, <2>3, <2>5 DEF At
    <2> QED BY <1>3, <2>1, <2>2, <2>6 DEF Moving
  <1>9. PhotoKept'
    <2> SUFFICES ASSUME NEW p \in Photo PROVE Objects(p)' \subseteq public' \cup private'
      BY DEF PhotoKept
    <2>1. CASE Ready(p)
      <3>1. Ready(p)' /\ Keys(p)' = Keys(p) /\ Keys(p) \subseteq Kind
        BY <2>1 DEF HandlerStep, Keys, Kind
      <3>2. \A k \in Keys(p) : <<p, k>> \in public \cup private
        BY <2>1 DEF MediaInv, PhotoKept, Objects
      <3>3. \A k \in Keys(p) : <<p, k>> \in public' \cup private'
        BY <2>1, <3>1, <3>2 DEF HandlerStep
      <3> QED BY <3>1, <3>3 DEF Objects
    <2>2. CASE ~Ready(p)
      BY <2>2 DEF HandlerStep, Objects
    <2> QED BY <2>1, <2>2
  <1> QED BY <1>4, <1>5, <1>6, <1>7, <1>8, <1>9 DEF MediaInv, HandlerStep

LEMMA AliveWhen ==
  ASSUME MediaInv, NEW i \in Slot, job[i].pc # "idle" \/ erasure = None
  PROVE  Alive
  BY MediaAssumption DEF MediaInv, Ending, AtRest, Alive, Due

LEMMA IdleType == IdleJob \in Job /\ IdleJob.pc = "idle"
  BY DEF IdleJob, Job

(* A request that is at no photo, or not yet at work on one.               *)
LEMMA OwnElse ==
  ASSUME MediaInv, NEW i \in Slot, NEW state, job' = [job EXCEPT ![i] = state],
         state.pc \notin Working,
         state.pc \in {"cleanRow", "claim", "unstage", "noteStaging"} => state.photo \in Photo
  PROVE  Own(i)
  <1>1. job'[i] = state
    BY DEF MediaInv, TypeOK
  <1> QED BY <1>1 DEF Own, Claimed, Stored, Working

(* A request that goes on with its photo.                                  *)
LEMMA OwnWork ==
  ASSUME MediaInv, NEW i \in Slot, NEW state, job' = [job EXCEPT ![i] = state],
         job[i].pc \in Working, state.pc \in Working, state.photo = job[i].photo,
         rows'[state.photo] = rows[state.photo], now' = now, Stored(i)'
  PROVE  Own(i)
  <1>1. job'[i] = state
    BY DEF MediaInv, TypeOK
  <1>2. Claimed(i) /\ job[i].photo \in Photo /\ job[i].photo # None
    BY MediaAssumption DEF MediaInv, Claimed
  <1>3. Claimed(i)'
    BY <1>1, <1>2 DEF Claimed, Has, Working
  <1>4. \A j \in Slot \ {i} : ~AtWork(j, state.photo)
    BY <1>2 DEF MediaInv, OneFinalizer, AtWork, Working
  <1> QED BY <1>1, <1>3, <1>4 DEF Own

(* A step that changes no row, and in the store at most originals.         *)
LEMMA QuietStep ==
  ASSUME MediaInv, NEW i \in Slot, NEW state \in Job, job' = [job EXCEPT ![i] = state],
         Alive, KeepOthers, UNCHANGED <<rows, public, issued>>,
         private' \subseteq PrivateObject,
         \A p \in Photo, k \in Kind : <<p, k>> \in private => <<p, k>> \in private'
  PROVE  HandlerStep(i)
  <1>1. Issued' /\ public' \subseteq PublicObject /\ issued' \in [Photo -> Nat \cup {None}]
        /\ rows' \in [Photo -> MediaRow \cup {None}]
    BY DEF MediaInv, TypeOK, Issued, Has
  <1>2. \A p \in Photo : Ready(p)' = Ready(p) /\ Keys(p)' = Keys(p)
    BY DEF Ready, Has, Keys
  <1> QED BY <1>1, <1>2 DEF HandlerStep

(* A step that changes the row of one photo, which is not ready and at     *)
(* which no other request is, and leaves the store alone.                  *)
LEMMA RowStep ==
  ASSUME MediaInv, NEW i \in Slot, NEW state \in Job, job' = [job EXCEPT ![i] = state],
         Alive, KeepOthers, KeepStore,
         NEW p \in Photo, NEW entry \in MediaRow \cup {None},
         rows' = [rows EXCEPT ![p] = entry],
         issued' \in [Photo -> Nat \cup {None}],
         \A o \in Photo : issued[o] # None => issued'[o] # None,
         entry # None => issued'[p] # None,
         \A j \in Slot \ {i} : ~AtWork(j, p),
         ~Ready(p),
         entry = None \/ entry.status # "ready"
           \/ \A k \in (IF entry.thumb THEN Kind ELSE {"full"}) : <<p, k>> \in public
  PROVE  HandlerStep(i)
  <1>1. rows' \in [Photo -> MediaRow \cup {None}] /\ rows'[p] = entry
        /\ \A o \in Photo \ {p} : rows'[o] = rows[o]
    BY DEF MediaInv, TypeOK
  <1>2. Issued'
    BY <1>1 DEF MediaInv, Issued, Has
  <1>3. public' = public /\ private' = private
        /\ public \subseteq PublicObject /\ private \subseteq PrivateObject
    BY DEF KeepStore, MediaInv, TypeOK
  <1>4. \A o \in Photo \ {p} : Ready(o)' = Ready(o) /\ Keys(o)' = Keys(o)
    BY <1>1 DEF Ready, Has, Keys
  <1>5. Ready(p)' => Objects(p)' \subseteq public'
    BY <1>1, <1>3 DEF Ready, Has, Keys, Objects
  <1>6. \A o \in Photo : \A j \in Slot \ {i} : AtWork(j, o) => rows'[o] = rows[o]
    BY <1>1
  <1> QED BY <1>1, <1>2, <1>3, <1>4, <1>5, <1>6 DEF HandlerStep

(* A step that changes the public objects of the photo i works on.         *)
LEMMA StoreStep ==
  ASSUME MediaInv, NEW i \in Slot, NEW state \in Job, job' = [job EXCEPT ![i] = state],
         job[i].pc \in Working, KeepOthers, UNCHANGED <<rows, private, issued>>,
         public' \subseteq PublicObject,
         \A p \in Photo \ {job[i].photo} : \A k \in Kind :
            <<p, k>> \in public => <<p, k>> \in public'
  PROVE  HandlerStep(i)
  <1> DEFINE p == job[i].photo
  <1>1. Alive
    BY AliveWhen DEF Working
  <1>2. Issued' /\ private' \subseteq PrivateObject /\ issued' \in [Photo -> Nat \cup {None}]
        /\ rows' \in [Photo -> MediaRow \cup {None}]
    BY DEF MediaInv, TypeOK, Issued, Has
  <1>3. \A o \in Photo : Ready(o)' = Ready(o) /\ Keys(o)' = Keys(o)
    BY DEF Ready, Has, Keys
  <1>4. p \in Photo /\ ~Ready(p) /\ p # None
    BY MediaAssumption DEF MediaInv, Claimed, Ready
  <1>5. \A j \in Slot \ {i} : ~AtWork(j, p)
    BY <1>4 DEF MediaInv, OneFinalizer, AtWork, Working
  <1> HIDE DEF p
  <1>6. \A o \in Photo : Ready(o) => o # p
    BY <1>4
  <1>7. \A o \in Photo : \A j \in Slot \ {i} : AtWork(j, o) => o # p
    BY <1>5
  <1> QED BY <1>1, <1>2, <1>3, <1>6, <1>7 DEF HandlerStep, p

(* A step that drops the key of the original of a ready photo.             *)
LEMMA StagingStep ==
  ASSUME MediaInv, NEW i \in Slot, NEW state \in Job, job' = [job EXCEPT ![i] = state],
         Alive, KeepOthers, KeepStore, UNCHANGED issued,
         NEW p \in Photo, Ready(p), rows' = [rows EXCEPT ![p].staging = FALSE]
  PROVE  HandlerStep(i)
  <1> DEFINE entry == [rows[p] EXCEPT !.staging = FALSE]
  <1>0. rows[p] \in MediaRow /\ rows[p] # None
    BY DEF MediaInv, TypeOK, Ready, Has
  <1>1. /\ entry \in MediaRow /\ entry.status = rows[p].status /\ entry.thumb = rows[p].thumb
    BY <1>0 DEF MediaRow
  <1>2. rows'[p] = entry /\ \A o \in Photo \ {p} : rows'[o] = rows[o]
    BY DEF MediaInv, TypeOK
  <1> HIDE DEF entry
  <1>3. /\ rows'[p] \in MediaRow /\ rows'[p].status = rows[p].status
        /\ rows'[p].thumb = rows[p].thumb
    BY <1>1, <1>2
  <1>4. rows' \in [Photo -> MediaRow \cup {None}]
    BY <1>2, <1>3 DEF MediaInv, TypeOK
  <1>5. public' = public /\ private' = private /\ issued' = issued
        /\ public \subseteq PublicObject /\ private \subseteq PrivateObject
        /\ issued \in [Photo -> Nat \cup {None}]
    BY DEF KeepStore, MediaInv, TypeOK
  <1>6. Issued'
    BY <1>0, <1>2, <1>5 DEF MediaInv, Issued, Has
  <1>7. \A o \in Photo : (Ready(o)' => Ready(o)) /\ Keys(o)' = Keys(o)
    BY <1>0, <1>2, <1>3 DEF Ready, Has, Keys
  <1>8. \A o \in Photo : Ready(o) => Ready(o)'
    <2>1. rows'[p] # None
      <3>1. None \notin MediaRow
        BY MediaAssumption
      <3> QED BY <1>3, <3>1
    <2> QED BY <1>2, <1>3, <2>1 DEF Ready, Has
  <1>9. \A j \in Slot : ~AtWork(j, p)
    BY DEF MediaInv, Claimed, AtWork, Ready
  <1>10. \A o \in Photo : \A j \in Slot \ {i} : AtWork(j, o) => rows'[o] = rows[o]
    BY <1>2, <1>9
  <1> QED BY <1>4, <1>5, <1>6, <1>7, <1>8, <1>10 DEF HandlerStep

----------------------------------------------------------------------------
(* One lemma per action of a request.                                      *)

LEMMA StartType ==
  ASSUME NEW i \in Slot, NEW op \in {"presign", "finalize"}, StartCleanup(i, op)
  PROVE  \E state \in Job :
           /\ job' = [job EXCEPT ![i] = state]
           /\ state.pc \in {"cleanup", "count", "idle"}
  <1> DEFINE found == {p \in Photo : Stale(p) \/ Unremoved(p)}
             cleanup == [IdleJob EXCEPT !.pc = "cleanup", !.op = op, !.todo = found]
             go == [IdleJob EXCEPT !.pc = AfterCleanup(op),
                                   !.op = IF op = "presign" THEN op ELSE None]
  <1>1. cleanup \in Job /\ cleanup.pc = "cleanup"
    BY DEF IdleJob, Job
  <1>2. go \in Job /\ go.pc \in {"count", "idle"}
    BY DEF IdleJob, Job, AfterCleanup
  <1>3. job' = [job EXCEPT ![i] = cleanup] \/ job' = [job EXCEPT ![i] = go]
    BY DEF StartCleanup
  <1> HIDE DEF cleanup, go
  <1> QED BY <1>1, <1>2, <1>3

LEMMA CleanedType ==
  ASSUME MediaInv, NEW i \in Slot, NEW p \in Photo, Cleaned(i, p)
  PROVE  \E state \in Job :
           /\ job' = [job EXCEPT ![i] = state]
           /\ state.pc \in {"cleanup", "count", "idle"}
  <1>0. job[i] \in Job
    BY DEF MediaInv, TypeOK
  <1>1. CASE job' = [job EXCEPT ![i] = [IdleJob EXCEPT !.pc = "count", !.op = "presign"]]
    <2>1. [IdleJob EXCEPT !.pc = "count", !.op = "presign"] \in Job
      BY DEF IdleJob, Job
    <2> QED BY <1>1, <2>1 DEF IdleJob
  <1>2. CASE Leave(i)
    BY <1>2, IdleType DEF Leave
  <1>3. CASE job' = [job EXCEPT ![i].pc = "cleanup", ![i].todo = @ \ {p}, ![i].photo = None]
    <2> DEFINE state == [job[i] EXCEPT !.pc = "cleanup", !.todo = @ \ {p}, !.photo = None]
    <2>1. state \in Job /\ state.pc = "cleanup"
      BY <1>0 DEF Job
    <2>2. job' = [job EXCEPT ![i] = state]
      BY <1>0, <1>3 DEF MediaInv, TypeOK
    <2> HIDE DEF state
    <2> QED BY <2>1, <2>2
  <1> QED BY <1>1, <1>2, <1>3 DEF Cleaned

LEMMA GotoType ==
  ASSUME MediaInv, NEW i \in Slot, NEW pc, Goto(i, pc), [job[i] EXCEPT !.pc = pc] \in Job
  PROVE  \E state \in Job :
           /\ job' = [job EXCEPT ![i] = state]
           /\ state.pc = pc /\ state.photo = job[i].photo /\ state.thumb = job[i].thumb
  <1> DEFINE state == [job[i] EXCEPT !.pc = pc]
  <1>1. job[i] \in Job
    BY DEF MediaInv, TypeOK
  <1>2. state.pc = pc /\ state.photo = job[i].photo /\ state.thumb = job[i].thumb
    BY <1>1 DEF Job
  <1>3. job' = [job EXCEPT ![i] = state]
    BY DEF Goto, MediaInv, TypeOK
  <1> HIDE DEF state
  <1> QED BY <1>2, <1>3 DEF state

LEMMA GoStep ==
  ASSUME MediaInv, NEW i \in Slot,
         NEW pc \in {"idle", "insert", "sanitize", "put", "putThumb", "ready", "undo",
                     "undoThumb", "reset", "unstage", "noteStaging"},
         Goto(i, pc)
  PROVE  \E state \in Job :
           /\ job' = [job EXCEPT ![i] = state]
           /\ state.pc = pc /\ state.photo = job[i].photo /\ state.thumb = job[i].thumb
  <1>1. [job[i] EXCEPT !.pc = pc] \in Job
    BY DEF MediaInv, TypeOK, Job
  <1> QED BY <1>1, GotoType

LEMMA PresignStep ==
  ASSUME MediaInv, NEW i \in Slot, PresignReviewMedia(i)
  PROVE  HandlerStep(i) /\ Own(i)
  <1>1. PICK state \in Job : /\ job' = [job EXCEPT ![i] = state]
                             /\ state.pc \in {"cleanup", "count", "idle"}
    BY StartType DEF PresignReviewMedia
  <1>2. Alive
    BY AliveWhen DEF PresignReviewMedia, requireOwnReview
  <1>3. UNCHANGED <<rows, public, issued, private>> /\ KeepOthers /\ private \subseteq PrivateObject
    BY DEF PresignReviewMedia, KeepStore, MediaInv, TypeOK
  <1> QED BY <1>1, <1>2, <1>3, QuietStep, OwnElse DEF Working

LEMMA CountStep ==
  ASSUME MediaInv, NEW i \in Slot, CountMedia(i)
  PROVE  HandlerStep(i) /\ Own(i)
  <1>1. PICK state \in Job : /\ job' = [job EXCEPT ![i] = state]
                             /\ state.pc \in {"insert", "idle"}
    <2>1. CASE Leave(i)
      BY <2>1, IdleType DEF Leave
    <2>2. CASE Goto(i, "insert")
      BY <2>2, GoStep
    <2> QED BY <2>1, <2>2 DEF CountMedia
  <1>2. Alive
    BY AliveWhen DEF CountMedia
  <1>3. UNCHANGED <<rows, public, issued, private>> /\ KeepOthers /\ private \subseteq PrivateObject
    BY DEF CountMedia, KeepStore, MediaInv, TypeOK
  <1> QED BY <1>1, <1>2, <1>3, QuietStep, OwnElse DEF Working

LEMMA InsertStep ==
  ASSUME MediaInv, NEW i \in Slot, NEW p \in Photo, InsertMedia(i, p)
  PROVE  HandlerStep(i) /\ Own(i)
  <1> DEFINE entry == [status |-> "staged", staging |-> TRUE, thumb |-> FALSE, withheld |-> FALSE,
                     created |-> now, claimed |-> 0]
  <1>1. entry \in MediaRow /\ entry.status = "staged" /\ now \in Nat
    BY DEF MediaInv, TypeOK, MediaRow
  <1>2. Alive
    BY AliveWhen DEF InsertMedia
  <1>3. /\ rows' = [rows EXCEPT ![p] = entry] /\ issued' = [issued EXCEPT ![p] = now]
        /\ job' = [job EXCEPT ![i] = IdleJob] /\ KeepStore /\ KeepOthers /\ issued[p] = None
    BY DEF InsertMedia, Leave
  <1>4. ~Has(p)
    BY <1>3 DEF MediaInv, Issued
  <1>5. ~Ready(p) /\ \A j \in Slot \ {i} : ~AtWork(j, p)
    BY <1>4 DEF Ready, AtWork, MediaInv, Claimed
  <1> HIDE DEF entry
  <1>6. /\ issued' \in [Photo -> Nat \cup {None}] /\ issued'[p] # None
        /\ \A o \in Photo : issued[o] # None => issued'[o] # None
    BY <1>1, <1>3, MediaAssumption DEF MediaInv, TypeOK
  <1>7. HandlerStep(i)
    BY <1>1, <1>2, <1>3, <1>5, <1>6, IdleType, RowStep
  <1>8. Own(i)
    BY <1>3, IdleType, OwnElse DEF Working
  <1> QED BY <1>7, <1>8

LEMMA FinalizeStep ==
  ASSUME MediaInv, NEW i \in Slot, NEW p \in Photo, FinalizeReviewMedia(i, p)
  PROVE  HandlerStep(i) /\ Own(i)
  <1> DEFINE entry == [rows[p] EXCEPT !.status = "staged", !.claimed = 0]
  <1>1. Has(p) /\ rows[p] \in MediaRow
    BY DEF FinalizeReviewMedia, Has, MediaInv, TypeOK
  <1>2. Alive
    BY AliveWhen DEF FinalizeReviewMedia, requireOwnReview
  <1>3. PICK state \in Job : /\ job' = [job EXCEPT ![i] = state]
                             /\ state.pc = "cleanup" \/ (state.pc = "claim" /\ state.photo = p)
    <2>1. [IdleJob EXCEPT !.pc = "claim", !.op = "finalize", !.photo = p] \in Job
      BY DEF IdleJob, Job
    <2>2. [IdleJob EXCEPT !.pc = "cleanup", !.op = "finalize",
                          !.todo = {q \in Photo : Stale(q) \/ Unremoved(q)}] \in Job
      BY DEF IdleJob, Job
    <2> QED BY <2>1, <2>2 DEF FinalizeReviewMedia, IdleJob
  <1>4. KeepStore /\ KeepOthers /\ UNCHANGED issued
        /\ public' = public /\ private' = private /\ private \subseteq PrivateObject
    BY DEF FinalizeReviewMedia, KeepStore, MediaInv, TypeOK
  <1>5. CASE rows[p].status = "processing"
    <2>1. entry \in MediaRow /\ entry.status = "staged"
      BY <1>1 DEF MediaRow
    <2>2. rows' = [rows EXCEPT ![p] = entry]
      BY <1>1, <1>5 DEF FinalizeReviewMedia, MediaInv, TypeOK
    <2>3. Stale(p) /\ ~Ready(p)
      BY <1>5 DEF FinalizeReviewMedia, Ready
    <2>4. \A j \in Slot \ {i} : ~AtWork(j, p)
      BY <1>5, <2>3 DEF AtWork, MediaInv, TypeOK, Claimed, Stale
    <2> HIDE DEF entry
    <2>5. issued' \in [Photo -> Nat \cup {None}] /\ issued[p] # None
      BY <1>1, <1>4 DEF MediaInv, TypeOK, Issued
    <2>6. HandlerStep(i)
      BY <1>2, <1>3, <1>4, <2>1, <2>2, <2>3, <2>4, <2>5, RowStep
    <2> QED BY <1>3, <2>6, OwnElse DEF Working
  <1>6. CASE rows[p].status # "processing"
    <2>1. rows' = rows
      BY <1>6 DEF FinalizeReviewMedia
    <2>2. HandlerStep(i)
      BY <1>2, <1>3, <1>4, <2>1, QuietStep
    <2> QED BY <1>3, <2>2, OwnElse DEF Working
  <1> QED BY <1>5, <1>6

LEMMA CleanObjectStep ==
  ASSUME MediaInv, NEW i \in Slot, NEW p \in Photo, CleanObject(i, p)
  PROVE  HandlerStep(i) /\ Own(i)
  <1>1. PICK state \in Job : /\ job' = [job EXCEPT ![i] = state]
                             /\ \/ state.pc \in {"cleanup", "count", "idle"}
                                \/ state.pc = "cleanRow" /\ state.photo = p
    <2>1. CASE job' = [job EXCEPT ![i].pc = "cleanRow", ![i].photo = p]
      <3> DEFINE state == [job[i] EXCEPT !.pc = "cleanRow", !.photo = p]
      <3>1. state \in Job /\ state.pc = "cleanRow" /\ state.photo = p
        BY DEF MediaInv, TypeOK, Job
      <3>2. job' = [job EXCEPT ![i] = state]
        BY <2>1 DEF MediaInv, TypeOK
      <3> HIDE DEF state
      <3> QED BY <3>1, <3>2
    <2>2. CASE Cleaned(i, p)
      BY <2>2, CleanedType
    <2>3. CASE Leave(i)
      BY <2>3, IdleType DEF Leave
    <2> QED BY <2>1, <2>2, <2>3 DEF CleanObject
  <1>2. Alive
    BY AliveWhen DEF CleanObject
  <1>3. /\ UNCHANGED <<rows, public, issued>> /\ KeepOthers /\ private' \subseteq private
        /\ \A o \in Photo, k \in Kind : <<o, k>> \in private => <<o, k>> \in private'
    BY DEF CleanObject, Kind
  <1>4. private' \subseteq PrivateObject
    BY <1>3 DEF MediaInv, TypeOK
  <1> QED BY <1>1, <1>2, <1>3, <1>4, QuietStep, OwnElse DEF Working

LEMMA CleanRowStep ==
  ASSUME MediaInv, NEW i \in Slot, CleanRow(i)
  PROVE  HandlerStep(i) /\ Own(i)
  <1> DEFINE p == job[i].photo
  <1>1. p \in Photo /\ Alive
    BY AliveWhen DEF CleanRow, MediaInv, Claimed
  <1>2. PICK state \in Job : /\ job' = [job EXCEPT ![i] = state]
                             /\ state.pc \in {"cleanup", "count", "idle"}
    BY <1>1, CleanedType DEF CleanRow
  <1>3. KeepStore /\ KeepOthers /\ UNCHANGED issued
        /\ public' = public /\ private' = private /\ private \subseteq PrivateObject
    BY DEF CleanRow, KeepStore, MediaInv, TypeOK
  <1>4. Own(i)
    BY <1>2, OwnElse DEF Working
  <1>5. CASE Stale(p)
    <2>1. rows' = [rows EXCEPT ![p] = None]
      BY <1>5 DEF CleanRow
    <2>2. ~Ready(p) /\ \A j \in Slot \ {i} : ~AtWork(j, p)
      BY <1>5 DEF Stale, Ready, AtWork, MediaInv, TypeOK, Claimed
    <2>3. issued' \in [Photo -> Nat \cup {None}]
      BY <1>3 DEF MediaInv, TypeOK
    <2> HIDE DEF p
    <2> QED BY <1>1, <1>2, <1>3, <1>4, <2>1, <2>2, <2>3, RowStep
  <1>6. CASE ~Stale(p) /\ Unremoved(p)
    <2>1. rows' = [rows EXCEPT ![p].staging = FALSE] /\ Ready(p)
      BY <1>6 DEF CleanRow, Unremoved, Ready
    <2> HIDE DEF p
    <2> QED BY <1>1, <1>2, <1>3, <1>4, <2>1, StagingStep
  <1>7. CASE ~Stale(p) /\ ~Unremoved(p)
    <2>1. rows' = rows
      BY <1>7 DEF CleanRow, MediaInv, TypeOK
    <2> QED BY <1>1, <1>2, <1>3, <1>4, <2>1, QuietStep
  <1> QED BY <1>5, <1>6, <1>7

LEMMA ClaimStep ==
  ASSUME MediaInv, NEW i \in Slot, Claim(i)
  PROVE  HandlerStep(i) /\ Own(i)
  <1> DEFINE p == job[i].photo
             entry == [rows[p] EXCEPT !.status = "processing", !.claimed = now]
  <1>1. p \in Photo /\ Alive
    BY AliveWhen DEF Claim, MediaInv, Claimed
  <1>2. KeepStore /\ KeepOthers /\ UNCHANGED issued
        /\ public' = public /\ private' = private /\ private \subseteq PrivateObject
    BY DEF Claim, KeepStore, MediaInv, TypeOK
  <1>3. CASE Has(p) /\ rows[p].status = "staged"
    <2>1. rows[p] \in MediaRow /\ now \in Nat /\ None \notin MediaRow
      BY <1>1, <1>3, MediaAssumption DEF MediaInv, TypeOK, Has
    <2>2. entry \in MediaRow /\ entry.status = "processing" /\ entry.claimed = now
      BY <2>1 DEF MediaRow
    <2>3. rows' = [rows EXCEPT ![p] = entry]
      BY <1>1, <1>3 DEF Claim, MediaInv, TypeOK
    <2>4. ~Ready(p) /\ \A j \in Slot \ {i} : ~AtWork(j, p)
      BY <1>3 DEF Ready, AtWork, MediaInv, Claimed
    <2>5. issued' \in [Photo -> Nat \cup {None}] /\ issued[p] # None
      BY <1>1, <1>2, <1>3 DEF MediaInv, TypeOK, Issued
    <2>6. Goto(i, "sanitize")
      BY <1>3 DEF Claim
    <2> HIDE DEF entry, p
    <2>7. PICK state \in Job : job' = [job EXCEPT ![i] = state]
                               /\ state.pc = "sanitize" /\ state.photo = p
      BY <2>6, GoStep DEF p
    <2>8. HandlerStep(i)
      BY <1>1, <1>2, <2>2, <2>3, <2>4, <2>5, <2>7, RowStep
    <2>9. rows'[p] = entry /\ job'[i] = state /\ now' = now
      BY <1>1, <1>2, <2>3, <2>7 DEF MediaInv, TypeOK, KeepOthers
    <2>10. Claimed(i)' /\ Stored(i)'
      BY <1>1, <2>1, <2>2, <2>7, <2>9 DEF Claimed, Stored, Has, Working
    <2> QED BY <2>4, <2>7, <2>8, <2>9, <2>10 DEF Own
  <1>4. CASE ~(Has(p) /\ rows[p].status = "staged")
    <2>1. job' = [job EXCEPT ![i] = IdleJob] /\ rows' = rows
      BY <1>4 DEF Claim, Leave
    <2>2. HandlerStep(i)
      BY <1>1, <1>2, <2>1, IdleType, QuietStep
    <2> QED BY <2>1, <2>2, IdleType, OwnElse DEF Working
  <1> QED BY <1>3, <1>4

LEMMA SanitizeStep ==
  ASSUME MediaInv, NEW i \in Slot, sanitizeImage(i)
  PROVE  HandlerStep(i) /\ Own(i)
  <1>1. PICK state \in Job : /\ job' = [job EXCEPT ![i] = state]
                             /\ state.pc \in {"put", "reset"} /\ state.photo = job[i].photo
    <2>1. ASSUME NEW worth \in BOOLEAN, job' = [job EXCEPT ![i].pc = "put", ![i].thumb = worth]
          PROVE  \E state \in Job : /\ job' = [job EXCEPT ![i] = state]
                                   /\ state.pc = "put" /\ state.photo = job[i].photo
      <3> DEFINE state == [job[i] EXCEPT !.pc = "put", !.thumb = worth]
      <3>1. state \in Job /\ state.pc = "put" /\ state.photo = job[i].photo
        BY DEF MediaInv, TypeOK, Job
      <3>2. job' = [job EXCEPT ![i] = state]
        BY <2>1 DEF MediaInv, TypeOK
      <3> HIDE DEF state
      <3> QED BY <3>1, <3>2
    <2>2. CASE Goto(i, "reset")
      BY <2>2, GoStep
    <2> QED BY <2>1, <2>2 DEF sanitizeImage
  <1>2. Alive /\ job[i].pc = "sanitize"
    BY AliveWhen DEF sanitizeImage
  <1>3. UNCHANGED <<rows, public, issued, private>> /\ KeepOthers /\ private \subseteq PrivateObject
    BY DEF sanitizeImage, KeepStore, MediaInv, TypeOK
  <1>4. Stored(i)'
    BY <1>1 DEF Stored, MediaInv, TypeOK
  <1>5. Own(i)
    BY <1>1, <1>2, <1>3, <1>4, OwnWork DEF Working, KeepOthers
  <1> QED BY <1>1, <1>2, <1>3, <1>5, QuietStep

LEMMA PutFinalStep ==
  ASSUME MediaInv, NEW i \in Slot, PutFinal(i)
  PROVE  HandlerStep(i) /\ Own(i)
  <1> DEFINE p == job[i].photo
  <1>1. p \in Photo /\ job[i].pc = "put" /\ KeepOthers /\ UNCHANGED <<rows, private, issued>>
    BY DEF PutFinal, MediaInv, Claimed, Working
  <1>2. public' \subseteq PublicObject /\ \A o \in public : o \in public'
    BY <1>1 DEF PutFinal, PublicObject, Kind, MediaInv, TypeOK
  <1>3. PICK state \in Job :
          /\ job' = [job EXCEPT ![i] = state] /\ state.photo = p
          /\ \/ state.pc = "reset"
             \/ state.pc = "putThumb" /\ <<p, "full">> \in public'
             \/ state.pc = "ready" /\ ~state.thumb /\ <<p, "full">> \in public'
    <2>1. CASE Goto(i, "reset")
      BY <2>1, GoStep
    <2>2. CASE job[i].thumb /\ Goto(i, "putThumb") /\ public' = public \cup {<<p, "full">>}
      BY <2>2, GoStep
    <2>3. CASE ~job[i].thumb /\ Goto(i, "ready") /\ public' = public \cup {<<p, "full">>}
      <3>1. PICK state \in Job : /\ job' = [job EXCEPT ![i] = state] /\ state.photo = p
                                 /\ state.pc = "ready" /\ state.thumb = job[i].thumb
        BY <2>3, GoStep
      <3> QED BY <2>3, <3>1
    <2> QED BY <2>1, <2>2, <2>3 DEF PutFinal
  <1>4. HandlerStep(i)
    BY <1>1, <1>2, <1>3, StoreStep DEF Working
  <1>5. job'[i] = state
    BY <1>3 DEF MediaInv, TypeOK
  <1>6. Stored(i)'
    BY <1>3, <1>5 DEF Stored
  <1>7. Own(i)
    BY <1>1, <1>3, <1>6, OwnWork DEF Working, KeepOthers
  <1> QED BY <1>4, <1>7

LEMMA PutThumbStep ==
  ASSUME MediaInv, NEW i \in Slot, PutThumb(i)
  PROVE  HandlerStep(i) /\ Own(i)
  <1> DEFINE p == job[i].photo
  <1>1. /\ p \in Photo /\ job[i].pc = "putThumb" /\ KeepOthers
        /\ UNCHANGED <<rows, private, issued>> /\ <<p, "full">> \in public
    BY DEF PutThumb, MediaInv, Claimed, Stored, Working
  <1>2. public' \subseteq PublicObject /\ \A o \in public : o \in public'
    BY <1>1 DEF PutThumb, PublicObject, Kind, MediaInv, TypeOK
  <1>3. PICK state \in Job :
          /\ job' = [job EXCEPT ![i] = state] /\ state.photo = p /\ state.pc = "ready"
          /\ state.thumb => <<p, "thumb">> \in public'
    <2>1. CASE public' = public \cup {<<p, "thumb">>} /\ Goto(i, "ready")
      BY <2>1, GoStep
    <2>2. CASE job' = [job EXCEPT ![i].pc = "ready", ![i].thumb = FALSE]
      <3> DEFINE state == [job[i] EXCEPT !.pc = "ready", !.thumb = FALSE]
      <3>1. state \in Job /\ state.pc = "ready" /\ state.photo = p /\ ~state.thumb
        BY DEF MediaInv, TypeOK, Job
      <3>2. job' = [job EXCEPT ![i] = state]
        BY <2>2 DEF MediaInv, TypeOK
      <3> HIDE DEF state
      <3> QED BY <3>1, <3>2
    <2> QED BY <2>1, <2>2 DEF PutThumb
  <1>4. HandlerStep(i)
    BY <1>1, <1>2, <1>3, StoreStep DEF Working
  <1>5. job'[i] = state
    BY <1>3 DEF MediaInv, TypeOK
  <1>6. Stored(i)'
    BY <1>1, <1>2, <1>3, <1>5 DEF Stored
  <1>7. Own(i)
    BY <1>1, <1>3, <1>6, OwnWork DEF Working, KeepOthers
  <1> QED BY <1>4, <1>7

LEMMA MarkReadyStep ==
  ASSUME MediaInv, NEW i \in Slot, MarkReady(i)
  PROVE  HandlerStep(i) /\ Own(i)
  <1> DEFINE p == job[i].photo
             entry == [rows[p] EXCEPT !.status = "ready", !.thumb = job[i].thumb, !.claimed = 0]
  <1>1. /\ p \in Photo /\ job[i].pc = "ready" /\ Alive /\ KeepStore /\ KeepOthers
        /\ UNCHANGED issued /\ public' = public /\ private' = private
        /\ private \subseteq PrivateObject
    BY AliveWhen DEF MarkReady, MediaInv, TypeOK, Claimed, Working, KeepStore
  <1>2. p # None /\ Has(p) /\ rows[p].status = "processing"
    BY <1>1, MediaAssumption DEF MediaInv, Claimed, Working
  <1>3. CASE rows' = [rows EXCEPT ![p].status = "ready", ![p].thumb = job[i].thumb,
                                  ![p].claimed = 0]
             /\ Goto(i, "unstage")
    <2>1. rows[p] \in MediaRow /\ job[i].thumb \in BOOLEAN
      BY <1>1, <1>2 DEF MediaInv, TypeOK, Has, Job
    <2>2. entry \in MediaRow /\ entry.status = "ready" /\ entry.thumb = job[i].thumb
      BY <2>1 DEF MediaRow
    <2>3. rows' = [rows EXCEPT ![p] = entry]
      BY <1>1, <1>3 DEF MediaInv, TypeOK
    <2>4. ~Ready(p)
      BY <1>2 DEF Ready
    <2>5. \A j \in Slot \ {i} : ~AtWork(j, p)
      BY <1>1, <1>2 DEF MediaInv, OneFinalizer, AtWork, Working
    <2>6. /\ <<p, "full">> \in public /\ (job[i].thumb => <<p, "thumb">> \in public)
      BY <1>1 DEF MediaInv, Stored
    <2>7. issued' \in [Photo -> Nat \cup {None}] /\ issued[p] # None
      BY <1>1, <1>2 DEF MediaInv, TypeOK, Issued
    <2> HIDE DEF entry, p
    <2>8. PICK state \in Job : job' = [job EXCEPT ![i] = state]
                               /\ state.pc = "unstage" /\ state.photo = p
      BY <1>3, GoStep DEF p
    <2>9. \A k \in (IF entry.thumb THEN Kind ELSE {"full"}) : <<p, k>> \in public
      BY <2>2, <2>6 DEF Kind
    <2>10. HandlerStep(i)
      BY <1>1, <2>2, <2>3, <2>4, <2>5, <2>7, <2>8, <2>9, RowStep
    <2> QED BY <1>1, <2>8, <2>10, OwnElse DEF Working
  <1>4. CASE rows' = rows /\ Goto(i, "undo")
    <2>1. PICK state \in Job : job' = [job EXCEPT ![i] = state]
                               /\ state.pc = "undo" /\ state.photo = p
      BY <1>4, GoStep
    <2>2. Stored(i)'
      BY <2>1 DEF Stored, MediaInv, TypeOK
    <2>3. Own(i)
      BY <1>1, <1>4, <2>1, <2>2, OwnWork DEF Working, KeepOthers
    <2> QED BY <1>1, <1>4, <2>1, <2>3, QuietStep
  <1> QED BY <1>3, <1>4 DEF MarkReady

LEMMA UndoStep ==
  ASSUME MediaInv, NEW i \in Slot, NEW key \in Kind, removePublicObjects(i, key)
  PROVE  HandlerStep(i) /\ Own(i)
  <1> DEFINE p == job[i].photo
  <1>1. /\ p \in Photo /\ job[i].pc \in {"undo", "undoThumb"} /\ KeepOthers
        /\ UNCHANGED <<rows, private, issued>>
    BY DEF removePublicObjects, MediaInv, Claimed, Working
  <1>2. public' \subseteq public /\ public \subseteq PublicObject
        /\ \A o \in Photo \ {p} : \A k \in Kind : <<o, k>> \in public => <<o, k>> \in public'
    BY DEF removePublicObjects, MediaInv, TypeOK
  <1>3. PICK state \in Job :
          /\ job' = [job EXCEPT ![i] = state] /\ state.photo = p
          /\ state.pc \in {"undoThumb", "reset"}
    <2>1. Goto(i, "undoThumb") \/ Goto(i, "reset")
      BY DEF removePublicObjects
    <2> QED BY <2>1, GoStep
  <1>4. HandlerStep(i)
    BY <1>1, <1>2, <1>3, StoreStep DEF Working
  <1>5. Stored(i)'
    BY <1>3 DEF Stored, MediaInv, TypeOK
  <1>6. Own(i)
    BY <1>1, <1>3, <1>5, OwnWork DEF Working, KeepOthers
  <1> QED BY <1>4, <1>6

LEMMA ResetStep ==
  ASSUME MediaInv, NEW i \in Slot, ResetClaim(i)
  PROVE  HandlerStep(i) /\ Own(i)
  <1> DEFINE p == job[i].photo
             entry == [rows[p] EXCEPT !.status = "staged", !.claimed = 0]
  <1>1. /\ p \in Photo /\ job[i].pc = "reset" /\ Alive /\ KeepStore /\ KeepOthers
        /\ UNCHANGED issued /\ job' = [job EXCEPT ![i] = IdleJob]
    BY AliveWhen DEF ResetClaim, MediaInv, Claimed, Working, Leave
  <1>2. p # None /\ Has(p) /\ rows[p].status = "processing"
    BY <1>1, MediaAssumption DEF MediaInv, Claimed, Working
  <1>3. rows[p] \in MediaRow
    BY <1>1, <1>2 DEF MediaInv, TypeOK, Has
  <1>4. entry \in MediaRow /\ entry.status = "staged"
    BY <1>3 DEF MediaRow
  <1>5. rows' = [rows EXCEPT ![p] = entry]
    BY <1>1, <1>2 DEF ResetClaim, MediaInv, TypeOK
  <1>6. ~Ready(p)
    BY <1>2 DEF Ready
  <1>7. \A j \in Slot \ {i} : ~AtWork(j, p)
    BY <1>1, <1>2 DEF MediaInv, OneFinalizer, AtWork, Working
  <1>8. issued' \in [Photo -> Nat \cup {None}] /\ issued[p] # None
    BY <1>1, <1>2 DEF MediaInv, TypeOK, Issued
  <1> HIDE DEF entry, p
  <1>9. HandlerStep(i)
    BY <1>1, <1>4, <1>5, <1>6, <1>7, <1>8, IdleType, RowStep
  <1> QED BY <1>1, <1>9, IdleType, OwnElse DEF Working

LEMMA RemoveStagingStep ==
  ASSUME MediaInv, NEW i \in Slot, RemoveStaging(i)
  PROVE  HandlerStep(i) /\ Own(i)
  <1> DEFINE p == job[i].photo
  <1>1. p \in Photo /\ Alive
    BY AliveWhen DEF RemoveStaging, MediaInv, Claimed
  <1>2. PICK state \in Job : /\ job' = [job EXCEPT ![i] = state]
                             /\ state.pc = "idle" \/ (state.pc = "noteStaging" /\ state.photo = p)
    <2>1. CASE Leave(i)
      BY <2>1, IdleType DEF Leave
    <2>2. CASE Goto(i, "noteStaging")
      BY <2>2, GoStep
    <2> QED BY <2>1, <2>2 DEF RemoveStaging
  <1>3. /\ UNCHANGED <<rows, public, issued>> /\ KeepOthers /\ private' \subseteq private
        /\ \A o \in Photo, k \in Kind : <<o, k>> \in private => <<o, k>> \in private'
    BY DEF RemoveStaging, Kind
  <1>4. private' \subseteq PrivateObject
    BY <1>3 DEF MediaInv, TypeOK
  <1> QED BY <1>1, <1>2, <1>3, <1>4, QuietStep, OwnElse DEF Working

LEMMA NoteStagingStep ==
  ASSUME MediaInv, NEW i \in Slot, NoteStaging(i)
  PROVE  HandlerStep(i) /\ Own(i)
  <1> DEFINE p == job[i].photo
  <1>1. p \in Photo /\ Alive
    BY AliveWhen DEF NoteStaging, MediaInv, Claimed
  <1>2. /\ job' = [job EXCEPT ![i] = IdleJob] /\ KeepStore /\ KeepOthers /\ UNCHANGED issued
        /\ public' = public /\ private' = private /\ private \subseteq PrivateObject
    BY DEF NoteStaging, Leave, KeepStore, MediaInv, TypeOK
  <1>3. Own(i)
    BY <1>2, IdleType, OwnElse DEF Working
  <1>4. CASE Unremoved(p)
    <2>1. rows' = [rows EXCEPT ![p].staging = FALSE] /\ Ready(p)
      BY <1>4 DEF NoteStaging, Unremoved, Ready
    <2> HIDE DEF p
    <2> QED BY <1>1, <1>2, <1>3, <2>1, IdleType, StagingStep
  <1>5. CASE ~Unremoved(p)
    <2>1. rows' = rows
      BY <1>5 DEF NoteStaging
    <2> QED BY <1>1, <1>2, <1>3, <2>1, IdleType, QuietStep
  <1> QED BY <1>4, <1>5

LEMMA HandleInv ==
  ASSUME MediaInv, NEW i \in Slot, Handle(i)
  PROVE  MediaInv'
  <1>1. HandlerStep(i) /\ Own(i)
    BY PresignStep, CountStep, InsertStep, FinalizeStep, CleanObjectStep, CleanRowStep, ClaimStep,
       SanitizeStep, PutFinalStep, PutThumbStep, MarkReadyStep, UndoStep, ResetStep,
       RemoveStagingStep, NoteStagingStep
    DEF Handle, Finalize
  <1> QED BY <1>1, HandlerInv

----------------------------------------------------------------------------
(* The visibility loop.                                                    *)

LEMMA NoMoveType == NoMove \in Move /\ NoMove.pc = "idle"
  BY DEF NoMove, Move

(* A step of the loop that keeps the objects of every photo that is not    *)
(* being moved, and of the moved one in one of the buckets.                *)
LEMMA SyncInv ==
  ASSUME MediaInv, KeepRequests, sync' \in Move, rows' \in [Photo -> MediaRow \cup {None}],
         private' \subseteq PrivateObject, public' \subseteq PublicObject,
         \A p \in Photo :
            /\ Has(p)' = Has(p)
            /\ Has(p) => /\ rows'[p].status = rows[p].status
                         /\ rows'[p].thumb = rows[p].thumb
                         /\ rows'[p].claimed = rows[p].claimed,
         \A p \in Photo : p = sync.photo \/ \A k \in Kind :
            /\ <<p, k>> \in public => <<p, k>> \in public'
            /\ <<p, k>> \in private => <<p, k>> \in private',
         \A p \in Photo, k \in Kind : erasure # Erased =>
            (<<p, k>> \in public \cup private => <<p, k>> \in public' \cup private'),
         public' # public => sync.pc # "idle",
         Moving'
  PROVE  MediaInv'
  <1>1. UNCHANGED <<review, erasure, queue, issued, now, job, erasing, purging>>
    BY DEF KeepRequests
  <1>2. TypeOK'
    BY <1>1 DEF MediaInv, TypeOK
  <1>3. Ending' /\ Issued' /\ OneFinalizer'
    BY <1>1 DEF MediaInv, Ending, AtRest, Due, Issued, OneFinalizer
  <1>4. ASSUME NEW i \in Slot PROVE Claimed(i)' /\ Stored(i)'
    <2>1. Claimed(i)'
      BY <1>1 DEF MediaInv, Claimed
    <2>2. Stored(i)'
      <3> DEFINE p == job[i].photo
      <3>1. CASE job[i].pc \in {"putThumb", "ready"}
        <4>1. p \in Photo /\ ~Ready(p)
          BY <3>1 DEF MediaInv, Claimed, Working, Ready
        <4>2. erasure # Erased
          BY <3>1 DEF MediaInv, Ending, AtRest
        <4>3. sync.pc # "idle" => p # sync.photo
          BY <4>1, <4>2 DEF MediaInv, Moving
        <4>4. \A k \in Kind : <<p, k>> \in public => <<p, k>> \in public'
          BY <4>1, <4>3
        <4> QED BY <1>1, <4>4 DEF MediaInv, Stored, Kind
      <3>2. CASE job[i].pc \notin {"putThumb", "ready"}
        BY <1>1, <3>2 DEF Stored
      <3> QED BY <3>1, <3>2
    <2> QED BY <2>1, <2>2
  <1>5. PhotoKept'
    <2> SUFFICES ASSUME NEW p \in Photo, Ready(p)'
                 PROVE  Objects(p)' \subseteq public' \cup private'
      BY DEF PhotoKept, Objects
    <2>1. Ready(p) /\ Keys(p)' = Keys(p) /\ Keys(p) \subseteq Kind /\ erasure # Erased
      BY DEF Ready, Keys, Kind, MediaInv, Ending
    <2>2. \A k \in Keys(p) : <<p, k>> \in public \cup private
      BY <2>1 DEF MediaInv, PhotoKept, Objects
    <2> QED BY <2>1, <2>2 DEF Objects
  <1> QED BY <1>2, <1>3, <1>4, <1>5 DEF MediaInv

(* A step that changes neither rows nor store.                             *)
LEMMA LookInv ==
  ASSUME MediaInv, KeepRequests, KeepStore, UNCHANGED rows, sync' \in Move, Moving'
  PROVE  MediaInv'
  <1>1. rows' = rows /\ private' = private /\ public' = public
    BY DEF KeepStore
  <1>2. rows \in [Photo -> MediaRow \cup {None}] /\ private \subseteq PrivateObject
        /\ public \subseteq PublicObject
    BY DEF MediaInv, TypeOK
  <1>3. \A p : Has(p)' = Has(p)
    BY <1>1 DEF Has
  <1> QED BY <1>1, <1>2, <1>3, SyncInv

LEMMA KeyKind == Key \in Kind
  BY DEF Key, Kind

LEMMA MovedType ==
  ASSUME MediaInv
  PROVE  /\ Moved \in Move /\ Moved.pc \in {"mark", "read"}
         /\ Moved.photo = sync.photo /\ Moved.withheld = sync.withheld
  BY DEF Moved, MediaInv, TypeOK, Move

LEMMA ToPc ==
  ASSUME MediaInv, NEW pc \in {"read", "put", "remove", "mark"}, sync' = [sync EXCEPT !.pc = pc]
  PROVE  /\ sync' \in Move /\ sync'.pc = pc /\ sync'.photo = sync.photo
         /\ sync'.withheld = sync.withheld /\ sync'.keys = sync.keys
  BY DEF MediaInv, TypeOK, Move

(* The loop goes on with the photo, or lets it be.                         *)
LEMMA MovingOn ==
  ASSUME MediaInv, sync.pc # "idle", erasure' = erasure,
         \A p \in Photo : Ready(p) => Ready(p)',
         \/ sync' = NoMove
         \/ sync'.pc # "remove" /\ sync'.photo = sync.photo
  PROVE  Moving'
  BY NoMoveType DEF MediaInv, Moving

LEMMA SyncInvs ==
  ASSUME MediaInv, Sync
  PROVE  MediaInv'
  <1>1. ASSUME NEW p \in Photo, SyncVisibility(p) PROVE MediaInv'
    <2> DEFINE state == [pc |-> "read", photo |-> p, withheld |-> rows[p].withheld,
                         keys |-> Keys(p)]
    <2>1. Ready(p) /\ rows[p] \in MediaRow
      BY <1>1 DEF SyncVisibility, Misplaced, Ready, Has, MediaInv, TypeOK
    <2>2. state \in Move /\ state.pc = "read" /\ state.photo = p
      BY <2>1 DEF Move, MediaRow, Keys, Kind
    <2>3. sync' = state /\ UNCHANGED rows /\ KeepStore /\ KeepRequests
      BY <1>1 DEF SyncVisibility
    <2> HIDE DEF state
    <2>4. Moving'
      BY <2>1, <2>2, <2>3 DEF Moving, Ready, Has
    <2> QED BY <2>2, <2>3, <2>4, LookInv
  <1>2. ASSUME MoveRead PROVE MediaInv'
    <2>1. UNCHANGED rows /\ KeepStore /\ KeepRequests /\ sync.pc = "read" /\ erasure' = erasure
      BY <1>2 DEF MoveRead, KeepRequests
    <2>2. /\ sync' \in Move
          /\ sync' = NoMove \/ (sync'.pc # "remove" /\ sync'.photo = sync.photo)
      <3>1. sync' = [sync EXCEPT !.pc = "put"] \/ sync' = Moved \/ sync' = NoMove
        BY <1>2 DEF MoveRead
      <3> QED BY <3>1, ToPc, MovedType, NoMoveType
    <2>3. Moving'
      BY <2>1, <2>2, MovingOn DEF Ready, Has
    <2> QED BY <2>1, <2>2, <2>3, LookInv
  <1>3. ASSUME MovePut PROVE MediaInv'
    <2> DEFINE o == <<sync.photo, Key>>
    <2>1. /\ UNCHANGED rows /\ KeepRequests /\ sync.pc = "put" /\ erasure' = erasure
          /\ sync.photo \in Photo /\ sync.withheld \in BOOLEAN
      BY <1>3 DEF MovePut, KeepRequests, MediaInv, Moving, TypeOK, Move
    <2>2. o \in PublicObject /\ o \in PrivateObject
      BY <2>1, KeyKind DEF PublicObject, PrivateObject
    <2>3. CASE sync' = NoMove /\ KeepStore
      BY <2>1, <2>3, LookInv, NoMoveType, MovingOn DEF Ready, Has
    <2>4. CASE /\ sync' = [sync EXCEPT !.pc = "remove"]
               /\ IF sync.withheld
                  THEN public' = public \cup {o} /\ UNCHANGED private
                  ELSE private' = private \cup {o} /\ UNCHANGED public
      <3>1. /\ sync' \in Move /\ sync'.pc = "remove" /\ sync'.photo = sync.photo
            /\ sync'.withheld = sync.withheld /\ sync'.keys = sync.keys
        BY <2>4, ToPc
      <3>2. /\ public \subseteq public' /\ private \subseteq private'
            /\ public' \subseteq PublicObject /\ private' \subseteq PrivateObject
            /\ sync.withheld => o \in public'
            /\ ~sync.withheld => o \in private'
        BY <2>2, <2>4 DEF MediaInv, TypeOK
      <3>3. Key' = Key
        BY <3>1 DEF Key
      <3>4. (erasure # Erased => Ready(sync.photo))'
        BY <2>1, <3>1 DEF MediaInv, Moving, Ready, Has
      <3>5. (<<sync.photo, Key>> \in At(~sync.withheld))'
        BY <2>1, <3>1, <3>2, <3>3 DEF At
      <3>6. Moving'
        BY <2>1, <3>1, <3>4, <3>5 DEF Moving
      <3>7. rows \in [Photo -> MediaRow \cup {None}] /\ \A p \in Photo : Has(p)' = Has(p)
        BY <2>1 DEF MediaInv, TypeOK, Has
      <3> HIDE DEF o
      <3> QED BY <2>1, <3>1, <3>2, <3>6, <3>7, SyncInv
    <2> QED BY <1>3, <2>3, <2>4 DEF MovePut
  <1>4. ASSUME MoveRemove PROVE MediaInv'
    <2> DEFINE o == <<sync.photo, Key>>
    <2>1. /\ UNCHANGED rows /\ KeepRequests /\ sync.pc = "remove" /\ erasure' = erasure
          /\ sync.photo \in Photo /\ sync.withheld \in BOOLEAN
      BY <1>4 DEF MoveRemove, KeepRequests, MediaInv, Moving, TypeOK, Move
    <2>2. CASE sync' = NoMove /\ KeepStore
      BY <2>1, <2>2, LookInv, NoMoveType, MovingOn DEF Ready, Has
    <2>3. CASE /\ sync' = Moved
               /\ IF sync.withheld
                  THEN private' = private \ {o} /\ UNCHANGED public
                  ELSE public' = public \ {o} /\ UNCHANGED private
      <3>1. erasure # Erased => IF sync.withheld THEN o \in public ELSE o \in private
        BY <2>1 DEF MediaInv, Moving, At
      <3>2. /\ public' \subseteq PublicObject /\ private' \subseteq PrivateObject
            /\ \A x : x # o => (x \in public => x \in public') /\ (x \in private => x \in private')
            /\ erasure # Erased => (o \in public' \cup private')
        BY <2>3, <3>1 DEF MediaInv, TypeOK
      <3>3. \A p \in Photo, k \in Kind : p # sync.photo => <<p, k>> # o
        OBVIOUS
      <3>4. Moving'
        BY <2>1, <2>3, MovedType, MovingOn DEF Ready, Has
      <3>5. rows \in [Photo -> MediaRow \cup {None}] /\ \A p \in Photo : Has(p)' = Has(p)
        BY <2>1 DEF MediaInv, TypeOK, Has
      <3>6. sync' \in Move
        BY <2>3, MovedType
      <3> HIDE DEF o
      <3>7. \A p \in Photo, k \in Kind : erasure # Erased =>
              (<<p, k>> \in public \cup private => <<p, k>> \in public' \cup private')
        BY <3>2
      <3>8. \A p \in Photo : p = sync.photo \/ \A k \in Kind :
              /\ <<p, k>> \in public => <<p, k>> \in public'
              /\ <<p, k>> \in private => <<p, k>> \in private'
        BY <3>2, <3>3
      <3> QED BY <2>1, <3>2, <3>4, <3>5, <3>6, <3>7, <3>8, SyncInv
    <2> QED BY <1>4, <2>2, <2>3 DEF MoveRemove
  <1>5. ASSUME MarkMoved PROVE MediaInv'
    <2> DEFINE p == sync.photo
               entry == [rows[p] EXCEPT !.withheld = ~sync.withheld]
    <2>1. /\ KeepStore /\ KeepRequests /\ sync.pc = "mark" /\ erasure' = erasure
          /\ p \in Photo /\ sync.withheld \in BOOLEAN /\ sync' = NoMove
          /\ public' = public /\ private' = private
          /\ public \subseteq PublicObject /\ private \subseteq PrivateObject
      BY <1>5 DEF MarkMoved, KeepRequests, KeepStore, MediaInv, Moving, TypeOK, Move
    <2>2. CASE Has(p)
      <3>1. rows[p] \in MediaRow /\ None \notin MediaRow
        BY <2>1, <2>2, MediaAssumption DEF MediaInv, TypeOK, Has
      <3>2. /\ entry \in MediaRow /\ entry.status = rows[p].status /\ entry.thumb = rows[p].thumb
            /\ entry.claimed = rows[p].claimed
        BY <2>1, <3>1 DEF MediaRow
      <3>3. rows' = [rows EXCEPT ![p] = entry]
        BY <1>5, <2>1, <2>2 DEF MarkMoved, MediaInv, TypeOK
      <3> HIDE DEF entry, p
      <3>4. /\ rows' \in [Photo -> MediaRow \cup {None}]
            /\ rows'[p] = entry /\ \A x \in Photo \ {p} : rows'[x] = rows[x]
        BY <2>1, <3>2, <3>3 DEF MediaInv, TypeOK
      <3>5. \A x \in Photo : /\ Has(x)' = Has(x)
                             /\ Has(x) => /\ rows'[x].status = rows[x].status
                                          /\ rows'[x].thumb = rows[x].thumb
                                          /\ rows'[x].claimed = rows[x].claimed
        BY <2>2, <3>1, <3>2, <3>4 DEF Has
      <3>6. Moving'
        BY <2>1, NoMoveType DEF Moving
      <3> QED BY <2>1, <3>4, <3>5, <3>6, NoMoveType, SyncInv
    <2>3. CASE ~Has(p)
      <3>1. rows' = rows
        BY <1>5, <2>3 DEF MarkMoved
      <3>2. Moving'
        BY <2>1, NoMoveType DEF Moving
      <3> QED BY <2>1, <3>1, <3>2, NoMoveType, LookInv
    <2> QED BY <2>2, <2>3
  <1> QED BY <1>1, <1>2, <1>3, <1>4, <1>5 DEF Sync

----------------------------------------------------------------------------
(* The erasure, the purge and the rest.                                    *)

(* A step that leaves rows, store, requests and the loop alone.            *)
LEMMA OutsideInv ==
  ASSUME MediaInv, UNCHANGED <<rows, private, public, issued, now, job, sync>>,
         TypeOK', Ending', erasure = Erased => erasure' = Erased,
         sync.pc # "idle" /\ erasure' # Erased => Ready(sync.photo)
  PROVE  MediaInv'
  <1>1. Issued' /\ OneFinalizer' /\ PhotoKept'
    BY DEF MediaInv, Issued, Has, OneFinalizer, PhotoKept, Objects, Ready, Keys
  <1>2. \A i \in Slot : Claimed(i)' /\ Stored(i)'
    BY DEF MediaInv, Claimed, Stored, Has
  <1>3. Moving'
    BY DEF MediaInv, Moving, Key, At, Ready, Has
  <1> QED BY <1>1, <1>2, <1>3 DEF MediaInv

LEMMA UploadInv ==
  ASSUME MediaInv, NEW p \in Photo, Upload(p)
  PROVE  MediaInv'
  <1>1. /\ UNCHANGED <<rows, public, issued, job>> /\ KeepOthers
        /\ private' = private \cup {<<p, "staging">>}
    BY DEF Upload
  <1>2. private' \subseteq PrivateObject
    BY <1>1 DEF MediaInv, TypeOK, PrivateObject
  <1>3. TypeOK' /\ Ending' /\ Issued' /\ OneFinalizer'
    BY <1>1, <1>2 DEF MediaInv, TypeOK, KeepOthers, Ending, Due, AtRest, Issued, Has, OneFinalizer
  <1>4. \A i \in Slot : Claimed(i)' /\ Stored(i)'
    BY <1>1 DEF MediaInv, KeepOthers, Claimed, Stored, Has
  <1>5. Moving'
    <2>1. Key' = Key /\ (\A o : Ready(o)' = Ready(o))
      BY <1>1 DEF Key, KeepOthers, Ready, Has
    <2> QED BY <1>1, <2>1 DEF MediaInv, KeepOthers, Moving, At
  <1>6. PhotoKept'
    BY <1>1 DEF MediaInv, PhotoKept, Objects, Ready, Has, Keys
  <1> QED BY <1>3, <1>4, <1>5, <1>6 DEF MediaInv

LEMMA QueueFilesInv ==
  ASSUME MediaInv, QueueFiles
  PROVE  MediaInv'
  <1>1. \A p \in Photo : FilesOf(p) \subseteq Object
    BY DEF FilesOf, Object, PrivateObject, PublicObject, Keys, Kind
  <1>2. erasing' \in SUBSET Object
    BY <1>1 DEF QueueFiles
  <1>3. TypeOK' /\ Ending'
    BY <1>2 DEF QueueFiles, MediaInv, TypeOK, Ending, Due, AtRest, Has
  <1> QED BY <1>3, OutsideInv DEF QueueFiles, MediaInv, Moving

(* Nothing of the account is left when it is erased: no request is under   *)
(* way, and the loop may only finish a move.                               *)
LEMMA EraseInv ==
  ASSUME MediaInv, eraseAccount
  PROVE  MediaInv'
  <1>1. AtRest /\ erasing \subseteq Object
    BY DEF eraseAccount, MediaInv, Ending, TypeOK
  <1>2. /\ erasure' = Erased /\ rows' = [p \in Photo |-> None] /\ queue' = queue \cup erasing
        /\ erasing' = None
        /\ UNCHANGED <<review, private, public, issued, now, job, sync, purging>>
    BY DEF eraseAccount
  <1>3. \A p \in Photo : ~Has(p)'
    BY <1>2 DEF Has
  <1>4. TypeOK' /\ Ending'
    <2>1. Erased \notin Nat
      BY MediaAssumption
    <2> QED BY <1>1, <1>2, <1>3, <2>1 DEF MediaInv, TypeOK, Ending, Due, AtRest
  <1>5. Issued' /\ OneFinalizer' /\ PhotoKept'
    BY <1>2, <1>3 DEF Issued, MediaInv, OneFinalizer, PhotoKept, Objects, Ready
  <1>6. \A i \in Slot : Claimed(i)' /\ Stored(i)'
    BY <1>1, <1>2 DEF AtRest, Claimed, Stored, Working
  <1>7. Moving'
    BY <1>2 DEF MediaInv, Moving
  <1> QED BY <1>4, <1>5, <1>6, <1>7 DEF MediaInv

LEMMA PurgeInv ==
  ASSUME MediaInv, NEW o \in queue, PurgeObject(o)
  PROVE  MediaInv'
  <1>1. erasure = Erased /\ AtRest /\ (\A p \in Photo : ~Has(p)) /\ o \in Object
    BY DEF MediaInv, Ending, TypeOK
  <1>2. /\ UNCHANGED <<review, erasure, rows, queue, issued, now, job, sync, erasing>>
        /\ private' \subseteq private /\ public' \subseteq public /\ purging' = o
    BY DEF PurgeObject
  <1>3. TypeOK' /\ Ending' /\ Issued' /\ OneFinalizer'
    BY <1>1, <1>2 DEF MediaInv, TypeOK, Ending, Due, AtRest, Issued, Has, OneFinalizer
  <1>4. \A i \in Slot : Claimed(i)' /\ Stored(i)'
    BY <1>1, <1>2 DEF AtRest, Claimed, Stored, Working
  <1>5. Moving' /\ PhotoKept'
    BY <1>1, <1>2 DEF MediaInv, Moving, PhotoKept, Objects, Ready, Has
  <1> QED BY <1>3, <1>4, <1>5 DEF MediaInv

LEMMA RestartInv ==
  ASSUME MediaInv, Restart
  PROVE  MediaInv'
  <1>1. /\ job' = [i \in Slot |-> IdleJob] /\ sync' = NoMove /\ erasing' = None
        /\ purging' = None
        /\ UNCHANGED <<review, erasure, rows, private, public, queue, issued, now>>
    BY DEF Restart
  <1>2. AtRest'
    BY <1>1, IdleType DEF AtRest
  <1>3. TypeOK' /\ Ending' /\ Issued' /\ PhotoKept'
    BY <1>1, <1>2, IdleType, NoMoveType
    DEF MediaInv, TypeOK, Ending, Due, Issued, Has, PhotoKept, Objects, Ready, Keys
  <1>4. OneFinalizer' /\ Moving' /\ \A i \in Slot : Claimed(i)' /\ Stored(i)'
    BY <1>1, <1>2, NoMoveType DEF AtRest, OneFinalizer, Moving, Claimed, Stored, Working
  <1> QED BY <1>3, <1>4 DEF MediaInv

LEMMA TickInv ==
  ASSUME MediaInv, Tick
  PROVE  MediaInv'
  <1>1. /\ AtRest /\ now' = now + 1 /\ now \in Nat
        /\ UNCHANGED <<review, erasure, rows, private, public, queue, issued, job, sync, erasing,
                       purging>>
    BY DEF Tick, AtRest, MediaInv, TypeOK
  <1>2. TypeOK' /\ Ending' /\ Issued' /\ PhotoKept'
    BY <1>1
    DEF MediaInv, TypeOK, Ending, Due, AtRest, Issued, Has, PhotoKept, Objects, Ready, Keys
  <1>3. OneFinalizer' /\ \A i \in Slot : Claimed(i)' /\ Stored(i)'
    BY <1>1 DEF MediaInv, AtRest, OneFinalizer, Claimed, Stored, Working
  <1>4. Moving'
    BY <1>1 DEF MediaInv, Moving, Key, At, Ready, Has
  <1> QED BY <1>2, <1>3, <1>4 DEF MediaInv

LEMMA InitInv == Init => MediaInv
  <1> SUFFICES ASSUME Init PROVE MediaInv
    OBVIOUS
  <1>1. TypeOK
    BY IdleType, NoMoveType DEF Init, TypeOK
  <1>2. \A p \in Photo : ~Has(p)
    BY DEF Init, Has
  <1>3. AtRest /\ sync.pc = "idle" /\ erasure = None /\ erasing = None /\ queue = {}
    BY IdleType, NoMoveType DEF Init, AtRest
  <1>4. Ending /\ Issued /\ Moving /\ PhotoKept
    BY <1>2, <1>3, MediaAssumption
    DEF Ending, Due, Issued, Moving, PhotoKept, Objects, Ready
  <1>5. OneFinalizer /\ \A i \in Slot : Claimed(i) /\ Stored(i)
    BY <1>3 DEF AtRest, OneFinalizer, Claimed, Stored, Working
  <1> QED BY <1>1, <1>4, <1>5 DEF MediaInv

LEMMA NextInv == MediaInv /\ [Next]_vars => MediaInv'
  <1> SUFFICES ASSUME MediaInv, [Next]_vars PROVE MediaInv'
    OBVIOUS
  <1>0. sync.pc # "idle" /\ erasure # Erased => Ready(sync.photo)
    BY DEF MediaInv, Moving
  <1>1. ASSUME UNCHANGED <<rows, private, public, issued, now, job, sync, erasure, erasing>>,
               queue' \subseteq queue, TypeOK'
        PROVE  MediaInv'
    <2>1. Ending'
      BY <1>1 DEF MediaInv, Ending, Due, AtRest, Has
    <2> QED BY <1>0, <1>1, <2>1, OutsideInv
  <1>2. CASE UNCHANGED vars
    BY <1>1, <1>2 DEF vars, MediaInv, TypeOK
  <1>3. CASE PurgeRow
    BY <1>1, <1>3 DEF PurgeRow, MediaInv, TypeOK
  <1>4. ASSUME NEW s \in Outcome, Moderate(s) PROVE MediaInv'
    BY <1>1, <1>4, MediaAssumption DEF Moderate, MediaInv, TypeOK
  <1>5. CASE RequestErasure \/ CancelErasure
    <2>1. /\ UNCHANGED <<review, rows, private, public, queue, issued, now, job, sync, erasing,
                         purging>>
          /\ erasing = None
          /\ erasure # Erased
          /\ erasure' = now \/ erasure' = None
      BY <1>5, MediaAssumption
      DEF RequestErasure, CancelErasure, MediaInv, Ending, Due
    <2>2. now \in Nat /\ None \notin Nat /\ Erased \notin Nat \cup {None}
      BY MediaAssumption DEF MediaInv, TypeOK
    <2>3. TypeOK' /\ Ending'
      BY <2>1, <2>2 DEF MediaInv, TypeOK, Ending, Due
    <2> QED BY <1>0, <2>1, <2>3, OutsideInv
  <1>6. CASE Restart \/ Tick \/ QueueFiles \/ eraseAccount
    BY <1>6, RestartInv, TickInv, QueueFilesInv, EraseInv
  <1>7. CASE Sync
    BY <1>7, SyncInvs
  <1>8. CASE \E p \in Photo : Upload(p)
    BY <1>8, UploadInv
  <1>9. CASE \E o \in queue : PurgeObject(o)
    BY <1>9, PurgeInv
  <1>10. CASE \E i \in Slot : Handle(i)
    BY <1>10, HandleInv
  <1> QED BY <1>2, <1>3, <1>4, <1>5, <1>6, <1>7, <1>8, <1>9, <1>10 DEF Next

(* The inductive invariant of Media holds.                                 *)
LEMMA Always == Spec => []MediaInv
  BY InitInv, NextInv, PTL DEF Spec

(* Photos, objects, requests, the visibility loop and the erasure of the   *)
(* account are well typed in every reachable state.                        *)
THEOREM TypeCorrect == Spec => []TypeOK
  <1>1. MediaInv => TypeOK
    BY DEF MediaInv
  <1> QED BY <1>1, Always, PTL

(* Every object of a finalized photo is in one of the buckets, whatever    *)
(* fails or stops while it is finalized, undone or moved (media.go:303-408; *)
(* visibility.go:91-120).                                                   *)
THEOREM NeverLost == Spec => []PhotoKept
  <1>1. MediaInv => PhotoKept
    BY DEF MediaInv
  <1> QED BY <1>1, Always, PTL

(* No two requests sanitize, store or undo one upload at once              *)
(* (media.go:303).                                                         *)
THEOREM FinalizedByOne == Spec => []OneFinalizer
  <1>1. MediaInv => OneFinalizer
    BY DEF MediaInv
  <1> QED BY <1>1, Always, PTL

----------------------------------------------------------------------------
(* Evidence.                                                               *)

(* The inductive invariant of Evidence.                                    *)

Listed(e) == row[e] \notin {Nil, "staged"}

(* What holds of a request between two of its statements.                  *)
Knows(q) ==
    LET c == call[q] IN
    /\ c.pc \in {"remove", "delete"} =>
          /\ c.next # Nil
          /\ c.todo \subseteq expired
          /\ \A e \in c.todo : Listed(e) => e \in overrun
    /\ c.pc = "delete" => c.on \in c.todo
    /\ c.pc \in {"get", "mark"} =>
          c.on \in Ticket /\ (c.on \in expired => c.on \in overrun)
    /\ c.pc = "mark" => c.on \in file \cup overrun
    /\ c.pc = "commit" =>
          c.on \in Ticket /\ c.decision # Nil /\ row[c.on] = "submitted"

OneDecider ==
    \A p, q \in Request :
        Doing(p, "commit") /\ Doing(q, "commit") /\ call[p].on = call[q].on => p = q

(* What holds of a ticket.                                                 *)
Counted(e) ==
    /\ Len(trail[e]) <= marked[e]
    /\ row[e] = "submitted" => Len(trail[e]) < marked[e]

Backed(e) ==
    /\ row[e] # Nil => e \in ticketed
    /\ Listed(e) => e \in file \cup overrun

EvidenceInv ==
    /\ EvidenceTypeOK
    /\ OneDecider
    /\ \A q \in Request : Knows(q)
    /\ \A e \in Ticket : Counted(e) /\ Backed(e)

----------------------------------------------------------------------------
(* Steps.                                                                  *)

LEMMA IdleKnows == Idle \in Call /\ Idle.pc = "idle"
  BY DEF Idle, Call

(* A step of q that changes nothing but its own state.                     *)
LEMMA OwnStep ==
  ASSUME EvidenceInv, NEW q \in Request, NEW state \in Call,
         call' = [call EXCEPT ![q] = state], UNCHANGED <<Rows, file, Decisions>>,
         Knows(q)',
         state.pc = "commit" => Free(state.on)
  PROVE  EvidenceInv'
  <1>1. UNCHANGED <<row, ticketed, expired, file, level, trail, marked, overrun>>
    BY DEF Rows, Decisions
  <1>2. call'[q] = state /\ \A o \in Request \ {q} : call'[o] = call[o]
    BY DEF EvidenceInv, EvidenceTypeOK
  <1>3. EvidenceTypeOK'
    BY <1>1 DEF EvidenceInv, EvidenceTypeOK
  <1>4. \A o \in Request \ {q} : Knows(o)'
    BY <1>1, <1>2 DEF EvidenceInv, Knows, Listed
  <1>5. \A e \in Ticket : (Counted(e) /\ Backed(e))'
    BY <1>1 DEF EvidenceInv, Counted, Backed, Listed
  <1> QED BY <1>2, <1>3, <1>4, <1>5 DEF EvidenceInv, OneDecider, Doing, Free

(* A step of q that leaves q idle changes what the others know of nothing  *)
(* they hold.                                                              *)
LEMMA EndStep ==
  ASSUME EvidenceInv, NEW q \in Request, End(q),
         UNCHANGED <<Rows, file, Decisions>>
  PROVE  EvidenceInv'
  <1>1. call' = [call EXCEPT ![q] = Idle] /\ call'[q] = Idle
    BY DEF End, EvidenceInv, EvidenceTypeOK
  <1>2. Knows(q)'
    BY <1>1 DEF Knows, Idle
  <1> QED BY <1>1, <1>2, IdleKnows, OwnStep

LEMMA CleanupStep ==
  ASSUME EvidenceInv, NEW q \in Request, NEW next \in {"count", "gone"},
         StartEvidenceCleanup(q, next), UNCHANGED <<Rows, file, Decisions>>
  PROVE  EvidenceInv'
  <1> DEFINE found == {e \in Ticket : StaleTicket(e)}
             state == IF found = {} THEN [Idle EXCEPT !.pc = next]
                      ELSE [Idle EXCEPT !.pc = "remove", !.todo = found, !.next = next]
  <1>1. call' = [call EXCEPT ![q] = state]
    BY DEF StartEvidenceCleanup
  <1>2. state \in Call /\ state.pc \in {"count", "gone", "remove"}
        /\ (state.pc = "remove" => state.todo = found /\ state.next = next)
    BY DEF Idle, Call
  <1>3. found \subseteq expired /\ \A e \in found : ~Listed(e)
    BY DEF StaleTicket, Listed
  <1> HIDE DEF found, state
  <1>4. call'[q] = state /\ UNCHANGED <<row, expired, overrun>>
    BY <1>1 DEF EvidenceInv, EvidenceTypeOK, Rows
  <1>5. next # Nil
    BY EvidenceAssumption
  <1>6. Knows(q)'
    BY <1>2, <1>3, <1>4, <1>5 DEF Knows, Listed
  <1> QED BY <1>1, <1>2, <1>6, OwnStep

(* The state of q after a change of pc alone.                              *)
LEMMA GoesOn ==
  ASSUME EvidenceInv, NEW q \in Request, NEW pc \in {"insert", "mark"},
         call' = [call EXCEPT ![q].pc = pc], UNCHANGED <<Rows, file, Decisions>>,
         pc = "mark" => Doing(q, "get") /\ call[q].on \in file
  PROVE  EvidenceInv'
  <1> DEFINE state == [call[q] EXCEPT !.pc = pc]
  <1>1. call' = [call EXCEPT ![q] = state] /\ call[q] \in Call /\ Knows(q)
    BY DEF EvidenceInv, EvidenceTypeOK
  <1>2. state \in Call /\ state.pc = pc /\ state.on = call[q].on
    BY <1>1 DEF Call
  <1> HIDE DEF state
  <1>3. call'[q] = state /\ UNCHANGED <<row, expired, overrun, file>>
    BY <1>1 DEF EvidenceInv, EvidenceTypeOK, Rows
  <1>4. Knows(q)'
    BY <1>1, <1>2, <1>3 DEF Knows, Listed, Doing
  <1> QED BY <1>1, <1>2, <1>4, OwnStep

LEMMA FinalizeEvidenceStep ==
  ASSUME EvidenceInv, NEW q \in Request, NEW e \in Ticket, FinalizeEvidence(q, e)
  PROVE  EvidenceInv'
  <1>1. CASE e \in expired
    BY <1>1, CleanupStep DEF FinalizeEvidence
  <1>2. CASE e \notin expired
    <2> DEFINE state == [Idle EXCEPT !.pc = "get", !.on = e]
    <2>1. call' = [call EXCEPT ![q] = state] /\ UNCHANGED <<Rows, file, Decisions>>
      BY <1>2 DEF FinalizeEvidence
    <2>2. state \in Call /\ state.pc = "get" /\ state.on = e
      BY DEF Idle, Call
    <2> HIDE DEF state
    <2>3. call'[q] = state /\ UNCHANGED expired
      BY <2>1 DEF EvidenceInv, EvidenceTypeOK, Rows
    <2>4. Knows(q)'
      BY <1>2, <2>2, <2>3 DEF Knows
    <2> QED BY <2>1, <2>2, <2>4, OwnStep
  <1> QED BY <1>1, <1>2

LEMMA DecideStep ==
  ASSUME EvidenceInv, NEW q \in Request, NEW e \in Ticket,
         NEW d \in {"accepted", "rejected"}, DecideEvidence(q, e, d)
  PROVE  EvidenceInv'
  <1> DEFINE state == [Idle EXCEPT !.pc = "commit", !.on = e, !.decision = d]
  <1>1. call' = [call EXCEPT ![q] = state] /\ UNCHANGED <<Rows, file, Decisions>>
        /\ Free(e) /\ row[e] = "submitted"
    BY DEF DecideEvidence
  <1>2. state \in Call /\ state.pc = "commit" /\ state.on = e /\ state.decision = d
    BY DEF Idle, Call
  <1> HIDE DEF state
  <1>3. call'[q] = state /\ UNCHANGED row /\ d # Nil
    BY <1>1, EvidenceAssumption DEF EvidenceInv, EvidenceTypeOK, Rows
  <1>4. Knows(q)'
    BY <1>1, <1>2, <1>3 DEF Knows
  <1> QED BY <1>1, <1>2, <1>4, OwnStep

LEMMA RemoveObjectStep ==
  ASSUME EvidenceInv, NEW q \in Request, RemoveObject(q)
  PROVE  EvidenceInv'
  <1>1. ASSUME NEW e \in call[q].todo, file' = file \ {e},
               call' = [call EXCEPT ![q].pc = "delete", ![q].on = e]
        PROVE  EvidenceInv'
    <2> DEFINE state == [call[q] EXCEPT !.pc = "delete", !.on = e]
    <2>1. UNCHANGED <<row, ticketed, expired, level, trail, marked, overrun>> /\ Doing(q, "remove")
      BY DEF RemoveObject, Rows, Decisions
    <2>2. call[q] \in Call /\ Knows(q) /\ call' = [call EXCEPT ![q] = state]
          /\ \A o \in Request \ {q} : call'[o] = call[o]
      BY <1>1 DEF EvidenceInv, EvidenceTypeOK
    <2>3. e \in Ticket /\ e \in expired /\ (Listed(e) => e \in overrun)
      BY <2>1, <2>2 DEF Knows, Call, Doing
    <2>4. state \in Call /\ state.pc = "delete" /\ state.on = e
          /\ state.todo = call[q].todo /\ state.next = call[q].next
      BY <2>2, <2>3 DEF Call
    <2> HIDE DEF state
    <2>5. call'[q] = state
      BY <2>2 DEF EvidenceInv, EvidenceTypeOK
    <2>6. EvidenceTypeOK'
      BY <1>1, <2>1, <2>2, <2>4 DEF EvidenceInv, EvidenceTypeOK
    <2>7. \A o \in Request : Knows(o)'
      <3>1. Knows(q)'
        BY <2>1, <2>2, <2>4, <2>5 DEF Knows, Listed, Doing
      <3>2. ASSUME NEW o \in Request \ {q} PROVE Knows(o)'
        <4>1. Knows(o) /\ call'[o] = call[o]
          BY <2>2 DEF EvidenceInv
        <4>2. UNCHANGED <<row, expired, overrun>> /\ file' = file \ {e}
          BY <1>1, <2>1
        <4>3. call[o].pc = "mark" => call[o].on \in file' \cup overrun
          BY <2>3, <4>1, <4>2 DEF Knows
        <4> QED BY <4>1, <4>2, <4>3 DEF Knows, Listed
      <3> QED BY <3>1, <3>2
    <2>8. OneDecider'
      BY <2>2, <2>4, <2>5 DEF EvidenceInv, OneDecider, Doing
    <2>9. \A x \in Ticket : (Counted(x) /\ Backed(x))'
      BY <1>1, <2>1, <2>3 DEF EvidenceInv, Counted, Backed, Listed
    <2> QED BY <2>6, <2>7, <2>8, <2>9 DEF EvidenceInv
  <1>2. CASE End(q) /\ UNCHANGED file
    BY <1>2, EndStep DEF RemoveObject
  <1> QED BY <1>1, <1>2 DEF RemoveObject

LEMMA DeleteRowStep ==
  ASSUME EvidenceInv, NEW q \in Request, DeleteRow(q)
  PROVE  EvidenceInv'
  <1> DEFINE e == call[q].on
             left == call[q].todo \ {e}
             state == IF left = {} THEN [Idle EXCEPT !.pc = call[q].next]
                      ELSE [call[q] EXCEPT !.pc = "remove", !.todo = left, !.on = Nil]
  <1>1. /\ call[q] \in Call /\ Knows(q) /\ Doing(q, "delete") /\ Free(e)
        /\ UNCHANGED <<ticketed, expired, file, level, trail, marked, overrun>>
        /\ call' = [call EXCEPT ![q] = state]
        /\ row' = IF StaleTicket(e) THEN [row EXCEPT ![e] = Nil] ELSE row
    BY DEF EvidenceInv, EvidenceTypeOK, DeleteRow, Decisions
  <1>2. /\ e \in Ticket /\ left \subseteq Ticket /\ left \subseteq call[q].todo
        /\ call[q].next \in {"count", "gone"} /\ call[q].next # Nil
    BY <1>1 DEF Knows, Call, Doing
  <1>3. /\ state \in Call /\ state.pc \in {"count", "gone", "remove"}
        /\ state.pc = "remove" => state.todo = left /\ state.next = call[q].next
    BY <1>1, <1>2 DEF Call, Idle
  <1> HIDE DEF state, left, e
  <1>4. call'[q] = state /\ \A o \in Request \ {q} : call'[o] = call[o]
    BY <1>1 DEF EvidenceInv, EvidenceTypeOK
  <1>5. EvidenceTypeOK'
    BY <1>1, <1>2, <1>3 DEF EvidenceInv, EvidenceTypeOK
  <1>6. \A x \in Ticket : /\ Listed(x)' => Listed(x)
                          /\ row'[x] = "submitted" => row[x] = "submitted"
                          /\ row[x] = "submitted" => row'[x] = row[x]
    BY <1>1, <1>2, EvidenceAssumption DEF EvidenceInv, EvidenceTypeOK, Listed, StaleTicket
  <1>7. \A o \in Request : Knows(o)'
    <2>1. Knows(q)'
      BY <1>1, <1>2, <1>3, <1>4, <1>6 DEF Knows, Listed, Doing
    <2>2. ASSUME NEW o \in Request \ {q} PROVE Knows(o)'
      <3>1. Knows(o) /\ call'[o] = call[o] /\ call[o] \in Call
        BY <1>4 DEF EvidenceInv, EvidenceTypeOK
      <3> QED BY <1>1, <1>6, <3>1 DEF Knows, Listed, Call
    <2> QED BY <2>1, <2>2
  <1>8. OneDecider'
    BY <1>3, <1>4 DEF EvidenceInv, OneDecider, Doing
  <1>9. \A x \in Ticket : (Counted(x) /\ Backed(x))'
    BY <1>1, <1>6 DEF EvidenceInv, Counted, Backed, Listed
  <1> QED BY <1>5, <1>7, <1>8, <1>9 DEF EvidenceInv

LEMMA InsertEvidenceStep ==
  ASSUME EvidenceInv, NEW q \in Request, InsertEvidence(q)
  PROVE  EvidenceInv'
  <1> DEFINE e == CHOOSE e \in Ticket \ ticketed : TRUE
  <1>1. /\ e \in Ticket \ ticketed
        /\ row' = [row EXCEPT ![e] = "staged"] /\ ticketed' = ticketed \cup {e}
        /\ UNCHANGED <<expired, file, level, trail, marked, overrun>>
        /\ call' = [call EXCEPT ![q] = Idle]
    BY DEF EvidenceInv, EvidenceTypeOK, InsertEvidence, Decisions, End
  <1> HIDE DEF e
  <1>2. call'[q] = Idle /\ \A o \in Request \ {q} : call'[o] = call[o]
    BY <1>1 DEF EvidenceInv, EvidenceTypeOK
  <1>3. EvidenceTypeOK'
    BY <1>1, IdleKnows DEF EvidenceInv, EvidenceTypeOK
  <1>4. e \notin expired /\ \A x \in Ticket : Listed(x)' => Listed(x)
    BY <1>1 DEF EvidenceInv, EvidenceTypeOK, Listed
  <1>5. OneDecider'
    BY <1>2, IdleKnows DEF EvidenceInv, OneDecider, Doing
  <1>6. \A o \in Request : Knows(o)'
    <2>1. Knows(q)'
      BY <1>2, IdleKnows DEF Knows
    <2>2. ASSUME NEW o \in Request \ {q} PROVE Knows(o)'
      <3>1. Knows(o) /\ call'[o] = call[o] /\ call[o] \in Call
        BY <1>2 DEF EvidenceInv, EvidenceTypeOK
      <3>2. call[o].pc = "commit" => row'[call[o].on] = "submitted"
        <4>1. call[o].pc = "commit" => call[o].on \in ticketed
          <5>1. \A x \in Ticket : row[x] # Nil => x \in ticketed
            BY DEF EvidenceInv, Backed
          <5> QED BY <3>1, <5>1, EvidenceAssumption DEF Knows
        <4> QED BY <1>1, <3>1, <4>1 DEF Knows, EvidenceInv, EvidenceTypeOK
      <3> QED BY <1>1, <1>4, <3>1, <3>2 DEF Knows, Call
    <2> QED BY <2>1, <2>2
  <1>7. \A x \in Ticket : (Counted(x) /\ Backed(x))'
    BY <1>1, <1>4 DEF EvidenceInv, EvidenceTypeOK, Counted, Backed
  <1> QED BY <1>3, <1>5, <1>6, <1>7 DEF EvidenceInv

LEMMA UploadEvidenceStep ==
  ASSUME EvidenceInv, NEW e \in Ticket, UploadEvidence(e)
  PROVE  EvidenceInv'
  <1>1. /\ UNCHANGED <<row, ticketed, expired, level, trail, marked, overrun, call>>
        /\ file' = file \cup {e} /\ e \in ticketed
    BY DEF UploadEvidence, Rows, Decisions
  <1>2. EvidenceTypeOK'
    BY <1>1 DEF EvidenceInv, EvidenceTypeOK
  <1>3. OneDecider' /\ \A q \in Request : Knows(q)'
    BY <1>1 DEF EvidenceInv, OneDecider, Knows, Doing, Listed
  <1>4. \A x \in Ticket : (Counted(x) /\ Backed(x))'
    BY <1>1 DEF EvidenceInv, Counted, Backed, Listed
  <1> QED BY <1>2, <1>3, <1>4 DEF EvidenceInv

LEMMA ExpireStep ==
  ASSUME EvidenceInv, NEW e \in Ticket, Expire(e)
  PROVE  EvidenceInv'
  <1>1. /\ UNCHANGED <<row, ticketed, file, level, trail, marked, call>>
        /\ expired' = expired \cup {e} /\ e \in ticketed
        /\ overrun \subseteq overrun' /\ overrun' \subseteq overrun \cup {e}
        /\ \A q \in Request :
              call[q].on = e /\ call[q].pc \in {"get", "mark"} => e \in overrun'
    BY DEF Expire, Decisions
  <1>2. EvidenceTypeOK'
    BY <1>1 DEF EvidenceInv, EvidenceTypeOK
  <1>3. OneDecider'
    BY <1>1 DEF EvidenceInv, OneDecider, Doing
  <1>4. ASSUME NEW q \in Request PROVE Knows(q)'
    <2>1. Knows(q) /\ call'[q] = call[q]
      BY <1>1 DEF EvidenceInv
    <2>2. call[q].pc \in {"get", "mark"} => (call[q].on \in expired' => call[q].on \in overrun')
      BY <1>1, <2>1 DEF Knows
    <2>3. call[q].pc = "mark" => call[q].on \in file' \cup overrun'
      BY <1>1, <2>1 DEF Knows
    <2> QED BY <1>1, <2>1, <2>2, <2>3 DEF Knows, Listed
  <1>5. \A x \in Ticket : (Counted(x) /\ Backed(x))'
    BY <1>1 DEF EvidenceInv, Counted, Backed, Listed
  <1> QED BY <1>2, <1>3, <1>4, <1>5 DEF EvidenceInv

LEMMA MarkStep ==
  ASSUME EvidenceInv, NEW q \in Request, MarkSubmitted(q)
  PROVE  EvidenceInv'
  <1> DEFINE e == call[q].on
  <1>1. /\ Knows(q) /\ Doing(q, "mark") /\ Free(e)
        /\ UNCHANGED <<ticketed, expired, file, level, trail, overrun>>
        /\ call' = [call EXCEPT ![q] = Idle]
    BY DEF EvidenceInv, MarkSubmitted, Decisions, End
  <1>2. CASE row[e] = Nil
    BY <1>2, EndStep DEF MarkSubmitted, Rows, Decisions
  <1>3. CASE row[e] # Nil
    <2>1. row' = [row EXCEPT ![e] = "submitted"] /\ marked' = [marked EXCEPT ![e] = @ + 1]
      BY <1>3 DEF MarkSubmitted
    <2>2. e \in Ticket /\ (e \in expired => e \in overrun) /\ e \in file \cup overrun
      BY <1>1 DEF Knows, Doing
    <2> HIDE DEF e
    <2>3. call'[q] = Idle /\ \A o \in Request \ {q} : call'[o] = call[o]
      BY <1>1 DEF EvidenceInv, EvidenceTypeOK
    <2>4. EvidenceTypeOK'
      BY <1>1, <2>1, <2>2, IdleKnows DEF EvidenceInv, EvidenceTypeOK
    <2>5. OneDecider'
      BY <2>3, IdleKnows DEF EvidenceInv, OneDecider, Doing
    <2>6. \A x \in Ticket : x # e => row'[x] = row[x] /\ marked'[x] = marked[x]
      BY <2>1 DEF EvidenceInv, EvidenceTypeOK
    <2>7. ASSUME NEW o \in Request \ {q} PROVE Knows(o)'
      <3>1. Knows(o) /\ call'[o] = call[o] /\ call[o] \in Call
        BY <2>3 DEF EvidenceInv, EvidenceTypeOK
      <3>2. call[o].pc \in {"remove", "delete"} =>
              \A x \in call[o].todo : Listed(x)' => x \in overrun'
        BY <1>1, <2>2, <2>6, <3>1 DEF Knows, Call, Listed
      <3>3. call[o].pc = "commit" => row'[call[o].on] = "submitted"
        BY <2>1, <2>2, <2>6, <3>1 DEF Knows
      <3> QED BY <1>1, <3>1, <3>2, <3>3 DEF Knows
    <2>8. Knows(q)'
      BY <2>3, IdleKnows DEF Knows
    <2>9. ASSUME NEW x \in Ticket PROVE (Counted(x) /\ Backed(x))'
      <3>1. Counted(x) /\ Backed(x) /\ marked[x] \in Nat /\ Len(trail[x]) \in Nat
        BY DEF EvidenceInv, EvidenceTypeOK
      <3>2. CASE x = e
        <4>1. row[x] # Nil
          BY <1>3, <3>2 DEF e
        <4> QED BY <1>1, <2>1, <2>2, <3>1, <3>2, <4>1 DEF EvidenceInv, EvidenceTypeOK, Counted, Backed
      <3>3. CASE x # e
        BY <1>1, <2>6, <3>1, <3>3 DEF Counted, Backed, Listed
      <3> QED BY <3>2, <3>3
    <2> QED BY <2>4, <2>5, <2>7, <2>8, <2>9 DEF EvidenceInv
  <1> QED BY <1>2, <1>3

LEMMA CommitDecisionStep ==
  ASSUME EvidenceInv, NEW q \in Request, CommitDecision(q)
  PROVE  EvidenceInv'
  <1> DEFINE e == call[q].on
             d == call[q].decision
  <1>1. /\ Knows(q) /\ Doing(q, "commit") /\ call[q] \in Call
        /\ UNCHANGED <<ticketed, expired, file, marked, overrun>>
        /\ call' = [call EXCEPT ![q] = Idle]
        /\ row' = [row EXCEPT ![e] = d]
        /\ trail' = [trail EXCEPT ![e] = Append(@, d)]
        /\ level' = IF d = "accepted" THEN Upgraded(LevelBy[e]) ELSE level
    BY DEF EvidenceInv, EvidenceTypeOK, CommitDecision, End
  <1>2. e \in Ticket /\ row[e] = "submitted" /\ d \in {"accepted", "rejected"}
    BY <1>1 DEF Knows, Doing, Call
  <1> HIDE DEF e, d
  <1>3. call'[q] = Idle /\ \A o \in Request \ {q} : call'[o] = call[o]
    BY <1>1 DEF EvidenceInv, EvidenceTypeOK
  <1>4. EvidenceTypeOK'
    <2>1. level' \in DOMAIN Rank
      BY <1>1, <1>2, EvidenceAssumption DEF EvidenceInv, EvidenceTypeOK, Upgraded, VerifiedLevels, Rank
    <2> QED BY <1>1, <1>2, <2>1, IdleKnows DEF EvidenceInv, EvidenceTypeOK
  <1>5. OneDecider'
    BY <1>3, IdleKnows DEF EvidenceInv, OneDecider, Doing
  <1>6. \A x \in Ticket : x # e => row'[x] = row[x] /\ trail'[x] = trail[x]
    BY <1>1 DEF EvidenceInv, EvidenceTypeOK
  <1>7. Knows(q)'
    BY <1>3, IdleKnows DEF Knows
  <1>8. ASSUME NEW o \in Request \ {q} PROVE Knows(o)'
    <2>1. Knows(o) /\ call'[o] = call[o] /\ call[o] \in Call
      BY <1>3 DEF EvidenceInv, EvidenceTypeOK
    <2>2. call[o].pc \in {"remove", "delete"} =>
            \A x \in call[o].todo : Listed(x)' => x \in overrun'
      <3>1. Listed(e)
        BY <1>2, EvidenceAssumption DEF Listed
      <3> QED BY <1>1, <1>6, <2>1, <3>1 DEF Knows, Call, Listed
    <2>3. call[o].pc = "commit" => call[o].on # e
      BY <1>1, <2>1 DEF EvidenceInv, OneDecider, Doing, e
    <2>4. call[o].pc = "commit" => row'[call[o].on] = "submitted"
      BY <1>6, <2>1, <2>3 DEF Knows
    <2> QED BY <1>1, <2>1, <2>2, <2>4 DEF Knows
  <1>9. ASSUME NEW x \in Ticket PROVE (Counted(x) /\ Backed(x))'
    <2>1. Counted(x) /\ Backed(x) /\ marked[x] \in Nat /\ trail[x] \in Seq({"accepted", "rejected"})
      BY DEF EvidenceInv, EvidenceTypeOK
    <2>2. CASE x = e
      <3>1. row'[x] = d /\ trail'[x] = Append(trail[x], d)
        BY <1>1, <1>2, <2>2 DEF EvidenceInv, EvidenceTypeOK
      <3>2. Len(trail'[x]) = Len(trail[x]) + 1 /\ Len(trail[x]) \in Nat
        BY <1>2, <2>1, <3>1
      <3>3. Len(trail[x]) < marked[x] /\ x \in ticketed /\ x \in file \cup overrun
        BY <1>2, <2>1, <2>2, EvidenceAssumption DEF Counted, Backed, Listed
      <3> QED BY <1>1, <1>2, <2>1, <3>1, <3>2, <3>3 DEF Counted, Backed
    <2>3. CASE x # e
      BY <1>1, <1>6, <2>1, <2>3 DEF Counted, Backed, Listed
    <2> QED BY <2>2, <2>3
  <1> QED BY <1>4, <1>5, <1>7, <1>8, <1>9 DEF EvidenceInv

----------------------------------------------------------------------------
LEMMA InitEvidence == EvidenceInit => EvidenceInv
  <1> SUFFICES ASSUME EvidenceInit PROVE EvidenceInv
    OBVIOUS
  <1>1. EvidenceTypeOK
    BY IdleKnows DEF EvidenceInit, EvidenceTypeOK, Rank
  <1>2. OneDecider /\ \A q \in Request : Knows(q)
    BY IdleKnows DEF EvidenceInit, OneDecider, Knows, Doing
  <1>3. \A e \in Ticket : Counted(e) /\ Backed(e)
    BY EvidenceAssumption DEF EvidenceInit, Counted, Backed, Listed
  <1> QED BY <1>1, <1>2, <1>3 DEF EvidenceInv

LEMMA NextEvidence == EvidenceInv /\ [EvidenceNext]_evidenceVars => EvidenceInv'
  <1> SUFFICES ASSUME EvidenceInv, [EvidenceNext]_evidenceVars PROVE EvidenceInv'
    OBVIOUS
  <1>1. CASE UNCHANGED evidenceVars
    BY <1>1 DEF evidenceVars, EvidenceInv, EvidenceTypeOK, OneDecider, Knows, Counted, Backed, Listed, Doing
  <1>2. ASSUME NEW e \in Ticket, UploadEvidence(e) \/ Expire(e) PROVE EvidenceInv'
    BY <1>2, UploadEvidenceStep, ExpireStep
  <1>3. ASSUME NEW q \in Request, Author(q) PROVE EvidenceInv'
    <2>1. CASE PresignEvidence(q)
      BY <2>1, CleanupStep DEF PresignEvidence
    <2>2. CASE CountEvidence(q)
      BY <2>2, EndStep, GoesOn DEF CountEvidence
    <2>3. CASE CheckObject(q)
      BY <2>3, EndStep, GoesOn DEF CheckObject
    <2>4. CASE Gone(q)
      BY <2>4, EndStep DEF Gone
    <2> QED BY <1>3, <2>1, <2>2, <2>3, <2>4, InsertEvidenceStep, FinalizeEvidenceStep,
               RemoveObjectStep, DeleteRowStep, MarkStep DEF Author
  <1>4. ASSUME NEW q \in Request, Moderator(q) PROVE EvidenceInv'
    BY <1>4, DecideStep, CommitDecisionStep DEF Moderator
  <1>5. ASSUME NEW q \in Request, GiveUp(q) PROVE EvidenceInv'
    BY <1>5, EndStep DEF GiveUp
  <1> QED BY <1>1, <1>2, <1>3, <1>4, <1>5 DEF EvidenceNext

(* The inductive invariant holds.                                          *)
THEOREM EvidenceIsKept == EvidenceSpec => []EvidenceInv
  BY InitEvidence, NextEvidence, PTL DEF EvidenceSpec

(* Every variable keeps its type.                                          *)
THEOREM EvidenceTyped == EvidenceSpec => []EvidenceTypeOK
  <1>1. EvidenceInv => EvidenceTypeOK
    BY DEF EvidenceInv
  <1> QED BY <1>1, EvidenceIsKept, PTL

(* A decision answers a submission of its own, for any number of tickets   *)
(* and requests (moderation.go:361).                                       *)
THEOREM EachDecided == EvidenceSpec => []OneDecisionEach
  <1>1. EvidenceInv => OneDecisionEach
    BY DEF EvidenceInv, OneDecisionEach, Counted
  <1> QED BY <1>1, EvidenceIsKept, PTL

(* The file of evidence finalized in time is there while it is listed,     *)
(* whichever cleanups run (media.go:143).                                  *)
THEOREM FilesKept == EvidenceSpec => []FileKept
  <1>1. EvidenceInv => FileKept
    BY DEF EvidenceInv, FileKept, Backed, Listed, ListEvidence
  <1> QED BY <1>1, EvidenceIsKept, PTL

----------------------------------------------------------------------------
(* The label.                                                              *)

LEMMA AcceptedStays ==
  ASSUME EvidenceInv, NEW q \in Request, CommitDecision(q), NEW e \in Ticket
  PROVE  Accepted(e)' <=>
           Accepted(e) \/ (e = call[q].on /\ call[q].decision = "accepted")
  <1>1. /\ trail[e] \in Seq({"accepted", "rejected"})
        /\ call[q].on \in Ticket /\ call[q].decision \in {"accepted", "rejected"}
    BY DEF EvidenceInv, EvidenceTypeOK, CommitDecision, Knows, Doing, Call
  <1>2. CASE e = call[q].on
    <2> DEFINE d == call[q].decision
    <2>1. trail'[e] = Append(trail[e], d)
      BY <1>1, <1>2 DEF CommitDecision, EvidenceInv, EvidenceTypeOK
    <2>2. /\ Len(trail[e]) \in Nat /\ DOMAIN trail[e] = 1..Len(trail[e])
          /\ DOMAIN trail'[e] = 1..(Len(trail[e]) + 1)
          /\ trail'[e][Len(trail[e]) + 1] = d
          /\ \A n \in 1..Len(trail[e]) : trail'[e][n] = trail[e][n]
      BY <1>1, <2>1
    <2> HIDE DEF d
    <2>3. Accepted(e)' <=> \E n \in 1..(Len(trail[e]) + 1) : trail'[e][n] = "accepted"
      BY <2>2 DEF Accepted
    <2>4. Accepted(e) <=> \E n \in 1..Len(trail[e]) : trail[e][n] = "accepted"
      BY <2>2 DEF Accepted
    <2>5. 1..(Len(trail[e]) + 1) = 1..Len(trail[e]) \cup {Len(trail[e]) + 1}
      BY <2>2
    <2>6. Accepted(e)' <=> Accepted(e) \/ d = "accepted"
      BY <2>2, <2>3, <2>4, <2>5
    <2> QED BY <1>2, <2>6 DEF d
  <1>3. CASE e # call[q].on
    BY <1>1, <1>3 DEF CommitDecision, EvidenceInv, EvidenceTypeOK, Accepted
  <1> QED BY <1>2, <1>3

(* The level of a review is the best one accepted for it, whatever the     *)
(* order of the decisions (repo.go:626; moderation.go:338-340).            *)
THEOREM LabelIsEarned == EvidenceSpec => []LabelEarned
  <1>1. EvidenceInit => LabelEarned
    BY DEF EvidenceInit, LabelEarned, Accepted, VerifiedLevels
  <1>2. EvidenceInv /\ LabelEarned /\ [EvidenceNext]_evidenceVars => LabelEarned'
    <2> SUFFICES ASSUME EvidenceInv, LabelEarned, [EvidenceNext]_evidenceVars PROVE LabelEarned'
      OBVIOUS
    <2>1. CASE UNCHANGED <<level, trail>>
      BY <2>1 DEF LabelEarned, Accepted
    <2>2. ASSUME NEW q \in Request, CommitDecision(q) PROVE LabelEarned'
      <3> DEFINE e == call[q].on
                 d == call[q].decision
      <3>1. e \in Ticket /\ level \in DOMAIN Rank
        BY <2>2 DEF EvidenceInv, EvidenceTypeOK, CommitDecision, Knows, Doing
      <3>2. level' = IF d = "accepted" THEN Upgraded(LevelBy[e]) ELSE level
        BY <2>2 DEF CommitDecision
      <3>3. \A x \in Ticket : Accepted(x)' <=> Accepted(x) \/ (x = e /\ d = "accepted")
        BY <2>2, AcceptedStays
      <3> HIDE DEF d, e
      <3>4. CASE d # "accepted" \/ (level' = level /\ Rank[LevelBy[e]] <= Rank[level])
        <4>1. level' = level
          BY <3>2, <3>4
        <4>2. \A x \in Ticket : Accepted(x)' => Rank[level] >= Rank[LevelBy[x]]
          BY <3>1, <3>3, <3>4 DEF LabelEarned
        <4> QED BY <3>3, <4>1, <4>2 DEF LabelEarned
      <3>5. CASE d = "accepted" /\ level' = LevelBy[e] /\ ~(Rank[LevelBy[e]] <= Rank[level])
        <4>1. \A x \in Ticket : Rank[LevelBy[x]] \in Nat
          BY EvidenceAssumption DEF VerifiedLevels, Rank
        <4>2. Rank[level] \in Nat
          BY <3>1 DEF Rank
        <4> QED BY <3>1, <3>3, <3>5, <4>1, <4>2 DEF LabelEarned
      <3> QED BY <3>2, <3>4, <3>5 DEF Upgraded
    <2>3. CASE EvidenceNext /\ ~(\E q \in Request : CommitDecision(q))
      <3>1. UNCHANGED Decisions
        BY <2>3 DEF EvidenceNext, UploadEvidence, Expire, Author, Moderator, GiveUp, PresignEvidence,
              CountEvidence, InsertEvidence, FinalizeEvidence, RemoveObject, DeleteRow, Gone,
              CheckObject, MarkSubmitted, DecideEvidence
      <3> QED BY <2>1, <3>1 DEF Decisions
    <2> QED BY <2>1, <2>2, <2>3 DEF evidenceVars
  <1> QED BY <1>1, <1>2, EvidenceIsKept, PTL DEF EvidenceSpec
================================================================================
