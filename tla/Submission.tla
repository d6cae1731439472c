------------------------------ MODULE Submission ------------------------------
(***************************************************************************)
(* How a review gets from a phone to the server: the wizard and the        *)
(* offline queue of the app (mobile/src/features/reviews), and the handler *)
(* of POST /reviews with its idempotency keys (internal/reviews).          *)
(*                                                                         *)
(* Each statement of the handler is a step, and each await of the queue.   *)
(* Answers get lost, requests are cut short (a client that hangs up        *)
(* cancels the context every later statement needs, also the one that      *)
(* would release the key), and either side may stop.                       *)
(*                                                                         *)
(* One target, which everybody reviews. The daily cap and the removal of a *)
(* review are left to ReviewTx, the upload of a photo to Media.              *)
(***************************************************************************)
EXTENDS Naturals, FiniteSets

CONSTANTS
    User,
    Key,            \* idempotency keys: one per wizard opened
    Rid,            \* ids of rows of reviews
    Slot,           \* requests in progress
    None,
    KeyLife,        \* 24 hours, in clock ticks
    Cooldown,       \* RepeatCooldown
    MaxAttempts,    \* MAX_ATTEMPTS
    MaxNow,         \* bound on the clock
    SwitchDuringRun \* whether accounts change while the queue is drained

VARIABLES
    keys,       \* idempotency_keys, by user and key
    reviews,    \* rows of reviews
    now,
    slot,       \* the requests being handled
    account,    \* who is signed in on the phone
    wizard,     \* the reviews being written
    jobs,       \* the queue in memory
    disk,       \* the queue in AsyncStorage
    run,        \* processQueue
    author,     \* history: who opened the wizard of each key
    sent        \* history: keys of the jobs that ended "done"

server == <<keys, reviews, now>>
phone == <<account, wizard, jobs, disk, run, author, sent>>
vars == <<keys, reviews, now, slot, account, wizard, jobs, disk, run, author, sent>>

KeyRow == [answer: Rid \cup {None}, born: Nat]

(* acked is history: whether the handler saw its COMMIT succeed.            *)
Review == [user: User, key: Key, at: Nat, acked: BOOLEAN]

Request == [pc: {"idle", "register", "lookup", "create", "complete", "abort", "answer"},
            client: {"wizard", "queue", None},
            user: User \cup {None},
            key: Key \cup {None},
            reply: Rid \cup {"rejected", "error", "unauthorized", None}]

NoRequest == [pc |-> "idle", client |-> None, user |-> None, key |-> None,
              reply |-> None]

GAVE_UP == "gave_up"

Job == [user: User, review: Rid \cup {None},
        failure: {None, "rejected", GAVE_UP}, attempts: Nat]

Run == [pc: {"idle", "next", "wait", "photos"},
        user: User \cup {None},             \* currentUserId
        batch: [Key -> Job \cup {None}],    \* jobs still to run
        key: Key \cup {None}]               \* the one running

NoJobs == [k \in Key |-> None]

NotRunning == [pc |-> "idle", user |-> None, batch |-> NoJobs, key |-> None]

TypeOK ==
    /\ keys \in [User \X Key -> KeyRow \cup {None}]
    /\ reviews \in [Rid -> Review \cup {None}]
    /\ now \in Nat
    /\ slot \in [Slot -> Request]
    /\ account \in User \cup {None}
    /\ wizard \subseteq Key
    /\ jobs \in [Key -> Job \cup {None}] /\ disk \in [Key -> Job \cup {None}]
    /\ run \in Run
    /\ author \in [Key -> User \cup {None}]
    /\ sent \subseteq Key

ASSUME SubmissionAssumption ==
    /\ Cooldown \in Nat /\ MaxNow \in Nat
    /\ KeyLife \in Nat \ {0} /\ MaxAttempts \in Nat \ {0}
    /\ SwitchDuringRun \in BOOLEAN
    /\ None \notin User \cup Key \cup Rid \cup KeyRow \cup Review \cup Job
    /\ None \notin {"wizard", "queue"}
    /\ Rid \cap {"rejected", "error", "unauthorized", "lost"} = {}

Init ==
    /\ keys = [uk \in User \X Key |-> None]
    /\ reviews = [r \in Rid |-> None]
    /\ now = 0
    /\ slot = [i \in Slot |-> NoRequest]
    /\ account = None
    /\ wizard = {}
    /\ jobs = NoJobs /\ disk = NoJobs
    /\ run = NotRunning
    /\ author = [k \in Key |-> None]
    /\ sent = {}

-------------------------------------------------------------------------------
(* The handler of POST /reviews.                                           *)

At(i) == <<slot[i].user, slot[i].key>>

Goto(i, pc) == slot' = [slot EXCEPT ![i].pc = pc]

Reply(i, r) == slot' = [slot EXCEPT ![i].pc = "answer", ![i].reply = r]

Keep == UNCHANGED <<now, phone>>

(* The access token is verified before the handler runs. An expired one is  *)
(* refused though its owner is still signed in: when the refresh fails with *)
(* anything but a 401 the phone keeps the session and passes the refusal on.*)
Unauthorized(i) ==
    /\ slot[i].pc = "register"
    /\ Reply(i, "unauthorized")
    /\ UNCHANGED <<keys, reviews>> /\ Keep

(* BeginIdempotent: the purge of old keys and the INSERT.                   *)
BeginIdempotent(i) ==
    LET purged == [uk \in User \X Key |->
            IF keys[uk] # None /\ keys[uk].born + KeyLife <= now THEN None ELSE keys[uk]]
    IN  /\ slot[i].pc = "register"
        /\ \/ /\ purged[At(i)] = None
              /\ keys' = [purged EXCEPT ![At(i)] =
                     [answer |-> None, born |-> now]]
              /\ Goto(i, "create")
           \/ /\ purged[At(i)] # None
              /\ keys' = purged
              /\ Goto(i, "lookup")
        /\ UNCHANGED reviews /\ Keep

(* BeginIdempotent, the key was there: a request said to be in progress is  *)
(* a conflict, an answer is replayed. The row may have been released since. *)
(* (The app changes the contents of a request only while it has no answer,  *)
(* so that the comparison of their hashes makes no difference to it.)       *)
Lookup(i) ==
    LET row == keys[At(i)]
    IN  /\ slot[i].pc = "lookup"
        /\ \/ row = None /\ Reply(i, "error")
           \/ row # None /\ row.answer = None /\ Reply(i, "rejected")
           \/ row # None /\ row.answer # None /\ Reply(i, row.answer)
        /\ UNCHANGED <<keys, reviews>> /\ Keep

(* latestActiveReview and RepeatCooldown, under the lock on the users row. *)
CoolingDown(u) ==
    \E r \in Rid : /\ reviews[r] # None
                   /\ reviews[r].user = u
                   /\ now < reviews[r].at + Cooldown

Insert(i) ==
    LET r == CHOOSE r \in Rid : reviews[r] = None
    IN  /\ \E free \in Rid : reviews[free] = None
        /\ \E acked \in BOOLEAN :
              /\ reviews' = [reviews EXCEPT ![r] =
                     [user |-> slot[i].user, key |-> slot[i].key, at |-> now, acked |-> acked]]
              /\ \/ acked /\ slot' = [slot EXCEPT ![i].pc = "complete", ![i].reply = r]
                 \/ ~acked /\ slot' = [slot EXCEPT ![i].pc = "abort", ![i].reply = "error"]

(* Repo.Create, one transaction (ReviewTx). Validate, the daily cap or the  *)
(* target may refuse it too. The answer of its COMMIT may be lost: the      *)
(* review is there and the handler sees an error.                          *)
Create(i) ==
    /\ slot[i].pc = "create"
    /\ \/ ~CoolingDown(slot[i].user) /\ Insert(i)
       \/ /\ \E e \in {"rejected", "error"} :
                slot' = [slot EXCEPT ![i].pc = "abort", ![i].reply = e]
          /\ UNCHANGED reviews
    /\ UNCHANGED keys /\ Keep

CompleteIdempotentOrRelease(i) ==
    /\ slot[i].pc = "complete"
    /\ \/ /\ keys' = [keys EXCEPT ![At(i)].answer = slot[i].reply]
          /\ Goto(i, "answer")
       \/ /\ keys' = [keys EXCEPT ![At(i)] = None]
          /\ Reply(i, "error")
    /\ UNCHANGED reviews /\ Keep

(* CompleteIdempotent: if it fails the client is told so, and the key stays *)
(* as it is.                                                               *)
CompleteIdempotent(i) ==
    /\ slot[i].pc = "complete"
    /\ \/ /\ keys' = IF keys[At(i)] = None THEN keys
                     ELSE [keys EXCEPT ![At(i)].answer = slot[i].reply]
          /\ Goto(i, "answer")
       \/ /\ Reply(i, "error")
          /\ UNCHANGED keys
    /\ UNCHANGED reviews /\ Keep

(* AbortIdempotent: releases a key that has no answer.                      *)
AbortIdempotent(i) ==
    /\ slot[i].pc = "abort"
    /\ \/ /\ keys' = IF keys[At(i)] # None /\ keys[At(i)].answer = None
                     THEN [keys EXCEPT ![At(i)] = None] ELSE keys
          /\ Goto(i, "answer")
       \/ /\ Reply(i, "error")
          /\ UNCHANGED keys
    /\ UNCHANGED reviews /\ Keep

create(i) ==
    \/ Unauthorized(i)
    \/ BeginIdempotent(i)
    \/ Lookup(i)
    \/ Create(i)
    \/ CompleteIdempotent(i)
    \/ AbortIdempotent(i)

(* Requests time out after 30 seconds, long before a tick has passed.      *)
Tick ==
    /\ now < MaxNow
    /\ \A i \in Slot : slot[i].pc = "idle"
    /\ now' = now + 1
    /\ UNCHANGED <<keys, reviews, slot, phone>>

-------------------------------------------------------------------------------
(* The phone. A request in a slot belongs to the wizard or the queue until  *)
(* it is answered or the connection breaks.                                *)

Send(client, k) ==
    LET i == CHOOSE i \in Slot : slot[i].pc = "idle"
    IN  /\ \E free \in Slot : slot[free].pc = "idle"
        /\ slot' = [slot EXCEPT ![i] = [NoRequest EXCEPT
               !.pc = "register", !.client = client, !.user = account, !.key = k]]

(* The phone hears no more of the request; the handler runs on, or stops at *)
(* its next statement.                                                     *)
HangUp(i) == slot' = [slot EXCEPT ![i].client = None]

Cut(i) ==
    /\ slot[i].pc # "idle" /\ slot[i].client = None
    /\ slot' = [slot EXCEPT ![i] = NoRequest]
    /\ UNCHANGED <<server, phone>>

(* What a client is told of its request, and what then is in the slot.      *)
Told(i, client, k, outcome) ==
    /\ slot[i].client = client /\ slot[i].key = k
    /\ \/ slot[i].pc = "answer" /\ outcome = slot[i].reply
          /\ slot' = [slot EXCEPT ![i] = NoRequest]
       \/ outcome = "lost" /\ HangUp(i)

NewJob(u, r) == [user |-> u, review |-> r, failure |-> None, attempts |-> 0]

OpenWizard(k) ==
    /\ account # None /\ author[k] = None
    /\ wizard' = wizard \cup {k}
    /\ author' = [author EXCEPT ![k] = account]
    /\ UNCHANGED <<server, slot, account, jobs, disk, run, sent>>

Sending(k) == \E i \in Slot : slot[i].client = "wizard" /\ slot[i].key = k

Submit(k) ==
    /\ k \in wizard /\ ~Sending(k)
    /\ Send("wizard", k)
    /\ UNCHANGED <<server, phone>>

enqueueReviewSubmission(k, r) ==
    /\ jobs' = [jobs EXCEPT ![k] = NewJob(account, r)]
    /\ wizard' = wizard \ {k}

SubmitOffline(k) ==
    /\ k \in wizard /\ ~Sending(k)
    /\ enqueueReviewSubmission(k, None)
    /\ UNCHANGED <<server, slot, account, disk, run, author, sent>>

(* An ApiError leaves the wizard open; photos that did not go through       *)
(* become a job.                                                           *)
SubmitAnswered(k, i) ==
    /\ \E outcome \in Rid \cup {"rejected", "error", "unauthorized", "lost"} :
        /\ Told(i, "wizard", k, outcome)
        /\ \/ /\ outcome \in Rid
              /\ \/ enqueueReviewSubmission(k, outcome)
                 \/ wizard' = wizard \ {k} /\ UNCHANGED jobs
           \/ outcome \in {"rejected", "error", "unauthorized"} /\ UNCHANGED <<wizard, jobs>>
           \/ outcome = "lost" /\ enqueueReviewSubmission(k, None)
    /\ UNCHANGED <<server, account, disk, run, author, sent>>

(* persist: what is awaited below as Saved.                                 *)
persist ==
    /\ disk # jobs
    /\ disk' = jobs
    /\ UNCHANGED <<server, slot, account, wizard, jobs, run, author, sent>>

Saved == disk = jobs

(* processQueue takes a copy of the queue and of the account. Offline it    *)
(* returns at once, which here is not to start.                             *)
processQueue ==
    /\ run.pc = "idle" /\ account # None
    /\ \E k \in Key : jobs[k] # None /\ jobs[k].failure = None
    /\ run' = [pc |-> "next", user |-> account, batch |-> jobs, key |-> None]
    /\ UNCHANGED <<server, slot, account, wizard, jobs, disk, author, sent>>

Runnable(k) ==
    /\ run.batch[k] # None /\ run.batch[k].failure = None
    /\ run.batch[k].user = run.user

(* The object of the queue, changed where the run holds it and, if it is    *)
(* still queued, there.                                                    *)
SetJob(k, job) == jobs' = IF jobs[k] = None THEN jobs ELSE [jobs EXCEPT ![k] = job]

NextJob(k) == run' = [run EXCEPT !.pc = "next", !.batch[k] = None, !.key = None]

FailedQuietly(k) ==
    /\ jobs' = [jobs EXCEPT ![k] = None]
    /\ sent' = sent \cup {k}
    /\ NextJob(k)

Failed(k) ==
    /\ SetJob(k, [run.batch[k] EXCEPT !.failure = "rejected"])
    /\ NextJob(k) /\ UNCHANGED sent

RetryForever(k) ==
    /\ SetJob(k, run.batch[k])
    /\ NextJob(k) /\ UNCHANGED sent

RetryLater(k) ==
    LET n == run.batch[k].attempts + 1
    IN  /\ SetJob(k, [run.batch[k] EXCEPT !.attempts = n,
                                          !.failure = IF n >= MaxAttempts THEN GAVE_UP ELSE None])
        /\ NextJob(k) /\ UNCHANGED sent

(* A job whose review exists goes on with its photos.                       *)
RunJob(k) ==
    /\ run.pc = "next" /\ Saved
    /\ Runnable(k)
    /\ \/ /\ run.batch[k].review = None /\ account # None
          /\ Send("queue", k)
          /\ run' = [run EXCEPT !.pc = "wait", !.key = k]
       \/ /\ run.batch[k].review # None
          /\ run' = [run EXCEPT !.pc = "photos", !.key = k]
          /\ UNCHANGED slot
    /\ UNCHANGED <<server, account, wizard, jobs, disk, author, sent>>

(* The copy has been gone through, or nobody is signed in any more: without *)
(* a session the request is refused and the run stops there.                *)
StopRun ==
    /\ run.pc = "next" /\ Saved
    /\ \/ \A k \in Key : ~Runnable(k)
       \/ account = None
    /\ run' = NotRunning
    /\ UNCHANGED <<server, slot, account, wizard, jobs, disk, author, sent>>

(* A 401 stops the run: no attempt is counted and nothing is written.       *)
RunAnswered(k, i) ==
    /\ run.pc = "wait" /\ run.key = k
    /\ \E outcome \in Rid \cup {"rejected", "error", "unauthorized", "lost"} :
        /\ Told(i, "queue", k, outcome)
        /\ \/ /\ outcome \in Rid
              /\ SetJob(k, [run.batch[k] EXCEPT !.review = outcome])
              /\ run' = [run EXCEPT !.pc = "photos", !.batch[k].review = outcome]
              /\ UNCHANGED sent
           \/ outcome = "rejected" /\ Failed(k)
           \/ outcome \in {"error", "lost"} /\ RetryLater(k)
           \/ outcome = "unauthorized" /\ run' = NotRunning /\ UNCHANGED <<jobs, sent>>
    /\ UNCHANGED <<server, account, wizard, disk, author>>

(* uploadPhotos: all through or refused, or some to try again. It keeps its *)
(* errors to itself: a 401 here is one of the refusals, and stops nothing.  *)
uploadPhotos(k) ==
    /\ run.pc = "photos" /\ run.key = k /\ Saved
    /\ \/ /\ jobs' = [jobs EXCEPT ![k] = None]
          /\ sent' = sent \cup {k}
          /\ NextJob(k)
       \/ RetryLater(k)
    /\ UNCHANGED <<server, slot, account, wizard, disk, author>>

retryJob(k) ==
    /\ jobs[k] # None /\ jobs[k].failure = GAVE_UP
    /\ jobs' = [jobs EXCEPT ![k].failure = None, ![k].attempts = 0]
    /\ UNCHANGED <<server, slot, account, wizard, disk, run, author, sent>>

dismissJob(k) ==
    /\ jobs[k] # None /\ jobs[k].failure # None
    /\ jobs' = [jobs EXCEPT ![k] = None]
    /\ UNCHANGED <<server, slot, account, wizard, disk, run, author, sent>>

MayLeave == SwitchDuringRun \/ run.pc = "idle"

CloseWizards ==
    /\ wizard' = {}
    /\ slot' = [i \in Slot |-> IF slot[i].client = "wizard"
                               THEN [slot[i] EXCEPT !.client = None] ELSE slot[i]]

SignIn(u) ==
    /\ account = None
    /\ account' = u
    /\ UNCHANGED <<server, slot, wizard, jobs, disk, run, author, sent>>

(* logout wipes the queue; a session that ended by itself leaves it.        *)
SignOut ==
    /\ account # None /\ MayLeave
    /\ account' = None
    /\ jobs' \in {NoJobs, jobs}
    /\ CloseWizards
    /\ UNCHANGED <<server, disk, run, author, sent>>

(* The app is killed: what was not saved is gone.                           *)
Killed ==
    /\ jobs' = disk
    /\ run' = NotRunning
    /\ wizard' = {}
    /\ slot' = [i \in Slot |-> [slot[i] EXCEPT !.client = None]]
    /\ UNCHANGED <<server, account, disk, author, sent>>

drain(k) ==
    \/ RunJob(k)
    \/ uploadPhotos(k)
    \/ \E i \in Slot : RunAnswered(k, i)

UsePhone ==
    \/ \E k \in Key :
          \/ OpenWizard(k)
          \/ Submit(k) \/ SubmitOffline(k)
          \/ \E i \in Slot : SubmitAnswered(k, i)
          \/ drain(k)
          \/ retryJob(k) \/ dismissJob(k)
    \/ processQueue \/ StopRun \/ persist
    \/ \E u \in User : SignIn(u)
    \/ SignOut

Phone == UsePhone \/ Killed

Handle(i) == create(i) \/ Cut(i)

Next ==
    \/ \E i \in Slot : Handle(i)
    \/ Phone
    \/ Tick

Spec == Init /\ [][Next]_vars

(* The queue's request for k gets past the check of its access token.       *)
Admitted(i, k) ==
    /\ slot[i].client = "queue" /\ slot[i].key = k
    /\ BeginIdempotent(i)

(* Handlers end, writes to storage end, the queue is drained when the app   *)
(* starts, reconnects or comes to the foreground, the app is not killed for *)
(* ever, and the refresh of a session does not fail on every run.           *)
Fairness ==
    /\ \A i \in Slot : WF_vars(Handle(i))
    /\ \A k \in Key : SF_vars(drain(k))
    /\ WF_vars(persist) /\ SF_vars(StopRun) /\ SF_vars(processQueue)
    /\ \A i \in Slot, k \in Key : SF_vars(Admitted(i, k))
    /\ <>[][Killed => UsePhone]_vars

FairSpec == Spec /\ Fairness

-------------------------------------------------------------------------------

(* Within the life of a key no two of the reviews it created were both      *)
(* acknowledged to the handler, however often it is sent again, by two      *)
(* requests at once, after a lost answer or a kill, and whatever is refused,*)
(* released or purged in between (idempotency.go:40-100). It is not left to *)
(* the cooldown.                                                           *)
OncePerKey ==
    \A r, s \in Rid :
        /\ r # s /\ reviews[r] # None /\ reviews[s] # None
        /\ reviews[r].user = reviews[s].user /\ reviews[r].key = reviews[s].key
        /\ reviews[r].acked /\ reviews[s].acked
        => reviews[r].at + KeyLife <= reviews[s].at \/ reviews[s].at + KeyLife <= reviews[r].at

(* What offline-queue.ts:178-184 says: no job is replayed under another     *)
(* account than its author's. The code keeps it only while the account does *)
(* not change during a run.                                                *)
UnderOwnName ==
    \A r \in Rid : reviews[r] # None => reviews[r].user = author[reviews[r].key]

(* A job leaves the queue as done only when its review was created.         *)
DoneIsThere ==
    \A k \in sent : \E r \in Rid :
        /\ reviews[r] # None
        /\ reviews[r].key = k /\ reviews[r].user = author[k]

Waiting(k) == jobs[k] # None /\ jobs[k].failure = None

(* While its owner stays signed in a job does not wait for ever: it gets    *)
(* through, or the owner is told that it did not.                          *)
QueueSettles ==
    \A k \in Key :
        Waiting(k) /\ account = author[k] ~> ~Waiting(k) \/ account # author[k]

(* "Original request still in flight" (idempotency.go:67-69): a key without *)
(* an answer is one whose request is being handled.                        *)
OriginalInFlight ==
    \A u \in User, k \in Key :
        keys[<<u, k>>] # None /\ keys[<<u, k>>].answer = None =>
            \E i \in Slot : /\ <<slot[i].user, slot[i].key>> = <<u, k>>
                            /\ slot[i].pc \in {"create", "complete", "abort"}
=============================================================================
