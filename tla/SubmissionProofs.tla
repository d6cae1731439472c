--------------------------- MODULE SubmissionProofs ---------------------------
(***************************************************************************)
(* Theorems about Submission: no two acknowledged reviews within the life  *)
(* of a key, for any number of accounts, keys and requests; and, as long   *)
(* as nobody signs out while the queue is drained, each job done only with *)
(* its review created under the name of its author.                        *)
(***************************************************************************)
EXTENDS Submission, TLAPS

(* The inductive invariant. A request is somebody's, for some key, and only *)
(* one that created a review completes its key; the queue works on a job it *)
(* holds.                                                                   *)
Asked ==
    \A i \in Slot :
        /\ slot[i].pc # "idle" => slot[i].user \in User /\ slot[i].key \in Key
        /\ slot[i].pc = "complete" => slot[i].reply \in Rid

(* The wizard waits for one request at a time, and only while it is open.   *)
Writing ==
    \A i \in Slot : slot[i].client = "wizard" =>
        /\ slot[i].key \in wizard
        /\ \A j \in Slot : slot[j].client = "wizard" /\ slot[j].key = slot[i].key => i = j

Held ==
    run.pc \in {"wait", "photos"} =>
        /\ run.key \in Key
        /\ run.batch[run.key] # None
        /\ run.pc = "photos" => run.batch[run.key].review \in Rid

SubmissionInv ==
    /\ TypeOK
    /\ Asked /\ Writing
    /\ wizard # {} => account \in User
    /\ Held

LEMMA IdleTypes ==
  /\ NoRequest \in Request /\ NoJobs \in [Key -> Job \cup {None}] /\ NotRunning \in Run
  BY DEF NoRequest, Request, NoJobs, NotRunning, Run

LEMMA NoneNoJob == None \notin Job
  BY SubmissionAssumption

LEMMA NotAWord == None \notin {"wizard", "queue"}
  BY SubmissionAssumption

LEMMA InitInv == Init => SubmissionInv
  BY IdleTypes, NotAWord DEF Init, SubmissionInv, TypeOK, Asked, Held, Writing, NoRequest, NotRunning

(* No wizard hears of another request than before.                          *)
Fewer ==
    \A i \in Slot : slot'[i].client = "wizard" =>
        slot[i].client = "wizard" /\ slot'[i].key = slot[i].key

LEMMA FewerWrite ==
  ASSUME Writing, Fewer, wizard' = wizard
  PROVE  Writing'
  BY DEF Writing, Fewer

(* What the statements of the handler do to the slot they run in.           *)
LEMMA SlotKept ==
  ASSUME SubmissionInv, NEW i \in Slot, slot[i].pc # "idle",
         NEW pc \in {"idle", "register", "lookup", "create", "complete", "abort", "answer"},
         NEW r \in Rid \cup {"rejected", "error", "unauthorized", None},
         slot' = [slot EXCEPT ![i].pc = pc, ![i].reply = r],
         pc = "complete" => r \in Rid
  PROVE  slot' \in [Slot -> Request] /\ Asked' /\ Fewer
  <1>1. slot \in [Slot -> Request] /\ Asked
    BY DEF SubmissionInv, TypeOK
  <1>2. slot' \in [Slot -> Request]
    <2> DEFINE p == [slot[i] EXCEPT !.pc = pc]
               q == [p EXCEPT !.reply = r]
    <2>1. p \in Request
      BY <1>1 DEF Request
    <2>2. slot' = [slot EXCEPT ![i] = q]
      BY <1>1
    <2> HIDE DEF p
    <2>3. q \in Request
      BY <2>1 DEF Request
    <2> HIDE DEF q
    <2> QED BY <1>1, <2>2, <2>3
  <1>3. /\ \A j \in Slot : j # i => slot'[j] = slot[j]
        /\ slot'[i].pc = pc /\ slot'[i].reply = r
        /\ slot'[i].user = slot[i].user /\ slot'[i].key = slot[i].key
        /\ slot'[i].client = slot[i].client
    BY <1>1 DEF Request
  <1> QED BY <1>1, <1>2, <1>3 DEF Asked, Fewer

LEMMA GotoKept ==
  ASSUME SubmissionInv, NEW i \in Slot, slot[i].pc # "idle",
         NEW pc \in {"idle", "register", "lookup", "create", "abort", "answer"}, Goto(i, pc)
  PROVE  slot' \in [Slot -> Request] /\ Asked' /\ Fewer
  <1>1. slot \in [Slot -> Request] /\ Asked
    BY DEF SubmissionInv, TypeOK
  <1>2. slot' \in [Slot -> Request]
    BY <1>1 DEF Request, Goto
  <1>3. /\ \A j \in Slot : j # i => slot'[j] = slot[j]
        /\ slot'[i].pc = pc
        /\ slot'[i].user = slot[i].user /\ slot'[i].key = slot[i].key
        /\ slot'[i].client = slot[i].client
    BY <1>1 DEF Request, Goto
  <1> QED BY <1>1, <1>2, <1>3 DEF Asked, Fewer

(* The row of reviews that Insert fills.                                    *)
LEMMA InsertKeeps ==
  ASSUME SubmissionInv, NEW i \in Slot, slot[i].pc = "create", Insert(i)
  PROVE  /\ reviews' \in [Rid -> Review \cup {None}]
         /\ slot' \in [Slot -> Request] /\ Asked' /\ Fewer
  <1>0. /\ reviews \in [Rid -> Review \cup {None}] /\ now \in Nat
        /\ slot \in [Slot -> Request] /\ Asked
    BY DEF SubmissionInv, TypeOK
  <1>1. PICK r \in Rid, acked \in BOOLEAN :
          /\ reviews' = [reviews EXCEPT ![r] =
                [user |-> slot[i].user, key |-> slot[i].key, at |-> now, acked |-> acked]]
          /\ \/ slot' = [slot EXCEPT ![i].pc = "complete", ![i].reply = r]
             \/ slot' = [slot EXCEPT ![i].pc = "abort", ![i].reply = "error"]
    BY DEF Insert
  <1>2. [user |-> slot[i].user, key |-> slot[i].key, at |-> now, acked |-> acked] \in Review
    BY <1>0 DEF Asked, Review
  <1>3. reviews' \in [Rid -> Review \cup {None}]
    BY <1>0, <1>1, <1>2
  <1>4. slot' \in [Slot -> Request] /\ Asked' /\ Fewer
    <2>1. CASE slot' = [slot EXCEPT ![i].pc = "complete", ![i].reply = r]
      BY <2>1, SlotKept
    <2>2. CASE slot' = [slot EXCEPT ![i].pc = "abort", ![i].reply = "error"]
      BY <2>2, SlotKept
    <2> QED BY <1>1, <2>1, <2>2
  <1> QED BY <1>3, <1>4

(* The handler leaves the phone alone; each of its statements keeps the     *)
(* invariant.                                                              *)
LEMMA HandlerKeeps ==
  ASSUME SubmissionInv, Keep,
         slot' \in [Slot -> Request], Asked', Fewer,
         keys' \in [User \X Key -> KeyRow \cup {None}],
         reviews' = reviews
  PROVE  SubmissionInv'
  <1>1. Writing'
    BY FewerWrite DEF SubmissionInv, Keep, phone
  <1> QED BY <1>1 DEF SubmissionInv, TypeOK, Keep, phone, Held

LEMMA HandlerInv ==
  ASSUME SubmissionInv, NEW i \in Slot, create(i)
  PROVE  SubmissionInv'
  <1>0. /\ keys \in [User \X Key -> KeyRow \cup {None}] /\ now \in Nat
        /\ slot \in [Slot -> Request] /\ Asked
    BY DEF SubmissionInv, TypeOK
  <1>1. CASE BeginIdempotent(i)
    <2> DEFINE purged == [uk \in User \X Key |->
            IF keys[uk] # None /\ keys[uk].born + KeyLife <= now THEN None ELSE keys[uk]]
               new == [answer |-> None, born |-> now]
    <2>1. purged \in [User \X Key -> KeyRow \cup {None}] /\ new \in KeyRow
      BY <1>0 DEF KeyRow
    <2> HIDE DEF purged, new
    <2>2. keys' = purged \/ keys' = [purged EXCEPT ![At(i)] = new]
      BY <1>1 DEF BeginIdempotent, purged, new
    <2>3. keys' \in [User \X Key -> KeyRow \cup {None}]
      BY <2>1, <2>2
    <2>4. slot[i].pc = "register" /\ (Goto(i, "create") \/ Goto(i, "lookup"))
          /\ reviews' = reviews /\ Keep
      BY <1>1 DEF BeginIdempotent
    <2>5. slot' \in [Slot -> Request] /\ Asked' /\ Fewer
      BY <2>4, GotoKept
    <2> QED BY <2>3, <2>4, <2>5, HandlerKeeps
  <1>2. CASE Lookup(i)
    <2>1. At(i) \in User \X Key
      BY <1>0, <1>2 DEF Asked, At, Lookup
    <2>2. slot[i].pc = "lookup" /\ keys' = keys /\ reviews' = reviews /\ Keep
      BY <1>2 DEF Lookup
    <2>3. PICK r \in Rid \cup {"rejected", "error", "unauthorized", None} : Reply(i, r)
      BY <1>0, <1>2, <2>1 DEF Lookup, KeyRow
    <2>4. slot' \in [Slot -> Request] /\ Asked' /\ Fewer
      BY <2>2, <2>3, SlotKept DEF Reply
    <2> QED BY <1>0, <2>2, <2>4, HandlerKeeps
  <1>3. CASE Create(i)
    <2>1. slot[i].pc = "create" /\ keys' = keys /\ Keep
      BY <1>3 DEF Create
    <2>2. CASE Insert(i)
      <3>1. /\ reviews' \in [Rid -> Review \cup {None}]
            /\ slot' \in [Slot -> Request] /\ Asked' /\ Fewer
        BY <2>1, <2>2, InsertKeeps
      <3>2. Writing'
        BY <2>1, <3>1, FewerWrite DEF SubmissionInv, Keep, phone
      <3> QED BY <2>1, <3>1, <3>2 DEF SubmissionInv, TypeOK, Keep, phone, Held
    <2>3. ASSUME NEW e \in {"rejected", "error"}, reviews' = reviews,
                 slot' = [slot EXCEPT ![i].pc = "abort", ![i].reply = e]
          PROVE  SubmissionInv'
      <3>1. slot' \in [Slot -> Request] /\ Asked' /\ Fewer
        BY <2>1, <2>3, SlotKept
      <3> QED BY <1>0, <2>1, <2>3, <3>1, HandlerKeeps
    <2> QED BY <1>3, <2>2, <2>3 DEF Create
  <1>4. CASE CompleteIdempotent(i)
    <2>1. slot[i].pc = "complete" /\ reviews' = reviews /\ Keep
      BY <1>4 DEF CompleteIdempotent
    <2>2. slot' \in [Slot -> Request] /\ Asked' /\ Fewer
      BY <1>4, <2>1, GotoKept, SlotKept DEF CompleteIdempotent, Reply
    <2>3. slot[i].reply \in Rid
      BY <1>0, <2>1 DEF Asked
    <2>4. keys' \in [User \X Key -> KeyRow \cup {None}]
      <3>1. \/ keys' = keys
            \/ keys[At(i)] # None /\ keys' = [keys EXCEPT ![At(i)].answer = slot[i].reply]
        BY <1>4 DEF CompleteIdempotent
      <3> QED BY <1>0, <2>3, <3>1 DEF KeyRow
    <2> QED BY <2>1, <2>2, <2>4, HandlerKeeps
  <1>5. CASE AbortIdempotent(i)
    <2>1. slot[i].pc = "abort" /\ reviews' = reviews /\ Keep
      BY <1>5 DEF AbortIdempotent
    <2>2. slot' \in [Slot -> Request] /\ Asked' /\ Fewer
      BY <1>5, <2>1, GotoKept, SlotKept DEF AbortIdempotent, Reply
    <2>3. keys' \in [User \X Key -> KeyRow \cup {None}]
      BY <1>0, <1>5 DEF AbortIdempotent
    <2> QED BY <2>1, <2>2, <2>3, HandlerKeeps
  <1>6. CASE Unauthorized(i)
    <2>1. slot' \in [Slot -> Request] /\ Asked' /\ Fewer
      BY <1>6, SlotKept DEF Unauthorized, Reply
    <2> QED BY <1>0, <1>6, <2>1, HandlerKeeps DEF Unauthorized
  <1> QED BY <1>1, <1>2, <1>3, <1>4, <1>5, <1>6 DEF create

-------------------------------------------------------------------------------
(* The phone.                                                              *)

LEMMA SendKeeps ==
  ASSUME SubmissionInv, account \in User, NEW k \in Key,
         NEW client \in {"wizard", "queue", None}, Send(client, k)
  PROVE  /\ slot' \in [Slot -> Request] /\ Asked'
         /\ client # "wizard" => Fewer
         /\ k \in wizard /\ ~Sending(k) /\ wizard' = wizard => Writing'
  <1> DEFINE i == CHOOSE i \in Slot : slot[i].pc = "idle"
             q == [NoRequest EXCEPT !.pc = "register", !.client = client, !.user = account,
                                    !.key = k]
  <1>1. slot \in [Slot -> Request] /\ Asked
    BY DEF SubmissionInv, TypeOK
  <1>2. i \in Slot /\ slot' = [slot EXCEPT ![i] = q]
    BY DEF Send
  <1>3. q \in Request /\ q.pc = "register" /\ q.user = account /\ q.key = k
        /\ q.client = client
    BY DEF NoRequest, Request
  <1> HIDE DEF i, q
  <1>4. \A j \in Slot : slot'[j] = IF j = i THEN q ELSE slot[j]
    BY <1>1, <1>2
  <1>5. slot' \in [Slot -> Request] /\ Asked'
    BY <1>1, <1>2, <1>3, <1>4 DEF Asked
  <1>6. client # "wizard" => Fewer
    BY <1>3, <1>4 DEF Fewer
  <1>7. k \in wizard /\ ~Sending(k) /\ wizard' = wizard => Writing'
    BY <1>3, <1>4 DEF SubmissionInv, Writing, Sending
  <1> QED BY <1>5, <1>6, <1>7

LEMMA TakenBack ==
  ASSUME SubmissionInv, NEW i \in Slot,
         slot' = [slot EXCEPT ![i] = NoRequest] \/ HangUp(i)
  PROVE  slot' \in [Slot -> Request] /\ Asked' /\ Fewer /\ slot'[i].client = None
  <1>1. slot \in [Slot -> Request] /\ Asked /\ None # "wizard"
    BY NotAWord DEF SubmissionInv, TypeOK
  <1>2. CASE slot' = [slot EXCEPT ![i] = NoRequest]
    BY <1>1, <1>2, IdleTypes DEF NoRequest, Asked, Fewer
  <1>3. CASE HangUp(i)
    <2>1. slot' \in [Slot -> Request]
      BY <1>1, <1>3 DEF HangUp, Request
    <2>2. \A j \in Slot : /\ slot'[j].pc = slot[j].pc /\ slot'[j].user = slot[j].user
                          /\ slot'[j].key = slot[j].key /\ slot'[j].reply = slot[j].reply
                          /\ slot'[j].client = IF j = i THEN None ELSE slot[j].client
      BY <1>1, <1>3 DEF HangUp, Request
    <2> QED BY <1>1, <2>1, <2>2 DEF Asked, Fewer
  <1> QED BY <1>2, <1>3

LEMMA CutInv ==
  ASSUME SubmissionInv, NEW i \in Slot, Cut(i)
  PROVE  SubmissionInv'
  <1>1. slot' \in [Slot -> Request] /\ Asked' /\ Fewer
    BY TakenBack DEF Cut
  <1>2. Writing'
    BY <1>1, FewerWrite DEF SubmissionInv, Cut, phone
  <1> QED BY <1>1, <1>2 DEF SubmissionInv, TypeOK, Cut, server, phone, Held

LEMMA TickInv ==
  ASSUME SubmissionInv, Tick
  PROVE  SubmissionInv'
  BY DEF SubmissionInv, TypeOK, Tick, phone, Asked, Writing, Held

(* What a step of the phone may change, and what it has to keep of it.      *)
LEMMA PhoneKeeps ==
  ASSUME SubmissionInv, UNCHANGED server,
         slot' \in [Slot -> Request], Asked', Writing',
         account' \in User \cup {None}, wizard' \subseteq Key,
         wizard' # {} => account' \in User,
         jobs' \in [Key -> Job \cup {None}], disk' \in [Key -> Job \cup {None}],
         run' \in Run, Held',
         author' \in [Key -> User \cup {None}], sent' \subseteq Key
  PROVE  SubmissionInv'
  BY DEF SubmissionInv, TypeOK, server

(* The same for steps outside the requests and the account.                 *)
LEMMA QueueKeeps ==
  ASSUME SubmissionInv, UNCHANGED <<server, account, wizard, author>>,
         slot' \in [Slot -> Request], Asked', Fewer,
         jobs' \in [Key -> Job \cup {None}], disk' \in [Key -> Job \cup {None}],
         run' \in Run, Held', sent' \subseteq Key
  PROVE  SubmissionInv'
  <1>1. /\ account \in User \cup {None} /\ wizard \subseteq Key
        /\ wizard # {} => account \in User
        /\ author \in [Key -> User \cup {None}]
    BY DEF SubmissionInv, TypeOK
  <1>2. Writing'
    BY FewerWrite DEF SubmissionInv
  <1> QED BY <1>1, <1>2, PhoneKeeps

(* The job that is run, as its outcomes change it.                          *)
LEMMA JobTypes ==
  ASSUME SubmissionInv, NEW k \in Key, run.batch[k] # None
  PROVE  /\ run.batch[k] \in Job
         /\ [run.batch[k] EXCEPT !.failure = "rejected"] \in Job
         /\ \A r \in Rid : [run.batch[k] EXCEPT !.review = r] \in Job
         /\ \A n \in Nat, f \in {None, GAVE_UP} :
                [run.batch[k] EXCEPT !.attempts = n, !.failure = f] \in Job
         /\ run.batch[k].attempts + 1 \in Nat
  <1>1. run.batch[k] \in Job
    BY DEF SubmissionInv, TypeOK, Run
  <1>2. \A n \in Nat, f \in {None, GAVE_UP} :
            [run.batch[k] EXCEPT !.attempts = n, !.failure = f] \in Job
    <2> SUFFICES ASSUME NEW n \in Nat, NEW f \in {None, GAVE_UP}
                 PROVE  [run.batch[k] EXCEPT !.attempts = n, !.failure = f] \in Job
      OBVIOUS
    <2> DEFINE mid == [run.batch[k] EXCEPT !.attempts = n]
    <2>1. mid \in Job
      BY <1>1 DEF Job
    <2> HIDE DEF mid
    <2>2. [mid EXCEPT !.failure = f] \in Job
      BY <2>1 DEF Job
    <2> QED BY <2>2 DEF mid
  <1>3. [run.batch[k] EXCEPT !.failure = "rejected"] \in Job
    BY <1>1 DEF Job
  <1>4. \A r \in Rid : [run.batch[k] EXCEPT !.review = r] \in Job
    BY <1>1 DEF Job
  <1>5. run.batch[k].attempts + 1 \in Nat
    BY <1>1 DEF Job
  <1> QED BY <1>1, <1>2, <1>3, <1>4, <1>5

LEMMA NextTypes ==
  ASSUME SubmissionInv, NEW k \in Key, NextJob(k)
  PROVE  run' \in Run /\ Held' /\ run'.pc = "next"
         /\ run'.user = run.user
         /\ run'.batch = [run.batch EXCEPT ![k] = None]
  <1>1. run \in Run
    BY DEF SubmissionInv, TypeOK
  <1>2. run' = [pc |-> "next", user |-> run.user, batch |-> [run.batch EXCEPT ![k] = None],
                key |-> None]
    BY <1>1 DEF NextJob, Run
  <1>3. [run.batch EXCEPT ![k] = None] \in [Key -> Job \cup {None}]
    BY <1>1 DEF Run
  <1> QED BY <1>1, <1>2, <1>3 DEF Run, Held

LEMMA SetTypes ==
  ASSUME SubmissionInv, NEW k \in Key, NEW job \in Job, SetJob(k, job)
  PROVE  jobs' \in [Key -> Job \cup {None}]
  BY DEF SubmissionInv, TypeOK, SetJob

LEMMA LaterTypes ==
  ASSUME SubmissionInv, NEW k \in Key, run.batch[k] # None, RetryLater(k)
  PROVE  jobs' \in [Key -> Job \cup {None}] /\ run' \in Run /\ Held' /\ sent' \subseteq Key
  <1> DEFINE n == run.batch[k].attempts + 1
             f == IF n >= MaxAttempts THEN GAVE_UP ELSE None
             job == [run.batch[k] EXCEPT !.attempts = n, !.failure = f]
  <1>1. job \in Job
    BY JobTypes
  <1>2. SetJob(k, job) /\ NextJob(k) /\ sent' = sent
    BY DEF RetryLater
  <1> HIDE DEF job
  <1>3. jobs' \in [Key -> Job \cup {None}]
    BY <1>1, <1>2, SetTypes
  <1>4. sent \subseteq Key
    BY DEF SubmissionInv, TypeOK
  <1> QED BY <1>2, <1>3, <1>4, NextTypes

LEMMA RunInv ==
  ASSUME SubmissionInv, NEW k \in Key, drain(k)
  PROVE  SubmissionInv'
  <1>0. /\ run \in Run /\ slot \in [Slot -> Request] /\ Asked /\ sent \subseteq Key
        /\ jobs \in [Key -> Job \cup {None}] /\ disk \in [Key -> Job \cup {None}]
        /\ account \in User \cup {None} /\ None \notin Rid
    BY SubmissionAssumption DEF SubmissionInv, TypeOK
  <1>1. CASE RunJob(k)
    <2>1. /\ Runnable(k) /\ UNCHANGED <<server, account, wizard, jobs, disk, author, sent>>
          /\ run.batch[k] # None
      BY <1>1 DEF RunJob, Runnable
    <2>2. CASE account # None /\ Send("queue", k) /\ run' = [run EXCEPT !.pc = "wait", !.key = k]
      <3>1. slot' \in [Slot -> Request] /\ Asked' /\ Fewer
        BY <1>0, <2>2, SendKeeps
      <3>2. run' \in Run /\ run'.pc = "wait" /\ run'.key = k /\ run'.batch = run.batch
        BY <1>0, <2>2 DEF Run
      <3>3. Held'
        BY <2>1, <3>2 DEF Held
      <3> QED BY <1>0, <2>1, <3>1, <3>2, <3>3, QueueKeeps
    <2>3. CASE /\ run.batch[k].review # None /\ slot' = slot
               /\ run' = [run EXCEPT !.pc = "photos", !.key = k]
      <3>1. run' \in Run /\ run'.pc = "photos" /\ run'.key = k /\ run'.batch = run.batch
        BY <1>0, <2>3 DEF Run
      <3>2. run.batch[k].review \in Rid
        BY <2>1, <2>3, JobTypes DEF Job
      <3>3. Held'
        BY <2>1, <3>1, <3>2 DEF Held
      <3>4. Asked' /\ Fewer
        BY <1>0, <2>3 DEF Asked, Fewer
      <3> QED BY <1>0, <2>1, <2>3, <3>1, <3>3, <3>4, QueueKeeps
    <2> QED BY <1>1, <2>2, <2>3 DEF RunJob
  <1>2. CASE uploadPhotos(k)
    <2>1. /\ run.pc = "photos" /\ run.key = k
          /\ UNCHANGED <<server, account, wizard, author>> /\ disk' = disk /\ slot' = slot
      BY <1>2 DEF uploadPhotos
    <2>2. run.batch[k] # None
      BY <2>1 DEF SubmissionInv, Held
    <2>3. jobs' \in [Key -> Job \cup {None}] /\ run' \in Run /\ Held' /\ sent' \subseteq Key
      <3>1. CASE jobs' = [jobs EXCEPT ![k] = None] /\ sent' = sent \cup {k} /\ NextJob(k)
        BY <1>0, <3>1, NextTypes
      <3>2. CASE RetryLater(k)
        BY <2>2, <3>2, LaterTypes
      <3> QED BY <1>2, <3>1, <3>2 DEF uploadPhotos
    <2>4. Asked' /\ Fewer
      BY <1>0, <2>1 DEF Asked, Fewer
    <2> QED BY <1>0, <2>1, <2>3, <2>4, QueueKeeps
  <1>3. ASSUME NEW i \in Slot, RunAnswered(k, i)
        PROVE  SubmissionInv'
    <2>1. /\ run.pc = "wait" /\ run.key = k
          /\ UNCHANGED <<server, account, wizard, author>> /\ disk' = disk
      BY <1>3 DEF RunAnswered
    <2>2. run.batch[k] # None
      BY <2>1 DEF SubmissionInv, Held
    <2>3. PICK outcome \in Rid \cup {"rejected", "error", "unauthorized", "lost"} :
            /\ Told(i, "queue", k, outcome)
            /\ \/ /\ outcome \in Rid
                  /\ SetJob(k, [run.batch[k] EXCEPT !.review = outcome])
                  /\ run' = [run EXCEPT !.pc = "photos", !.batch[k].review = outcome]
                  /\ UNCHANGED sent
               \/ outcome = "rejected" /\ Failed(k)
               \/ outcome \in {"error", "lost"} /\ RetryLater(k)
               \/ outcome = "unauthorized" /\ run' = NotRunning /\ UNCHANGED <<jobs, sent>>
      BY <1>3 DEF RunAnswered
    <2>4. slot' \in [Slot -> Request] /\ Asked' /\ Fewer
      BY <2>3, TakenBack DEF Told
    <2>5. jobs' \in [Key -> Job \cup {None}] /\ run' \in Run /\ Held' /\ sent' \subseteq Key
      <3>1. CASE /\ outcome \in Rid
                 /\ SetJob(k, [run.batch[k] EXCEPT !.review = outcome])
                 /\ run' = [run EXCEPT !.pc = "photos", !.batch[k].review = outcome]
                 /\ UNCHANGED sent
        <4> DEFINE job == [run.batch[k] EXCEPT !.review = outcome]
        <4>1. job \in Job /\ job.review = outcome /\ job # None
          BY <2>2, <3>1, JobTypes, NoneNoJob DEF Job
        <4>2. run' = [pc |-> "photos", user |-> run.user,
                      batch |-> [run.batch EXCEPT ![k] = job], key |-> k]
          BY <1>0, <2>1, <3>1 DEF Run
        <4>3. SetJob(k, job)
          BY <3>1
        <4> HIDE DEF job
        <4>4. [run.batch EXCEPT ![k] = job] \in [Key -> Job \cup {None}]
          BY <1>0, <4>1 DEF Run
        <4>5. run' \in Run /\ Held'
          <5>1. run.user \in User \cup {None} /\ run.batch \in [Key -> Job \cup {None}]
            BY <1>0 DEF Run
          <5>2. run' \in Run
            BY <4>2, <4>4, <5>1 DEF Run
          <5>3. run'.key = k /\ run'.batch[k] = job
            BY <4>2, <5>1
          <5> QED BY <3>1, <4>1, <5>2, <5>3 DEF Held
        <4>6. jobs' \in [Key -> Job \cup {None}]
          BY <4>1, <4>3, SetTypes
        <4> QED BY <1>0, <3>1, <4>5, <4>6
      <3>2. CASE Failed(k)
        <4> DEFINE job == [run.batch[k] EXCEPT !.failure = "rejected"]
        <4>1. job \in Job
          BY <2>2, JobTypes
        <4>2. SetJob(k, job) /\ NextJob(k) /\ sent' = sent
          BY <3>2 DEF Failed
        <4> HIDE DEF job
        <4> QED BY <1>0, <4>1, <4>2, SetTypes, NextTypes
      <3>3. CASE RetryLater(k)
        BY <2>2, <3>3, LaterTypes
      <3>4. CASE run' = NotRunning /\ UNCHANGED <<jobs, sent>>
        BY <1>0, <3>4, IdleTypes DEF NotRunning, Held
      <3> QED BY <2>3, <3>1, <3>2, <3>3, <3>4
    <2> QED BY <1>0, <2>1, <2>4, <2>5, QueueKeeps
  <1> QED BY <1>1, <1>2, <1>3 DEF drain

LEMMA QueueInv ==
  ASSUME SubmissionInv,
         \/ processQueue \/ StopRun \/ persist
         \/ \E k \in Key : retryJob(k) \/ dismissJob(k)
  PROVE  SubmissionInv'
  <1>0. /\ run \in Run /\ slot \in [Slot -> Request] /\ Asked /\ sent \subseteq Key
        /\ jobs \in [Key -> Job \cup {None}] /\ disk \in [Key -> Job \cup {None}]
        /\ account \in User \cup {None} /\ Held
    BY DEF SubmissionInv, TypeOK
  <1>1. CASE processQueue
    <2>1. run' \in Run /\ Held'
      BY <1>0, <1>1 DEF processQueue, Run, Held
    <2> QED BY <1>0, <1>1, <2>1, QueueKeeps DEF processQueue, Asked, Fewer
  <1>2. CASE StopRun
    <2>1. run' \in Run /\ Held'
      BY <1>2, IdleTypes DEF StopRun, NotRunning, Held
    <2> QED BY <1>0, <1>2, <2>1, QueueKeeps DEF StopRun, Asked, Fewer
  <1>3. CASE persist
    BY <1>0, <1>3, QueueKeeps DEF persist, Asked, Fewer, Held
  <1>4. ASSUME NEW k \in Key, retryJob(k)
        PROVE  SubmissionInv'
    <2> DEFINE job == [jobs[k] EXCEPT !.failure = None, !.attempts = 0]
    <2>1. jobs[k] \in Job
      BY <1>0, <1>4 DEF retryJob
    <2>2. job \in Job
      <3> DEFINE clean == [jobs[k] EXCEPT !.failure = None]
      <3>1. clean \in Job
        BY <2>1 DEF Job
      <3> HIDE DEF clean
      <3>2. [clean EXCEPT !.attempts = 0] \in Job
        BY <3>1 DEF Job
      <3> QED BY <3>2 DEF clean
    <2>3. jobs' = [jobs EXCEPT ![k] = job]
      BY <1>0, <1>4 DEF retryJob
    <2> HIDE DEF job
    <2>4. jobs' \in [Key -> Job \cup {None}]
      BY <1>0, <2>2, <2>3
    <2> QED BY <1>0, <1>4, <2>4, QueueKeeps DEF retryJob, Asked, Fewer, Held
  <1>5. ASSUME NEW k \in Key, dismissJob(k)
        PROVE  SubmissionInv'
    <2>1. jobs' \in [Key -> Job \cup {None}]
      BY <1>0, <1>5 DEF dismissJob
    <2> QED BY <1>0, <1>5, <2>1, QueueKeeps DEF dismissJob, Asked, Fewer, Held
  <1> QED BY <1>1, <1>2, <1>3, <1>4, <1>5

(* Sending and enqueueing; signing in and out; the app is killed.           *)
LEMMA NewJobType ==
  ASSUME SubmissionInv, account \in User, NEW r \in Rid \cup {None}
  PROVE  NewJob(account, r) \in Job
  BY DEF NewJob, Job

LEMMA EnqueueTypes ==
  ASSUME SubmissionInv, NEW k \in wizard, NEW r \in Rid \cup {None},
         enqueueReviewSubmission(k, r)
  PROVE  /\ jobs' \in [Key -> Job \cup {None}]
         /\ wizard' \subseteq wizard
  <1>1. account \in User /\ jobs \in [Key -> Job \cup {None}]
    BY DEF SubmissionInv, TypeOK
  <1>2. NewJob(account, r) \in Job
    BY <1>1, NewJobType
  <1> QED BY <1>1, <1>2 DEF enqueueReviewSubmission

LEMMA WizardInv ==
  ASSUME SubmissionInv, NEW k \in Key,
         \/ OpenWizard(k) \/ Submit(k) \/ SubmitOffline(k)
         \/ \E i \in Slot : SubmitAnswered(k, i)
  PROVE  SubmissionInv'
  <1>0. /\ run \in Run /\ slot \in [Slot -> Request] /\ Asked /\ sent \subseteq Key
        /\ jobs \in [Key -> Job \cup {None}] /\ disk \in [Key -> Job \cup {None}]
        /\ account \in User \cup {None} /\ Held /\ wizard \subseteq Key
        /\ author \in [Key -> User \cup {None}]
        /\ wizard # {} => account \in User
    BY DEF SubmissionInv, TypeOK
  <1>1. CASE OpenWizard(k)
    <2>1. /\ account' \in User /\ wizard' \subseteq Key
          /\ author' \in [Key -> User \cup {None}]
      BY <1>0, <1>1 DEF OpenWizard
    <2>2. Asked' /\ Held' /\ Writing'
      BY <1>0, <1>1 DEF SubmissionInv, OpenWizard, Asked, Held, Writing
    <2> QED BY <1>0, <1>1, <2>1, <2>2, PhoneKeeps DEF OpenWizard
  <1>2. CASE Submit(k)
    <2>1. slot' \in [Slot -> Request] /\ Asked' /\ Writing'
      BY <1>0, <1>2, SendKeeps DEF Submit, phone
    <2>2. Held'
      BY <1>0, <1>2 DEF Submit, Held, phone
    <2> QED BY <1>0, <1>2, <2>1, <2>2, PhoneKeeps DEF Submit, phone
  <1>3. CASE SubmitOffline(k)
    <2>1. jobs' \in [Key -> Job \cup {None}] /\ wizard' = wizard \ {k}
      BY <1>3, EnqueueTypes DEF SubmitOffline, enqueueReviewSubmission
    <2>2. Asked' /\ Held'
      BY <1>0, <1>3 DEF SubmitOffline, Asked, Held
    <2>3. Writing'
      BY <1>3, <2>1 DEF SubmissionInv, SubmitOffline, Writing, Sending
    <2> QED BY <1>0, <1>3, <2>1, <2>2, <2>3, PhoneKeeps DEF SubmitOffline
  <1>4. ASSUME NEW i \in Slot, SubmitAnswered(k, i)
        PROVE  SubmissionInv'
    <2>1. PICK outcome \in Rid \cup {"rejected", "error", "unauthorized", "lost"} :
            /\ Told(i, "wizard", k, outcome)
            /\ \/ /\ outcome \in Rid
                  /\ \/ enqueueReviewSubmission(k, outcome)
                     \/ wizard' = wizard \ {k} /\ UNCHANGED jobs
               \/ outcome \in {"rejected", "error", "unauthorized"} /\ UNCHANGED <<wizard, jobs>>
               \/ outcome = "lost" /\ enqueueReviewSubmission(k, None)
      BY <1>4 DEF SubmitAnswered
    <2>2. slot' \in [Slot -> Request] /\ Asked' /\ Fewer /\ slot'[i].client = None
      BY <2>1, TakenBack DEF Told
    <2>5. slot[i].client = "wizard" /\ slot[i].key = k /\ k \in wizard
      BY <2>1 DEF SubmissionInv, Told, Writing
    <2>3. jobs' \in [Key -> Job \cup {None}] /\ wizard' \in {wizard, wizard \ {k}}
      BY <1>0, <2>1, <2>5, EnqueueTypes DEF enqueueReviewSubmission
    <2>6. Writing'
      BY <2>2, <2>3, <2>5, NotAWord DEF SubmissionInv, Writing, Fewer
    <2>4. Held'
      BY <1>0, <1>4 DEF SubmitAnswered, Held
    <2> QED BY <1>0, <1>4, <2>2, <2>3, <2>4, <2>6, PhoneKeeps DEF SubmitAnswered
  <1> QED BY <1>1, <1>2, <1>3, <1>4

LEMMA HungUp ==
  ASSUME SubmissionInv, NEW S,
         \A i \in Slot : slot[i].client = "wizard" => i \in S,
         slot' = [i \in Slot |-> IF i \in S THEN [slot[i] EXCEPT !.client = None] ELSE slot[i]]
  PROVE  slot' \in [Slot -> Request] /\ Asked' /\ Writing'
  <1>1. slot \in [Slot -> Request] /\ Asked
    BY DEF SubmissionInv, TypeOK
  <1>2. \A i \in Slot : /\ slot'[i] \in Request
                        /\ slot'[i].pc = slot[i].pc /\ slot'[i].user = slot[i].user
                        /\ slot'[i].key = slot[i].key /\ slot'[i].reply = slot[i].reply
                        /\ slot'[i].client # "wizard"
    BY <1>1, NotAWord DEF Request
  <1> QED BY <1>1, <1>2 DEF Asked, Writing

LEMMA AccountInv ==
  ASSUME SubmissionInv, (\E u \in User : SignIn(u)) \/ SignOut \/ Killed
  PROVE  SubmissionInv'
  <1>0. /\ run \in Run /\ slot \in [Slot -> Request] /\ Asked /\ sent \subseteq Key
        /\ jobs \in [Key -> Job \cup {None}] /\ disk \in [Key -> Job \cup {None}]
        /\ account \in User \cup {None} /\ Held /\ wizard \subseteq Key
        /\ author \in [Key -> User \cup {None}]
        /\ wizard # {} => account \in User
    BY DEF SubmissionInv, TypeOK
  <1>1. ASSUME NEW u \in User, SignIn(u)
        PROVE  SubmissionInv'
    <2>1. Asked' /\ Held' /\ Writing'
      BY <1>0, <1>1 DEF SubmissionInv, SignIn, Asked, Held, Writing
    <2> QED BY <1>0, <1>1, <2>1, PhoneKeeps DEF SignIn
  <1>2. CASE SignOut
    <2>1. slot' \in [Slot -> Request] /\ Asked' /\ Writing'
      <3> DEFINE S == {i \in Slot : slot[i].client = "wizard"}
      <3>1. slot' = [i \in Slot |-> IF i \in S THEN [slot[i] EXCEPT !.client = None]
                                             ELSE slot[i]]
        BY <1>2 DEF SignOut, CloseWizards
      <3> QED BY <3>1, HungUp
    <2>2. Held'
      BY <1>0, <1>2 DEF SignOut, Held
    <2>3. jobs' \in [Key -> Job \cup {None}] /\ wizard' = {}
      BY <1>0, <1>2, IdleTypes DEF SignOut, CloseWizards
    <2> QED BY <1>0, <1>2, <2>1, <2>2, <2>3, PhoneKeeps DEF SignOut
  <1>3. CASE Killed
    <2>1. slot' \in [Slot -> Request] /\ Asked' /\ Writing'
      <3>1. slot' = [i \in Slot |-> IF i \in Slot THEN [slot[i] EXCEPT !.client = None]
                                                ELSE slot[i]]
        BY <1>3 DEF Killed
      <3> QED BY <3>1, HungUp
    <2>2. run' \in Run /\ Held'
      BY <1>3, IdleTypes DEF Killed, NotRunning, Held
    <2> QED BY <1>0, <1>3, <2>1, <2>2, PhoneKeeps DEF Killed
  <1> QED BY <1>1, <1>2, <1>3

LEMMA Inductive == SubmissionInv /\ [Next]_vars => SubmissionInv'
  <1> SUFFICES ASSUME SubmissionInv, [Next]_vars
               PROVE  SubmissionInv'
    OBVIOUS
  <1>1. CASE \E i \in Slot : Handle(i)
    BY <1>1, HandlerInv, CutInv DEF Handle
  <1>2. CASE Phone
    <2>1. CASE \E k \in Key : \/ OpenWizard(k) \/ Submit(k) \/ SubmitOffline(k)
                              \/ \E i \in Slot : SubmitAnswered(k, i)
      BY <2>1, WizardInv
    <2>2. CASE \E k \in Key : drain(k)
      BY <2>2, RunInv
    <2>3. CASE \/ processQueue \/ StopRun \/ persist
               \/ \E k \in Key : retryJob(k) \/ dismissJob(k)
      BY <2>3, QueueInv
    <2>4. CASE (\E u \in User : SignIn(u)) \/ SignOut \/ Killed
      BY <2>4, AccountInv
    <2> QED BY <1>2, <2>1, <2>2, <2>3, <2>4 DEF Phone, UsePhone
  <1>3. CASE Tick
    BY <1>3, TickInv
  <1>4. CASE UNCHANGED vars
    BY <1>4 DEF vars, SubmissionInv, TypeOK, Asked, Writing, Held
  <1> QED BY <1>1, <1>2, <1>3, <1>4 DEF Next

LEMMA AlwaysInv == Spec => []SubmissionInv
  BY InitInv, Inductive, PTL DEF Spec

(* Every reachable state is well typed, whatever is cut short, killed or    *)
(* signed out in the middle.                                               *)
THEOREM TypeCorrect == Spec => []TypeOK
  <1>1. SubmissionInv => TypeOK
    BY DEF SubmissionInv
  <1> QED BY <1>1, AlwaysInv, PTL

-------------------------------------------------------------------------------
(* The keys. A request past BeginIdempotent has its key to itself, and the  *)
(* key of an acknowledged review is not free before its time: none of the   *)
(* requests for it is one that could create again or release it.            *)
Busy(i) == slot[i].pc \in {"create", "complete", "abort"}

Alone ==
    \A i \in Slot : Busy(i) =>
        /\ keys[At(i)] # None /\ keys[At(i)].born = now
        /\ \A j \in Slot : Busy(j) /\ At(j) = At(i) => j = i

Taken(u, k, at) ==
    /\ keys[<<u, k>>] # None /\ keys[<<u, k>>].born = at
    /\ \A i \in Slot : slot[i].pc \in {"create", "abort"} => At(i) # <<u, k>>

Remembered ==
    \A r \in Rid : reviews[r] # None /\ reviews[r].acked =>
        \/ reviews[r].at + KeyLife <= now
        \/ Taken(reviews[r].user, reviews[r].key, reviews[r].at)

KeyInv == Alone /\ Remembered /\ OncePerKey

LEMMA InitKey == Init => KeyInv
  BY DEF Init, KeyInv, Alone, Remembered, OncePerKey, NoRequest, Busy

LEMMA KeyTypes ==
  ASSUME SubmissionInv
  PROVE  /\ keys \in [User \X Key -> KeyRow \cup {None}] /\ now \in Nat
         /\ reviews \in [Rid -> Review \cup {None}]
         /\ slot \in [Slot -> Request]
         /\ \A i \in Slot : Busy(i) => At(i) \in User \X Key
         /\ \A r \in Rid : reviews[r] # None =>
                /\ reviews[r].at \in Nat
                /\ <<reviews[r].user, reviews[r].key>> \in User \X Key
         /\ \A uk \in User \X Key : keys[uk] # None => keys[uk].born \in Nat
         /\ KeyLife \in Nat \ {0}
  <1>1. /\ keys \in [User \X Key -> KeyRow \cup {None}] /\ now \in Nat
        /\ reviews \in [Rid -> Review \cup {None}] /\ slot \in [Slot -> Request]
        /\ Asked /\ KeyLife \in Nat \ {0}
    BY SubmissionAssumption DEF SubmissionInv, TypeOK
  <1>2. \A i \in Slot : Busy(i) => At(i) \in User \X Key
    BY <1>1 DEF Asked, Busy, At
  <1>3. \A r \in Rid : reviews[r] # None =>
            /\ reviews[r].at \in Nat
            /\ <<reviews[r].user, reviews[r].key>> \in User \X Key
    BY <1>1 DEF Review
  <1>4. \A uk \in User \X Key : keys[uk] # None => keys[uk].born \in Nat
    BY <1>1 DEF KeyRow
  <1> QED BY <1>1, <1>2, <1>3, <1>4

(* Requests that come, go or are no longer listened to disturb no key.      *)
Calm ==
    \A j \in Slot :
        \/ slot'[j].pc \notin {"create", "complete", "abort"}
        \/ /\ slot'[j].pc = slot[j].pc
           /\ slot'[j].user = slot[j].user /\ slot'[j].key = slot[j].key

LEMMA CalmKeeps ==
  ASSUME KeyInv, UNCHANGED server, Calm
  PROVE  KeyInv'
  <1>1. \A j \in Slot : Busy(j)' => Busy(j) /\ slot'[j].pc = slot[j].pc /\ At(j)' = At(j)
    BY DEF Calm, Busy, At
  <1>2. keys' = keys /\ reviews' = reviews /\ now' = now
    BY DEF server
  <1>3. Alone'
    BY <1>1, <1>2 DEF KeyInv, Alone
  <1>4. Remembered'
    BY <1>1, <1>2 DEF KeyInv, Remembered, Taken, Busy
  <1> QED BY <1>2, <1>3, <1>4 DEF KeyInv, OncePerKey

(* What a statement of the handler does to the requests.                    *)
Moves(i, pc) ==
    \A j \in Slot : /\ slot'[j].user = slot[j].user /\ slot'[j].key = slot[j].key
                    /\ slot'[j].pc = IF j = i THEN pc ELSE slot[j].pc

LEMMA Moved ==
  ASSUME SubmissionInv, NEW i \in Slot, NEW pc, NEW r,
         \/ Goto(i, pc)
         \/ slot' = [slot EXCEPT ![i].pc = pc, ![i].reply = r]
  PROVE  Moves(i, pc)
  <1>1. slot \in [Slot -> Request]
    BY DEF SubmissionInv, TypeOK
  <1>2. CASE Goto(i, pc)
    BY <1>1, <1>2 DEF Goto, Request, Moves
  <1>3. CASE slot' = [slot EXCEPT ![i].pc = pc, ![i].reply = r]
    <2> DEFINE p == [slot[i] EXCEPT !.pc = pc]
               q == [p EXCEPT !.reply = r]
    <2>1. slot' = [slot EXCEPT ![i] = q]
      BY <1>1, <1>3
    <2>2. q.pc = pc /\ q.user = slot[i].user /\ q.key = slot[i].key
      BY <1>1 DEF Request
    <2> HIDE DEF q
    <2> QED BY <1>1, <2>1, <2>2 DEF Moves
  <1> QED BY <1>2, <1>3

LEMMA MovesAt ==
  ASSUME NEW i \in Slot, NEW pc, Moves(i, pc)
  PROVE  \A j \in Slot : At(j)' = At(j)
  BY DEF Moves, At

(* BeginIdempotent gives a key only to a request that finds it free, and    *)
(* purges none that a request has to itself or that is still remembered.    *)
LEMMA BeginKey ==
  ASSUME SubmissionInv, KeyInv, NEW i \in Slot, BeginIdempotent(i)
  PROVE  KeyInv'
  <1> DEFINE purged == [uk \in User \X Key |->
            IF keys[uk] # None /\ keys[uk].born + KeyLife <= now THEN None ELSE keys[uk]]
             new == [answer |-> None, born |-> now]
  <1>1. /\ slot[i].pc = "register" /\ reviews' = reviews /\ now' = now
        /\ At(i) \in User \X Key
        /\ \/ purged[At(i)] = None /\ keys' = [purged EXCEPT ![At(i)] = new]
              /\ Moves(i, "create")
           \/ purged[At(i)] # None /\ keys' = purged /\ Moves(i, "lookup")
    BY Moved DEF BeginIdempotent, Keep, At, SubmissionInv, Asked
  <1>2. \A uk \in User \X Key :
            keys[uk] # None /\ ~(keys[uk].born + KeyLife <= now) => purged[uk] = keys[uk]
    OBVIOUS
  <1>3. purged = [uk \in User \X Key |-> purged[uk]] /\ new # None /\ new.born = now
    <2>1. new \in KeyRow
      BY KeyTypes DEF KeyRow
    <2> QED BY <2>1, SubmissionAssumption
  <1> HIDE DEF purged, new
  <1>4. \A uk \in User \X Key :
            keys[uk] # None /\ ~(keys[uk].born + KeyLife <= now) =>
                /\ keys'[uk] = keys[uk]
                /\ Moves(i, "create") => uk # At(i) \/ Moves(i, "lookup")
    BY <1>1, <1>2, <1>3
  <1>5. \A j \in Slot : At(j)' = At(j)
    BY <1>1, MovesAt
  <1>6. Alone'
    <2>1. \A j \in Slot : Busy(j) => keys'[At(j)] # None /\ keys'[At(j)].born = now
      BY <1>4, KeyTypes DEF KeyInv, Alone
    <2>2. CASE purged[At(i)] = None /\ keys' = [purged EXCEPT ![At(i)] = new]
               /\ Moves(i, "create")
      <3>1. keys'[At(i)] # None /\ keys'[At(i)].born = now
        BY <1>1, <1>3, <2>2
      <3>2. \A j \in Slot : Busy(j) => At(j) # At(i)
        BY <1>2, <2>2, KeyTypes DEF KeyInv, Alone
      <3>3. \A j \in Slot : Busy(j)' => j = i \/ Busy(j)
        BY <2>2 DEF Moves, Busy
      <3> QED BY <1>1, <1>5, <2>1, <3>1, <3>2, <3>3 DEF KeyInv, Alone
    <2>3. CASE Moves(i, "lookup")
      <3>1. \A j \in Slot : Busy(j)' => Busy(j)
        BY <2>3 DEF Moves, Busy
      <3> QED BY <1>1, <1>5, <2>1, <3>1 DEF KeyInv, Alone
    <2> QED BY <1>1, <2>2, <2>3
  <1>7. Remembered'
    <2> SUFFICES ASSUME NEW r \in Rid, reviews[r] # None, reviews[r].acked,
                        ~(reviews[r].at + KeyLife <= now)
                 PROVE  Taken(reviews[r].user, reviews[r].key, reviews[r].at)'
      BY <1>1 DEF Remembered, Taken
    <2> DEFINE uk == <<reviews[r].user, reviews[r].key>>
    <2>1. /\ uk \in User \X Key /\ keys[uk] # None /\ keys[uk].born = reviews[r].at
          /\ \A j \in Slot : slot[j].pc \in {"create", "abort"} => At(j) # uk
      BY KeyTypes DEF KeyInv, Remembered, Taken
    <2>2. keys'[uk] = keys[uk]
      BY <1>4, <2>1
    <2>3. \A j \in Slot : slot'[j].pc \in {"create", "abort"} => At(j) # uk
      <3>1. CASE purged[At(i)] = None /\ Moves(i, "create")
        <4>1. uk # At(i)
          BY <1>2, <2>1, <3>1
        <4> QED BY <2>1, <3>1, <4>1 DEF Moves
      <3>2. CASE Moves(i, "lookup")
        BY <2>1, <3>2 DEF Moves
      <3> QED BY <1>1, <3>1, <3>2
    <2> QED BY <1>1, <1>5, <2>1, <2>2, <2>3 DEF Taken
  <1> QED BY <1>1, <1>6, <1>7 DEF KeyInv, OncePerKey

(* Create, when it is let through: every acknowledged review of the key has *)
(* had its time.                                                           *)
LEMMA InsertKey ==
  ASSUME SubmissionInv, KeyInv, NEW i \in Slot, slot[i].pc = "create", Insert(i),
         keys' = keys, now' = now
  PROVE  KeyInv'
  <1>1. PICK r \in Rid, acked \in BOOLEAN :
          /\ reviews[r] = None
          /\ reviews' = [reviews EXCEPT ![r] =
                [user |-> slot[i].user, key |-> slot[i].key, at |-> now, acked |-> acked]]
          /\ \/ acked /\ slot' = [slot EXCEPT ![i].pc = "complete", ![i].reply = r]
             \/ ~acked /\ slot' = [slot EXCEPT ![i].pc = "abort", ![i].reply = "error"]
    BY DEF Insert
  <1> DEFINE new == [user |-> slot[i].user, key |-> slot[i].key, at |-> now, acked |-> acked]
  <1>2. /\ new.at = now /\ new.acked = acked
        /\ <<new.user, new.key>> = At(i)
        /\ At(i) = <<slot[i].user, slot[i].key>>
    BY DEF At
  <1>3. \/ acked /\ Moves(i, "complete")
        \/ ~acked /\ Moves(i, "abort")
    BY <1>1, Moved
  <1> HIDE DEF new
  <1>4. \A q \in Rid : reviews'[q] = IF q = r THEN new ELSE reviews[q]
    BY <1>1, KeyTypes DEF new
  <1>5. \A j \in Slot : At(j)' = At(j)
    BY <1>3, MovesAt
  <1>6. Busy(i) /\ \A j \in Slot : Busy(j)' => Busy(j)
    BY <1>3 DEF Busy, Moves
  <1>7. Alone'
    BY <1>5, <1>6 DEF KeyInv, Alone
  <1>8. \A q \in Rid : reviews[q] # None /\ reviews[q].acked
                          /\ <<reviews[q].user, reviews[q].key>> = At(i)
                       => reviews[q].at + KeyLife <= now
    BY DEF KeyInv, Remembered, Taken
  <1>9. Remembered'
    <2> SUFFICES ASSUME NEW q \in Rid, reviews'[q] # None, reviews'[q].acked,
                        ~(reviews'[q].at + KeyLife <= now)
                 PROVE  Taken(reviews[q].user, reviews[q].key, reviews[q].at)'
      BY DEF Remembered
    <2>1. CASE q = r
      <3>1. acked /\ Moves(i, "complete") /\ reviews'[q] = new
        BY <1>2, <1>3, <1>4, <2>1
      <3>2. keys[At(i)] # None /\ keys[At(i)].born = now
        BY <1>6 DEF KeyInv, Alone
      <3>3. \A j \in Slot : slot'[j].pc \in {"create", "abort"} => At(j) # At(i)
        BY <1>6, <3>1 DEF KeyInv, Alone, Moves, Busy
      <3> QED BY <1>2, <1>5, <3>1, <3>2, <3>3 DEF Taken
    <2>2. CASE q # r
      <3>1. reviews'[q] = reviews[q]
        BY <1>4, <2>2
      <3>2. /\ keys[<<reviews[q].user, reviews[q].key>>] # None
            /\ keys[<<reviews[q].user, reviews[q].key>>].born = reviews[q].at
            /\ \A j \in Slot : slot[j].pc \in {"create", "abort"}
                                  => At(j) # <<reviews[q].user, reviews[q].key>>
        BY <3>1 DEF KeyInv, Remembered, Taken
      <3>3. \A j \in Slot : slot'[j].pc \in {"create", "abort"}
                               => At(j) # <<reviews[q].user, reviews[q].key>>
        BY <1>3, <3>2 DEF Moves
      <3> QED BY <1>5, <3>1, <3>2, <3>3 DEF Taken
    <2> QED BY <2>1, <2>2
  <1>10. OncePerKey'
    BY <1>2, <1>4, <1>8 DEF KeyInv, OncePerKey
  <1> QED BY <1>7, <1>9, <1>10 DEF KeyInv

(* The rest of the handler.                                                 *)
LEMMA HandlerKey ==
  ASSUME SubmissionInv, KeyInv, NEW i \in Slot, create(i) \/ Cut(i)
  PROVE  KeyInv'
  <1>1. CASE BeginIdempotent(i)
    BY <1>1, BeginKey
  <1>2. CASE Unauthorized(i) \/ Lookup(i)
    <2>1. UNCHANGED server
      BY <1>2 DEF Unauthorized, Lookup, Keep, server
    <2>2. Moves(i, "answer")
      BY <1>2, Moved DEF Unauthorized, Lookup, Reply
    <2> QED BY <2>1, <2>2, CalmKeeps DEF Moves, Calm
  <1>3. CASE Create(i)
    <2>1. slot[i].pc = "create" /\ keys' = keys /\ now' = now
      BY <1>3 DEF Create, Keep
    <2>2. CASE Insert(i)
      BY <2>1, <2>2, InsertKey
    <2>3. ASSUME NEW e, reviews' = reviews,
                 slot' = [slot EXCEPT ![i].pc = "abort", ![i].reply = e]
          PROVE  KeyInv'
      <3>1. Moves(i, "abort")
        BY <2>3, Moved
      <3>2. \A j \in Slot : At(j)' = At(j)
        BY <3>1, MovesAt
      <3>3. \A j \in Slot : Busy(j)' => Busy(j)
        BY <2>1, <3>1 DEF Moves, Busy
      <3>4. \A j \in Slot : slot'[j].pc \in {"create", "abort"}
                               => slot[j].pc \in {"create", "abort"}
        BY <2>1, <3>1 DEF Moves
      <3>5. Alone'
        BY <2>1, <3>2, <3>3 DEF KeyInv, Alone
      <3>6. Remembered'
        BY <2>1, <2>3, <3>2, <3>4 DEF KeyInv, Remembered, Taken
      <3> QED BY <2>3, <3>5, <3>6 DEF KeyInv, OncePerKey
    <2> QED BY <1>3, <2>2, <2>3 DEF Create
  <1>4. CASE CompleteIdempotent(i) \/ AbortIdempotent(i)
    <2>1. Busy(i) /\ reviews' = reviews /\ now' = now /\ Moves(i, "answer")
      BY <1>4, Moved DEF CompleteIdempotent, AbortIdempotent, Keep, Reply, Busy
    <2>2. \A j \in Slot : At(j)' = At(j)
      BY <2>1, MovesAt
    <2>3. \A j \in Slot : Busy(j)' => Busy(j) /\ j # i
      BY <2>1 DEF Moves, Busy
    <2>4. At(i) \in User \X Key
      BY <2>1, KeyTypes
    <2>5. \A uk \in User \X Key : uk # At(i) => keys'[uk] = keys[uk]
      BY <1>4, <2>4, KeyTypes DEF CompleteIdempotent, AbortIdempotent
    <2>6. slot[i].pc = "complete" /\ keys[At(i)] # None =>
              keys'[At(i)] # None /\ keys'[At(i)].born = keys[At(i)].born
      <3> SUFFICES ASSUME slot[i].pc = "complete", keys[At(i)] # None
                   PROVE  keys'[At(i)] # None /\ keys'[At(i)].born = keys[At(i)].born
        OBVIOUS
      <3>1. keys[At(i)] \in KeyRow /\ slot[i].reply \in Rid
        BY <2>4, KeyTypes DEF SubmissionInv, Asked
      <3>2. CASE keys' = keys
        BY <3>2
      <3>3. CASE keys' = [keys EXCEPT ![At(i)].answer = slot[i].reply]
        <4>1. keys'[At(i)] = [keys[At(i)] EXCEPT !.answer = slot[i].reply]
          BY <2>4, <3>3, KeyTypes
        <4>2. keys'[At(i)] \in KeyRow /\ keys'[At(i)].born = keys[At(i)].born
          BY <3>1, <4>1 DEF KeyRow
        <4> QED BY <4>2, SubmissionAssumption
      <3> QED BY <1>4, <3>2, <3>3 DEF CompleteIdempotent, AbortIdempotent
    <2>7. Alone'
      <3>1. \A j \in Slot : Busy(j)' => At(j) # At(i) /\ At(j) \in User \X Key
        BY <2>1, <2>3, KeyTypes DEF KeyInv, Alone
      <3> QED BY <2>1, <2>2, <2>3, <2>5, <3>1 DEF KeyInv, Alone
    <2>8. Remembered'
      <3> SUFFICES ASSUME NEW r \in Rid, reviews[r] # None, reviews[r].acked,
                          ~(reviews[r].at + KeyLife <= now)
                   PROVE  Taken(reviews[r].user, reviews[r].key, reviews[r].at)'
        BY <2>1 DEF Remembered, Taken
      <3> DEFINE uk == <<reviews[r].user, reviews[r].key>>
      <3>1. /\ uk \in User \X Key /\ keys[uk] # None /\ keys[uk].born = reviews[r].at
            /\ \A j \in Slot : slot[j].pc \in {"create", "abort"} => At(j) # uk
        BY KeyTypes DEF KeyInv, Remembered, Taken
      <3>2. keys'[uk] # None /\ keys'[uk].born = reviews[r].at
        BY <2>1, <2>5, <2>6, <3>1 DEF Busy
      <3>3. \A j \in Slot : slot'[j].pc \in {"create", "abort"} => At(j) # uk
        BY <2>1, <3>1 DEF Moves
      <3> QED BY <2>1, <2>2, <3>2, <3>3 DEF Taken
    <2> QED BY <2>1, <2>7, <2>8 DEF KeyInv, OncePerKey
  <1>5. CASE Cut(i)
    <2>1. Calm
      BY <1>5, KeyTypes DEF Cut, NoRequest, Calm
    <2> QED BY <1>5, <2>1, CalmKeeps DEF Cut
  <1> QED BY <1>1, <1>2, <1>3, <1>4, <1>5 DEF create

LEMMA TickKey ==
  ASSUME SubmissionInv, KeyInv, Tick
  PROVE  KeyInv'
  <1>1. /\ keys' = keys /\ reviews' = reviews /\ slot' = slot /\ now' = now + 1
        /\ \A j \in Slot : ~Busy(j)
    BY DEF Tick, Busy
  <1>2. Alone'
    BY <1>1 DEF Alone, Busy
  <1>3. \A r \in Rid : reviews[r] # None /\ reviews[r].at + KeyLife <= now
                          => reviews[r].at + KeyLife <= now + 1
    <2> SUFFICES ASSUME NEW r \in Rid, reviews[r] # None, reviews[r].at + KeyLife <= now
                 PROVE  reviews[r].at + KeyLife <= now + 1
      OBVIOUS
    <2>1. reviews[r].at \in Nat /\ now \in Nat /\ KeyLife \in Nat
      BY KeyTypes
    <2> QED BY <2>1
  <1>4. Remembered'
    BY <1>1, <1>3 DEF KeyInv, Remembered, Taken, At
  <1> QED BY <1>1, <1>2, <1>4 DEF KeyInv, OncePerKey

(* The phone sends requests, hears their answers and drops them.            *)
LEMMA PhoneCalm ==
  ASSUME SubmissionInv, Phone
  PROVE  UNCHANGED server /\ Calm
  <1>0. slot \in [Slot -> Request]
    BY DEF SubmissionInv, TypeOK
  <1>1. ASSUME NEW client, NEW k, Send(client, k)
        PROVE  Calm
    <2> DEFINE i == CHOOSE i \in Slot : slot[i].pc = "idle"
               q == [NoRequest EXCEPT !.pc = "register", !.client = client,
                                      !.user = account, !.key = k]
    <2>1. slot' = [slot EXCEPT ![i] = q] /\ q.pc = "register"
      BY <1>1 DEF Send, NoRequest
    <2> HIDE DEF i, q
    <2> QED BY <1>0, <2>1 DEF Calm
  <1>2. ASSUME NEW i \in Slot, NEW client, NEW k, NEW outcome, Told(i, client, k, outcome)
        PROVE  Calm
    <2>1. CASE slot' = [slot EXCEPT ![i] = NoRequest]
      BY <1>0, <2>1 DEF NoRequest, Calm
    <2>2. CASE HangUp(i)
      BY <1>0, <2>2 DEF HangUp, Request, Calm
    <2> QED BY <1>2, <2>1, <2>2 DEF Told
  <1>3. slot' = slot => Calm
    BY DEF Calm
  <1>4. ASSUME NEW k \in Key, Submit(k) \/ \E i \in Slot : SubmitAnswered(k, i)
        PROVE  UNCHANGED server /\ Calm
    BY <1>1, <1>2, <1>4 DEF Submit, SubmitAnswered
  <1>5. ASSUME NEW k \in Key, drain(k)
        PROVE  UNCHANGED server /\ Calm
    <2>1. CASE RunJob(k)
      BY <1>1, <1>3, <2>1 DEF RunJob
    <2>2. CASE uploadPhotos(k)
      BY <1>3, <2>2 DEF uploadPhotos
    <2>3. CASE \E i \in Slot : RunAnswered(k, i)
      BY <1>2, <2>3 DEF RunAnswered
    <2> QED BY <1>5, <2>1, <2>2, <2>3 DEF drain
  <1>6. ASSUME NEW k \in Key, OpenWizard(k) \/ SubmitOffline(k) \/ retryJob(k) \/ dismissJob(k)
        PROVE  UNCHANGED server /\ Calm
    BY <1>3, <1>6 DEF OpenWizard, SubmitOffline, retryJob, dismissJob
  <1>7. CASE processQueue \/ StopRun \/ persist \/ \E u \in User : SignIn(u)
    BY <1>3, <1>7 DEF processQueue, StopRun, persist, SignIn
  <1>8. CASE SignOut
    BY <1>0, <1>8 DEF SignOut, CloseWizards, Request, Calm
  <1>9. CASE Killed
    BY <1>0, <1>9 DEF Killed, Request, Calm
  <1> QED BY <1>4, <1>5, <1>6, <1>7, <1>8, <1>9 DEF Phone, UsePhone

LEMMA InductiveKey == SubmissionInv /\ KeyInv /\ [Next]_vars => KeyInv'
  <1> SUFFICES ASSUME SubmissionInv, KeyInv, [Next]_vars
               PROVE  KeyInv'
    OBVIOUS
  <1>1. CASE \E i \in Slot : Handle(i)
    BY <1>1, HandlerKey DEF Handle
  <1>2. CASE Phone
    BY <1>2, PhoneCalm, CalmKeeps
  <1>3. CASE Tick
    BY <1>3, TickKey
  <1>4. CASE UNCHANGED vars
    BY <1>4, CalmKeeps DEF vars, server, Calm
  <1> QED BY <1>1, <1>2, <1>3, <1>4 DEF Next

(* An idempotency key does its work whatever the cooldown, the number of    *)
(* requests, the life of keys and the attempts: of the reviews a key        *)
(* creates in its life at most one was acknowledged. The invariant behind   *)
(* it is that a request which may create or release has its key to itself,  *)
(* and that an acknowledged review leaves no such request behind.           *)
THEOREM KeyCreatesOnce == Spec => []OncePerKey
  <1>1. KeyInv => OncePerKey
    BY DEF KeyInv
  <1> QED BY <1>1, InitKey, AlwaysInv, InductiveKey, PTL DEF Spec


-------------------------------------------------------------------------------
(* Whose is what. Each request, each job and each answer kept for a key is  *)
(* its author's, and the review it names was created for it; as long as     *)
(* nobody signs out while the queue is drained, it is drained for its       *)
(* owner. The definitions name the reviews and authors they are about.      *)
Wrote(revs, auth, k, r) ==
    /\ revs[r] # None
    /\ revs[r].key = k /\ revs[r].user = auth[k]

OwnRequest(revs, auth, q) ==
    q.pc # "idle" =>
        /\ q.user = auth[q.key]
        /\ q.reply \in Rid => Wrote(revs, auth, q.key, q.reply)

OwnJob(revs, auth, k, job) ==
    job # None =>
        /\ job.user = auth[k]
        /\ job.review # None => Wrote(revs, auth, k, job.review)

OwnKey(revs, u, k, row) ==
    row # None /\ row.answer # None =>
        /\ revs[row.answer] # None
        /\ revs[row.answer].key = k /\ revs[row.answer].user = u

OwnInv ==
    /\ \A i \in Slot : OwnRequest(reviews, author, slot[i])
    /\ \A k \in wizard : author[k] = account
    /\ run.pc # "idle" => run.user = account /\ account # None
    /\ \A k \in Key : /\ OwnJob(reviews, author, k, jobs[k])
                      /\ OwnJob(reviews, author, k, disk[k])
                      /\ OwnJob(reviews, author, k, run.batch[k])
    /\ \A u \in User, k \in Key : OwnKey(reviews, u, k, keys[<<u, k>>])
    /\ UnderOwnName
    /\ DoneIsThere

LEMMA InitOwn == Init => OwnInv
  BY NotAWord DEF Init, OwnInv, NoRequest, NotRunning, NoJobs, OwnRequest, OwnJob, OwnKey,
                  UnderOwnName, DoneIsThere

(* Neither a review nor the author of a key is ever taken back.             *)
Grows ==
    /\ \A r \in Rid : reviews[r] # None => reviews'[r] = reviews[r]
    /\ \A k \in Key : author[k] # None => author'[k] = author[k]

LEMMA WroteStays ==
  ASSUME SubmissionInv, Grows, NEW k \in Key, NEW r \in Rid, Wrote(reviews, author, k, r)
  PROVE  Wrote(reviews', author', k, r)
  <1>1. reviews[r] \in Review /\ None \notin User
    BY SubmissionAssumption DEF SubmissionInv, TypeOK, Wrote
  <1>2. author[k] # None
    BY <1>1 DEF Wrote, Review
  <1> QED BY <1>2 DEF Grows, Wrote

LEMMA RequestStays ==
  ASSUME SubmissionInv, Grows, NEW i \in Slot, OwnRequest(reviews, author, slot[i])
  PROVE  OwnRequest(reviews', author', slot[i])
  <1>1. /\ slot[i].pc # "idle" => slot[i].user \in User /\ slot[i].key \in Key
        /\ None \notin User
    BY SubmissionAssumption DEF SubmissionInv, Asked
  <1> QED BY <1>1, WroteStays DEF OwnRequest, Grows

LEMMA JobStays ==
  ASSUME SubmissionInv, Grows, NEW k \in Key, NEW job \in Job \cup {None},
         OwnJob(reviews, author, k, job)
  PROVE  OwnJob(reviews', author', k, job)
  <1>1. /\ job # None => job.user \in User /\ (job.review # None => job.review \in Rid)
        /\ None \notin User
    BY SubmissionAssumption DEF Job
  <1> QED BY <1>1, WroteStays DEF OwnJob, Grows

LEMMA KeyStays ==
  ASSUME SubmissionInv, Grows, NEW u \in User, NEW k \in Key, NEW row \in KeyRow \cup {None},
         OwnKey(reviews, u, k, row)
  PROVE  OwnKey(reviews', u, k, row)
  BY DEF OwnKey, Grows, KeyRow

(* What holds of what a step leaves alone.                                  *)
LEMMA RestStays ==
  ASSUME SubmissionInv, OwnInv, Grows
  PROVE  /\ \A i \in Slot : OwnRequest(reviews', author', slot[i])
         /\ \A k \in Key : /\ OwnJob(reviews', author', k, jobs[k])
                           /\ OwnJob(reviews', author', k, disk[k])
                           /\ OwnJob(reviews', author', k, run.batch[k])
         /\ \A u \in User, k \in Key : OwnKey(reviews', u, k, keys[<<u, k>>])
         /\ \A k \in sent : \E r \in Rid : Wrote(reviews', author', k, r)
         /\ \A r \in Rid : reviews[r] # None => reviews'[r].user = author'[reviews'[r].key]
  <1>1. /\ keys \in [User \X Key -> KeyRow \cup {None}]
        /\ jobs \in [Key -> Job \cup {None}] /\ disk \in [Key -> Job \cup {None}]
        /\ run.batch \in [Key -> Job \cup {None}] /\ sent \subseteq Key
    BY DEF SubmissionInv, TypeOK, Run
  <1>2. \A k \in sent : \E r \in Rid : Wrote(reviews', author', k, r)
    <2> SUFFICES ASSUME NEW k \in sent
                 PROVE  \E r \in Rid : Wrote(reviews', author', k, r)
      OBVIOUS
    <2>1. PICK r \in Rid : Wrote(reviews, author, k, r)
      BY DEF OwnInv, DoneIsThere, Wrote
    <2> QED BY <1>1, <2>1, WroteStays
  <1>3. \A r \in Rid : reviews[r] # None => reviews'[r].user = author'[reviews'[r].key]
    <2> SUFFICES ASSUME NEW r \in Rid, reviews[r] # None
                 PROVE  reviews'[r].user = author'[reviews'[r].key]
      OBVIOUS
    <2>1. reviews[r] \in Review /\ reviews'[r] = reviews[r] /\ None \notin User
      BY SubmissionAssumption DEF SubmissionInv, TypeOK, Grows
    <2>2. reviews[r].user = author[reviews[r].key]
      BY DEF OwnInv, UnderOwnName
    <2> QED BY <2>1, <2>2 DEF Grows, Review
  <1>4. \A u \in User, k \in Key : OwnKey(reviews', u, k, keys[<<u, k>>])
    <2> SUFFICES ASSUME NEW u \in User, NEW k \in Key
                 PROVE  OwnKey(reviews', u, k, keys[<<u, k>>])
      OBVIOUS
    <2>1. keys[<<u, k>>] \in KeyRow \cup {None} /\ OwnKey(reviews, u, k, keys[<<u, k>>])
      BY <1>1 DEF OwnInv
    <2> QED BY <2>1, KeyStays
  <1>5. \A k \in Key : /\ OwnJob(reviews', author', k, jobs[k])
                       /\ OwnJob(reviews', author', k, disk[k])
                       /\ OwnJob(reviews', author', k, run.batch[k])
    BY <1>1, JobStays DEF OwnInv
  <1>6. \A i \in Slot : OwnRequest(reviews', author', slot[i])
    BY RequestStays DEF OwnInv
  <1> QED BY <1>2, <1>3, <1>4, <1>5, <1>6

LEMMA SameGrows ==
  ASSUME UNCHANGED <<reviews, author>>
  PROVE  Grows
  BY DEF Grows

(* The handler: the request moves on with the answer it had, or with one    *)
(* that is its author's.                                                   *)
LEMMA MovedOn ==
  ASSUME SubmissionInv, OwnInv, Grows, NEW i \in Slot, slot[i].pc # "idle",
         NEW pc, NEW r,
         slot' = [slot EXCEPT ![i].pc = pc, ![i].reply = r],
         r \in Rid => Wrote(reviews', author', slot[i].key, r)
  PROVE  \A j \in Slot : OwnRequest(reviews', author', slot'[j])
  <1>1. /\ slot \in [Slot -> Request] /\ slot[i].user \in User /\ slot[i].key \in Key
        /\ None \notin User
    BY SubmissionAssumption DEF SubmissionInv, TypeOK, Asked
  <1>2. slot[i].user = author[slot[i].key] /\ author'[slot[i].key] = author[slot[i].key]
    BY <1>1 DEF OwnInv, OwnRequest, Grows
  <1>3. /\ \A j \in Slot \ {i} : slot'[j] = slot[j]
        /\ slot'[i].user = slot[i].user /\ slot'[i].key = slot[i].key /\ slot'[i].reply = r
    BY <1>1 DEF Request
  <1>4. OwnRequest(reviews', author', slot'[i])
    BY <1>2, <1>3 DEF OwnRequest
  <1>5. \A j \in Slot \ {i} : OwnRequest(reviews', author', slot'[j])
    BY <1>3, RestStays
  <1> QED BY <1>4, <1>5

LEMMA WentOn ==
  ASSUME SubmissionInv, OwnInv, Grows, NEW i \in Slot, slot[i].pc # "idle",
         NEW pc, Goto(i, pc)
  PROVE  \A j \in Slot : OwnRequest(reviews', author', slot'[j])
  <1>1. slot \in [Slot -> Request]
    BY DEF SubmissionInv, TypeOK
  <1>2. /\ \A j \in Slot \ {i} : slot'[j] = slot[j]
        /\ slot'[i].user = slot[i].user /\ slot'[i].key = slot[i].key
        /\ slot'[i].reply = slot[i].reply
    BY <1>1 DEF Goto, Request
  <1>3. OwnRequest(reviews', author', slot'[i])
    BY <1>2, RestStays DEF OwnRequest
  <1>4. \A j \in Slot \ {i} : OwnRequest(reviews', author', slot'[j])
    BY <1>2, RestStays
  <1> QED BY <1>3, <1>4

(* A row of the keys table is the one it was, gone, new, or completed with  *)
(* the answer of the request at hand.                                      *)
LEMMA KeysMoved ==
  ASSUME SubmissionInv, OwnInv, Grows,
         \A u \in User, k \in Key :
            \/ keys'[<<u, k>>] = keys[<<u, k>>]
            \/ keys'[<<u, k>>] = None
            \/ keys'[<<u, k>>].answer = None
            \/ OwnKey(reviews', u, k, keys'[<<u, k>>])
  PROVE  \A u \in User, k \in Key : OwnKey(reviews', u, k, keys'[<<u, k>>])
  <1> SUFFICES ASSUME NEW u \in User, NEW k \in Key
               PROVE  OwnKey(reviews', u, k, keys'[<<u, k>>])
    OBVIOUS
  <1>1. OwnKey(reviews', u, k, keys[<<u, k>>])
    BY RestStays
  <1> QED BY <1>1 DEF OwnKey

LEMMA HandlerOwns ==
  ASSUME SubmissionInv, OwnInv, Grows, Keep,
         \A i \in Slot : OwnRequest(reviews', author', slot'[i]),
         \A u \in User, k \in Key : OwnKey(reviews', u, k, keys'[<<u, k>>]),
         \A r \in Rid : reviews[r] = None /\ reviews'[r] # None
                           => reviews'[r].user = author[reviews'[r].key]
  PROVE  OwnInv'
  <1>1. /\ author' = author /\ account' = account /\ wizard' = wizard /\ jobs' = jobs
        /\ disk' = disk /\ run' = run /\ sent' = sent
    BY DEF Keep, phone
  <1>2. UnderOwnName'
    <2> SUFFICES ASSUME NEW r \in Rid, reviews'[r] # None
                 PROVE  reviews'[r].user = author'[reviews'[r].key]
      BY DEF UnderOwnName
    <2> QED BY <1>1, RestStays
  <1>3. DoneIsThere'
    BY <1>1, RestStays DEF DoneIsThere, Wrote
  <1>4. \A k \in Key : /\ OwnJob(reviews', author', k, jobs'[k])
                       /\ OwnJob(reviews', author', k, disk'[k])
                       /\ OwnJob(reviews', author', k, run'.batch[k])
    BY <1>1, RestStays
  <1>5. \A k \in wizard' : author'[k] = account'
    BY <1>1 DEF OwnInv
  <1>6. run'.pc # "idle" => run'.user = account' /\ account' # None
    BY <1>1 DEF OwnInv
  <1> QED BY <1>2, <1>3, <1>4, <1>5, <1>6 DEF OwnInv

LEMMA HandlerOwn ==
  ASSUME SubmissionInv, OwnInv, NEW i \in Slot, create(i) \/ Cut(i)
  PROVE  OwnInv'
  <1>0. /\ keys \in [User \X Key -> KeyRow \cup {None}] /\ slot \in [Slot -> Request]
        /\ reviews \in [Rid -> Review \cup {None}]
        /\ slot[i].pc # "idle" => slot[i].user \in User /\ slot[i].key \in Key
        /\ None \notin Rid /\ "rejected" \notin Rid /\ "error" \notin Rid /\ "unauthorized" \notin Rid
        /\ At(i) = <<slot[i].user, slot[i].key>>
    BY SubmissionAssumption DEF SubmissionInv, TypeOK, Asked, At
  <1>1. CASE BeginIdempotent(i)
    <2> DEFINE purged == [uk \in User \X Key |->
            IF keys[uk] # None /\ keys[uk].born + KeyLife <= now THEN None ELSE keys[uk]]
               new == [answer |-> None, born |-> now]
    <2>1. /\ slot[i].pc # "idle" /\ Keep /\ reviews' = reviews
          /\ Goto(i, "create") \/ Goto(i, "lookup")
          /\ keys' = purged \/ keys' = [purged EXCEPT ![At(i)] = new]
      BY <1>1 DEF BeginIdempotent
    <2>2. Grows
      BY <2>1, SameGrows DEF Keep, phone
    <2>3. /\ \A u \in User, k \in Key : purged[<<u, k>>] \in {None, keys[<<u, k>>]}
          /\ new.answer = None /\ purged = [uk \in User \X Key |-> purged[uk]]
      OBVIOUS
    <2> HIDE DEF purged, new
    <2>4. \A u \in User, k \in Key : \/ keys'[<<u, k>>] = keys[<<u, k>>]
                                     \/ keys'[<<u, k>>] = None
                                     \/ keys'[<<u, k>>].answer = None
      BY <2>1, <2>3
    <2> QED BY <2>1, <2>2, <2>4, WentOn, KeysMoved, HandlerOwns
  <1>2. CASE Lookup(i)
    <2> DEFINE row == keys[At(i)]
    <2>1. slot[i].pc # "idle" /\ Keep /\ reviews' = reviews /\ keys' = keys
      BY <1>2 DEF Lookup
    <2>2. Grows
      BY <2>1, SameGrows DEF Keep, phone
    <2>3. slot[i].user = author[slot[i].key]
      BY <2>1 DEF OwnInv, OwnRequest
    <2>4. OwnKey(reviews, slot[i].user, slot[i].key, row)
      BY <1>0, <2>1 DEF OwnInv
    <2>5. PICK r \in Rid \cup {"error", "rejected"} :
            /\ Reply(i, r)
            /\ r \in {"error", "rejected"} \/ (row # None /\ row.answer # None /\ r = row.answer)
      <3>1. row # None => row.answer \in Rid \cup {None}
        BY <1>0, <2>1 DEF KeyRow
      <3>2. \/ row = None /\ Reply(i, "error")
            \/ row # None /\ row.answer = None /\ Reply(i, "rejected")
            \/ row # None /\ row.answer # None /\ Reply(i, row.answer)
        BY <1>2 DEF Lookup
      <3> HIDE DEF row
      <3> QED BY <3>1, <3>2 DEF Reply
    <2> HIDE DEF row
    <2>6. r \in Rid => Wrote(reviews', author', slot[i].key, r)
      BY <1>0, <2>1, <2>3, <2>4, <2>5 DEF OwnKey, Wrote, Keep, phone
    <2>7. \A j \in Slot : OwnRequest(reviews', author', slot'[j])
      BY <2>1, <2>2, <2>5, <2>6, MovedOn DEF Reply
    <2> QED BY <2>1, <2>2, <2>7, KeysMoved, HandlerOwns
  <1>3. CASE Create(i)
    <2>1. slot[i].pc # "idle" /\ keys' = keys /\ Keep /\ author' = author
      BY <1>3 DEF Create, Keep, phone
    <2>2. CASE Insert(i)
      <3>0. PICK r \in Rid, acked \in BOOLEAN :
              /\ reviews[r] = None
              /\ reviews' = [reviews EXCEPT ![r] =
                    [user |-> slot[i].user, key |-> slot[i].key, at |-> now, acked |-> acked]]
              /\ \/ slot' = [slot EXCEPT ![i].pc = "complete", ![i].reply = r]
                 \/ slot' = [slot EXCEPT ![i].pc = "abort", ![i].reply = "error"]
        BY <2>2 DEF Insert
      <3> DEFINE new == [user |-> slot[i].user, key |-> slot[i].key, at |-> now, acked |-> acked]
      <3>1. r \in Rid /\ reviews[r] = None /\ reviews' = [reviews EXCEPT ![r] = new]
        BY <3>0
      <3>2. /\ new.user = slot[i].user /\ new.key = slot[i].key
            /\ new # None
        <4>1. new \in Review
          BY <1>0, <2>1 DEF SubmissionInv, TypeOK, Review
        <4> QED BY <4>1, SubmissionAssumption
      <3>3. \/ slot' = [slot EXCEPT ![i].pc = "complete", ![i].reply = r]
            \/ slot' = [slot EXCEPT ![i].pc = "abort", ![i].reply = "error"]
        BY <3>0
      <3> HIDE DEF new
      <3>4. \A q \in Rid : reviews'[q] = IF q = r THEN new ELSE reviews[q]
        BY <1>0, <3>1
      <3>5. Grows
        BY <2>1, <3>1, <3>4 DEF Grows
      <3>6. slot[i].user = author[slot[i].key]
        BY <2>1 DEF OwnInv, OwnRequest
      <3>7. Wrote(reviews', author', slot[i].key, r)
        BY <2>1, <3>1, <3>2, <3>4, <3>6 DEF Wrote
      <3>8. \A j \in Slot : OwnRequest(reviews', author', slot'[j])
        BY <1>0, <2>1, <3>3, <3>5, <3>7, MovedOn
      <3>9. \A q \in Rid : reviews[q] = None /\ reviews'[q] # None
                              => reviews'[q].user = author[reviews'[q].key]
        BY <3>2, <3>4, <3>6
      <3> QED BY <2>1, <3>5, <3>8, <3>9, KeysMoved, HandlerOwns
    <2>3. ASSUME NEW e \in {"rejected", "error"}, reviews' = reviews,
                 slot' = [slot EXCEPT ![i].pc = "abort", ![i].reply = e]
          PROVE  OwnInv'
      <3>1. Grows
        BY <2>1, <2>3, SameGrows
      <3>2. \A j \in Slot : OwnRequest(reviews', author', slot'[j])
        BY <1>0, <2>1, <2>3, <3>1, MovedOn
      <3> QED BY <2>1, <2>3, <3>1, <3>2, KeysMoved, HandlerOwns
    <2> QED BY <1>3, <2>2, <2>3 DEF Create
  <1>4. CASE CompleteIdempotent(i)
    <2>1. slot[i].pc = "complete" /\ reviews' = reviews /\ Keep
      BY <1>4 DEF CompleteIdempotent
    <2>2. Grows
      BY <2>1, SameGrows DEF Keep, phone
    <2>3. \A j \in Slot : OwnRequest(reviews', author', slot'[j])
      BY <1>0, <1>4, <2>1, <2>2, WentOn, MovedOn DEF CompleteIdempotent, Reply
    <2>4. /\ slot[i].user = author[slot[i].key] /\ slot[i].reply \in Rid
          /\ Wrote(reviews, author, slot[i].key, slot[i].reply)
      BY <2>1 DEF OwnInv, OwnRequest, SubmissionInv, Asked
    <2>5. \A u \in User, k \in Key : \/ keys'[<<u, k>>] = keys[<<u, k>>]
                                     \/ OwnKey(reviews', u, k, keys'[<<u, k>>])
      <3>1. CASE keys' = keys
        BY <3>1
      <3>2. CASE keys[At(i)] # None /\ keys' = [keys EXCEPT ![At(i)].answer = slot[i].reply]
        <4>1. At(i) \in User \X Key /\ keys[At(i)] \in KeyRow
          BY <1>0, <2>1, <3>2
        <4>2. keys'[At(i)].answer = slot[i].reply
          BY <1>0, <3>2, <4>1 DEF KeyRow
        <4>3. OwnKey(reviews', slot[i].user, slot[i].key, keys'[At(i)])
          BY <2>1, <2>4, <4>2 DEF OwnKey, Wrote
        <4>4. \A u \in User, k \in Key : <<u, k>> # At(i) => keys'[<<u, k>>] = keys[<<u, k>>]
          BY <1>0, <3>2
        <4>5. \A u \in User, k \in Key : <<u, k>> = At(i)
                 => OwnKey(reviews', u, k, keys'[<<u, k>>])
          BY <1>0, <4>3
        <4> QED BY <4>4, <4>5
      <3> QED BY <1>4, <3>1, <3>2 DEF CompleteIdempotent
    <2>6. \A u \in User, k \in Key : OwnKey(reviews', u, k, keys'[<<u, k>>])
      BY <2>2, <2>5, KeysMoved
    <2> QED BY <2>1, <2>2, <2>3, <2>6, HandlerOwns
  <1>5. CASE AbortIdempotent(i)
    <2>1. slot[i].pc = "abort" /\ reviews' = reviews /\ Keep
      BY <1>5 DEF AbortIdempotent
    <2>2. Grows
      BY <2>1, SameGrows DEF Keep, phone
    <2>3. \A j \in Slot : OwnRequest(reviews', author', slot'[j])
      BY <1>0, <1>5, <2>1, <2>2, WentOn, MovedOn DEF AbortIdempotent, Reply
    <2>4. \A u \in User, k \in Key : keys'[<<u, k>>] \in {None, keys[<<u, k>>]}
      BY <1>0, <1>5 DEF AbortIdempotent
    <2>5. \A u \in User, k \in Key : OwnKey(reviews', u, k, keys'[<<u, k>>])
      BY <2>2, <2>4, KeysMoved
    <2> QED BY <2>1, <2>2, <2>3, <2>5, HandlerOwns
  <1>6. CASE Cut(i)
    <2>1. UNCHANGED <<server, phone>> /\ slot' = [slot EXCEPT ![i] = NoRequest]
      BY <1>6 DEF Cut
    <2>2. Grows
      BY <2>1, SameGrows DEF server, phone
    <2>3. \A j \in Slot : OwnRequest(reviews', author', slot'[j])
      <3>1. \A j \in Slot : slot'[j] = IF j = i THEN NoRequest ELSE slot[j]
        BY <1>0, <2>1
      <3> QED BY <2>2, <3>1, RestStays DEF OwnRequest, NoRequest
    <2>4. Keep /\ keys' = keys /\ reviews' = reviews
      BY <2>1 DEF server, Keep
    <2> QED BY <2>2, <2>3, <2>4, KeysMoved, HandlerOwns
  <1>7. CASE Unauthorized(i)
    <2>1. /\ slot[i].pc # "idle" /\ Keep /\ reviews' = reviews /\ keys' = keys
          /\ Reply(i, "unauthorized")
      BY <1>7 DEF Unauthorized
    <2>2. Grows
      BY <2>1, SameGrows DEF Keep, phone
    <2>3. \A j \in Slot : OwnRequest(reviews', author', slot'[j])
      BY <1>0, <2>1, <2>2, MovedOn DEF Reply
    <2> QED BY <2>1, <2>2, <2>3, KeysMoved, HandlerOwns
  <1> QED BY <1>1, <1>2, <1>3, <1>4, <1>5, <1>6, <1>7 DEF create

(* The phone. It touches no review, and only the author of a key that has   *)
(* none.                                                                   *)
LEMMA PhoneOwns ==
  ASSUME SubmissionInv, OwnInv, Grows, UNCHANGED server,
         \A i \in Slot : OwnRequest(reviews', author', slot'[i]),
         \A k \in wizard' : author'[k] = account',
         run'.pc # "idle" => run'.user = account' /\ account' # None,
         \A k \in Key : /\ OwnJob(reviews', author', k, jobs'[k])
                        /\ OwnJob(reviews', author', k, disk'[k])
                        /\ OwnJob(reviews', author', k, run'.batch[k]),
         \A k \in sent' : k \in sent \/ \E r \in Rid : Wrote(reviews', author', k, r)
  PROVE  OwnInv'
  <1>1. keys' = keys /\ reviews' = reviews
    BY DEF server
  <1>2. UnderOwnName'
    BY <1>1, RestStays DEF UnderOwnName
  <1>3. DoneIsThere'
    BY RestStays DEF DoneIsThere, Wrote
  <1>4. \A u \in User, k \in Key : OwnKey(reviews', u, k, keys'[<<u, k>>])
    BY <1>1, RestStays
  <1> QED BY <1>2, <1>3, <1>4 DEF OwnInv

(* The queue works for one account.                                        *)
LEMMA DrainOwns ==
  ASSUME SubmissionInv, OwnInv, UNCHANGED <<server, account, wizard, author>>,
         \A i \in Slot : OwnRequest(reviews, author, slot'[i]),
         run'.pc # "idle" => run.pc # "idle" /\ run'.user = run.user,
         \A k \in Key : /\ OwnJob(reviews, author, k, jobs'[k])
                        /\ OwnJob(reviews, author, k, disk'[k])
                        /\ OwnJob(reviews, author, k, run'.batch[k]),
         \A k \in sent' : k \in sent \/ \E r \in Rid : Wrote(reviews, author, k, r)
  PROVE  OwnInv'
  <1>1. Grows /\ reviews' = reviews
    BY SameGrows DEF server
  <1>2. \A k \in wizard' : author'[k] = account'
    BY DEF OwnInv
  <1>3. run'.pc # "idle" => run'.user = account' /\ account' # None
    BY DEF OwnInv
  <1> QED BY <1>1, <1>2, <1>3, PhoneOwns

LEMMA SentOwn ==
  ASSUME SubmissionInv, OwnInv, NEW client, NEW k \in Key, Send(client, k),
         account = author[k]
  PROVE  \A i \in Slot : OwnRequest(reviews, author, slot'[i])
  <1> DEFINE i == CHOOSE i \in Slot : slot[i].pc = "idle"
             q == [NoRequest EXCEPT !.pc = "register", !.client = client, !.user = account,
                                    !.key = k]
  <1>1. slot \in [Slot -> Request] /\ None \notin Rid
    BY SubmissionAssumption DEF SubmissionInv, TypeOK
  <1>2. i \in Slot /\ slot' = [slot EXCEPT ![i] = q]
    BY DEF Send
  <1>3. q.user = account /\ q.key = k /\ q.reply = None
    BY DEF NoRequest
  <1> HIDE DEF i, q
  <1>4. \A j \in Slot : slot'[j] = IF j = i THEN q ELSE slot[j]
    BY <1>1, <1>2
  <1> QED BY <1>1, <1>3, <1>4 DEF OwnInv, OwnRequest

LEMMA ToldOwn ==
  ASSUME SubmissionInv, OwnInv, NEW i \in Slot, NEW client, NEW k, NEW outcome,
         Told(i, client, k, outcome)
  PROVE  /\ \A j \in Slot : OwnRequest(reviews, author, slot'[j])
         /\ outcome \in Rid => Wrote(reviews, author, k, outcome)
  <1>1. slot \in [Slot -> Request] /\ "lost" \notin Rid
    BY SubmissionAssumption DEF SubmissionInv, TypeOK
  <1>2. CASE slot[i].pc = "answer" /\ outcome = slot[i].reply /\ slot' = [slot EXCEPT ![i] = NoRequest]
    <2>1. \A j \in Slot : slot'[j] = IF j = i THEN NoRequest ELSE slot[j]
      BY <1>1, <1>2
    <2>2. slot[i].key = k
      BY DEF Told
    <2> QED BY <1>2, <2>1, <2>2 DEF OwnInv, OwnRequest, NoRequest
  <1>3. CASE outcome = "lost" /\ HangUp(i)
    <2>1. \A j \in Slot : /\ slot'[j].pc = slot[j].pc /\ slot'[j].user = slot[j].user
                          /\ slot'[j].key = slot[j].key /\ slot'[j].reply = slot[j].reply
      BY <1>1, <1>3 DEF HangUp, Request
    <2> QED BY <1>1, <1>3, <2>1 DEF OwnInv, OwnRequest
  <1> QED BY <1>2, <1>3 DEF Told

(* What a run makes of its job.                                            *)
LEMMA JobOwns ==
  ASSUME SubmissionInv, OwnInv, NEW k \in Key, run.batch[k] # None
  PROVE  /\ OwnJob(reviews, author, k, [run.batch[k] EXCEPT !.failure = "rejected"])
         /\ \A r \in Rid : Wrote(reviews, author, k, r) =>
                OwnJob(reviews, author, k, [run.batch[k] EXCEPT !.review = r])
         /\ \A n \in Nat, f \in {None, GAVE_UP} :
                OwnJob(reviews, author, k, [run.batch[k] EXCEPT !.attempts = n, !.failure = f])
  <1>1. run.batch[k] \in Job /\ OwnJob(reviews, author, k, run.batch[k])
    BY JobTypes DEF OwnInv
  <1>2. OwnJob(reviews, author, k, [run.batch[k] EXCEPT !.failure = "rejected"])
    BY <1>1 DEF OwnJob, Job
  <1>3. \A r \in Rid : Wrote(reviews, author, k, r) =>
            OwnJob(reviews, author, k, [run.batch[k] EXCEPT !.review = r])
    <2> SUFFICES ASSUME NEW r \in Rid, Wrote(reviews, author, k, r)
                 PROVE  OwnJob(reviews, author, k, [run.batch[k] EXCEPT !.review = r])
      OBVIOUS
    <2> DEFINE job == [run.batch[k] EXCEPT !.review = r]
    <2>1. job.user = run.batch[k].user /\ job.review = r /\ run.batch[k] # None
      BY <1>1 DEF Job
    <2> HIDE DEF job
    <2>2. OwnJob(reviews, author, k, job)
      BY <1>1, <2>1 DEF OwnJob
    <2> QED BY <2>2 DEF job
  <1>4. \A n \in Nat, f \in {None, GAVE_UP} :
            OwnJob(reviews, author, k, [run.batch[k] EXCEPT !.attempts = n, !.failure = f])
    <2> SUFFICES ASSUME NEW n \in Nat, NEW f \in {None, GAVE_UP}
                 PROVE  OwnJob(reviews, author, k,
                               [run.batch[k] EXCEPT !.attempts = n, !.failure = f])
      OBVIOUS
    <2> DEFINE job == [run.batch[k] EXCEPT !.attempts = n, !.failure = f]
    <2>1. job.user = run.batch[k].user /\ job.review = run.batch[k].review
      BY <1>1 DEF Job
    <2> HIDE DEF job
    <2>2. OwnJob(reviews, author, k, job)
      BY <1>1, <2>1 DEF OwnJob
    <2> QED BY <2>2 DEF job
  <1> QED BY <1>2, <1>3, <1>4

LEMMA SetOwns ==
  ASSUME SubmissionInv, OwnInv, NEW k \in Key, NEW job, OwnJob(reviews, author, k, job),
         SetJob(k, job)
  PROVE  \A j \in Key : OwnJob(reviews, author, j, jobs'[j])
  <1>1. jobs \in [Key -> Job \cup {None}]
    BY DEF SubmissionInv, TypeOK
  <1>2. \A j \in Key : jobs'[j] = jobs[j] \/ (j = k /\ jobs'[j] = job)
    BY <1>1 DEF SetJob
  <1> QED BY <1>2 DEF OwnInv

LEMMA NextOwns ==
  ASSUME SubmissionInv, OwnInv, NEW k \in Key, NextJob(k)
  PROVE  /\ \A j \in Key : OwnJob(reviews, author, j, run'.batch[j])
         /\ run'.user = run.user
  <1>1. run.batch \in [Key -> Job \cup {None}]
    BY DEF SubmissionInv, TypeOK, Run
  <1>2. run'.batch = [run.batch EXCEPT ![k] = None] /\ run'.user = run.user
    BY NextTypes
  <1>3. \A j \in Key : run'.batch[j] = None \/ run'.batch[j] = run.batch[j]
    BY <1>1, <1>2
  <1> QED BY <1>2, <1>3 DEF OwnInv, OwnJob

LEMMA LaterOwns ==
  ASSUME SubmissionInv, OwnInv, NEW k \in Key, run.batch[k] # None, RetryLater(k)
  PROVE  /\ \A j \in Key : /\ OwnJob(reviews, author, j, jobs'[j])
                           /\ OwnJob(reviews, author, j, run'.batch[j])
         /\ run'.user = run.user /\ sent' = sent
  <1> DEFINE n == run.batch[k].attempts + 1
             f == IF n >= MaxAttempts THEN GAVE_UP ELSE None
             job == [run.batch[k] EXCEPT !.attempts = n, !.failure = f]
  <1>1. n \in Nat /\ f \in {None, GAVE_UP}
    BY JobTypes
  <1>2. OwnJob(reviews, author, k, job)
    BY <1>1, JobOwns
  <1>3. SetJob(k, job) /\ NextJob(k) /\ sent' = sent
    BY DEF RetryLater
  <1> HIDE DEF job
  <1> QED BY <1>2, <1>3, SetOwns, NextOwns

LEMMA RunOwn ==
  ASSUME SubmissionInv, OwnInv, NEW k \in Key, drain(k)
  PROVE  OwnInv'
  <1>0. /\ run \in Run /\ None \notin Rid /\ "lost" \notin Rid /\ "rejected" \notin Rid
        /\ "error" \notin Rid
        /\ \A i \in Slot : OwnRequest(reviews, author, slot[i])
        /\ \A j \in Key : /\ OwnJob(reviews, author, j, jobs[j])
                          /\ OwnJob(reviews, author, j, disk[j])
                          /\ OwnJob(reviews, author, j, run.batch[j])
    BY SubmissionAssumption DEF SubmissionInv, TypeOK, OwnInv
  <1>1. CASE RunJob(k)
    <2>1. /\ run.pc = "next" /\ Runnable(k)
          /\ UNCHANGED <<server, account, wizard, jobs, disk, author, sent>>
      BY <1>1 DEF RunJob
    <2>2. account = author[k]
      BY <1>0, <2>1 DEF OwnInv, OwnJob, Runnable
    <2>3. \A i \in Slot : OwnRequest(reviews, author, slot'[i])
      BY <1>0, <1>1, <2>2, SentOwn DEF RunJob
    <2>4. run'.user = run.user /\ run'.batch = run.batch
      BY <1>0, <1>1 DEF RunJob, Run
    <2> QED BY <1>0, <2>1, <2>3, <2>4, DrainOwns
  <1>2. CASE uploadPhotos(k)
    <2>1. /\ run.pc = "photos" /\ run.key = k
          /\ UNCHANGED <<server, account, wizard, author>> /\ disk' = disk /\ slot' = slot
      BY <1>2 DEF uploadPhotos
    <2>2. run.batch[k] # None /\ run.batch[k].review \in Rid
      BY <2>1 DEF SubmissionInv, Held
    <2>3. Wrote(reviews, author, k, run.batch[k].review)
      BY <1>0, <2>2 DEF OwnJob
    <2>4. /\ \A j \in Key : /\ OwnJob(reviews, author, j, jobs'[j])
                            /\ OwnJob(reviews, author, j, run'.batch[j])
          /\ run'.user = run.user /\ sent' \subseteq sent \cup {k}
      <3>1. CASE jobs' = [jobs EXCEPT ![k] = None] /\ sent' = sent \cup {k} /\ NextJob(k)
        <4>1. \A j \in Key : jobs'[j] = None \/ jobs'[j] = jobs[j]
          BY <3>1 DEF SubmissionInv, TypeOK
        <4> QED BY <1>0, <3>1, <4>1, NextOwns DEF OwnJob
      <3>2. CASE RetryLater(k)
        BY <2>2, <3>2, LaterOwns
      <3> QED BY <1>2, <3>1, <3>2 DEF uploadPhotos
    <2> QED BY <1>0, <2>1, <2>2, <2>3, <2>4, DrainOwns
  <1>3. ASSUME NEW i \in Slot, RunAnswered(k, i)
        PROVE  OwnInv'
    <2>1. /\ run.pc = "wait" /\ run.key = k
          /\ UNCHANGED <<server, account, wizard, author>> /\ disk' = disk
      BY <1>3 DEF RunAnswered
    <2>2. run.batch[k] # None
      BY <2>1 DEF SubmissionInv, Held
    <2>3. PICK outcome \in Rid \cup {"rejected", "error", "unauthorized", "lost"} :
            /\ Told(i, "queue", k, outcome)
            /\ \/ /\ outcome \in Rid
                  /\ SetJob(k, [run.batch[k] EXCEPT !.review = outcome])
                  /\ run' = [run EXCEPT !.pc = "photos", !.batch[k].review = outcome]
                  /\ UNCHANGED sent
               \/ outcome = "rejected" /\ Failed(k)
               \/ outcome \in {"error", "lost"} /\ RetryLater(k)
               \/ outcome = "unauthorized" /\ run' = NotRunning /\ UNCHANGED <<jobs, sent>>
      BY <1>3 DEF RunAnswered
    <2>4. /\ \A j \in Slot : OwnRequest(reviews, author, slot'[j])
          /\ outcome \in Rid => Wrote(reviews, author, k, outcome)
      BY <2>3, ToldOwn
    <2>5. /\ \A j \in Key : /\ OwnJob(reviews, author, j, jobs'[j])
                            /\ OwnJob(reviews, author, j, run'.batch[j])
          /\ run'.pc # "idle" => run'.user = run.user
          /\ sent' = sent
      <3>1. CASE /\ outcome \in Rid
                 /\ SetJob(k, [run.batch[k] EXCEPT !.review = outcome])
                 /\ run' = [run EXCEPT !.pc = "photos", !.batch[k].review = outcome]
                 /\ UNCHANGED sent
        <4> DEFINE job == [run.batch[k] EXCEPT !.review = outcome]
        <4>1. OwnJob(reviews, author, k, job) /\ SetJob(k, job)
          BY <2>2, <2>4, <3>1, JobOwns
        <4>2. run'.batch = [run.batch EXCEPT ![k] = job] /\ run'.user = run.user
          BY <1>0, <3>1 DEF Run
        <4> HIDE DEF job
        <4>3. \A j \in Key : run'.batch[j] = run.batch[j] \/ (j = k /\ run'.batch[j] = job)
          BY <1>0, <4>2 DEF Run
        <4> QED BY <1>0, <3>1, <4>1, <4>2, <4>3, SetOwns
      <3>2. CASE Failed(k)
        <4> DEFINE job == [run.batch[k] EXCEPT !.failure = "rejected"]
        <4>1. OwnJob(reviews, author, k, job)
          BY <2>2, JobOwns
        <4>2. SetJob(k, job) /\ NextJob(k) /\ sent' = sent
          BY <3>2 DEF Failed
        <4> HIDE DEF job
        <4> QED BY <4>1, <4>2, SetOwns, NextOwns
      <3>3. CASE RetryLater(k)
        BY <2>2, <3>3, LaterOwns
      <3>4. CASE run' = NotRunning /\ UNCHANGED <<jobs, sent>>
        BY <1>0, <3>4 DEF NotRunning, NoJobs, OwnJob
      <3> QED BY <2>3, <3>1, <3>2, <3>3, <3>4
    <2> QED BY <1>0, <2>1, <2>4, <2>5, DrainOwns
  <1> QED BY <1>1, <1>2, <1>3 DEF drain

LEMMA QueueOwn ==
  ASSUME SubmissionInv, OwnInv,
         \/ processQueue \/ StopRun \/ persist
         \/ \E k \in Key : retryJob(k) \/ dismissJob(k)
  PROVE  OwnInv'
  <1>0. /\ run \in Run /\ jobs \in [Key -> Job \cup {None}]
        /\ \A i \in Slot : OwnRequest(reviews, author, slot[i])
        /\ \A j \in Key : /\ OwnJob(reviews, author, j, jobs[j])
                          /\ OwnJob(reviews, author, j, disk[j])
                          /\ OwnJob(reviews, author, j, run.batch[j])
    BY DEF SubmissionInv, TypeOK, OwnInv
  <1>1. CASE processQueue
    <2>1. /\ run' = [pc |-> "next", user |-> account, batch |-> jobs, key |-> None]
          /\ UNCHANGED <<server, slot, account, wizard, jobs, disk, author, sent>>
          /\ account # None
      BY <1>1 DEF processQueue
    <2>2. Grows
      BY <2>1, SameGrows DEF server
    <2>3. \A k \in wizard' : author'[k] = account'
      BY <2>1 DEF OwnInv
    <2>4. reviews' = reviews /\ author' = author /\ run'.batch = jobs /\ run'.user = account
      BY <2>1 DEF server
    <2> QED BY <1>0, <2>1, <2>2, <2>3, <2>4, PhoneOwns
  <1>2. CASE StopRun
    <2>1. /\ run' = NotRunning
          /\ UNCHANGED <<server, slot, account, wizard, jobs, disk, author, sent>>
      BY <1>2 DEF StopRun
    <2>2. run'.pc = "idle" /\ \A j \in Key : run'.batch[j] = None
      BY <2>1 DEF NotRunning, NoJobs
    <2> QED BY <1>0, <2>1, <2>2, DrainOwns DEF OwnJob
  <1>3. CASE persist
    <2>1. disk' = jobs /\ UNCHANGED <<server, slot, account, wizard, jobs, run, author, sent>>
      BY <1>3 DEF persist
    <2> QED BY <1>0, <2>1, DrainOwns
  <1>4. ASSUME NEW k \in Key, retryJob(k) \/ dismissJob(k)
        PROVE  OwnInv'
    <2>1. /\ UNCHANGED <<server, slot, account, wizard, disk, run, author, sent>>
          /\ jobs[k] \in Job /\ jobs[k] # None
      BY <1>0, <1>4 DEF retryJob, dismissJob
    <2>2. \A j \in Key : \/ jobs'[j] = jobs[j]
                         \/ jobs'[j] = None
                         \/ /\ jobs[j] # None
                            /\ jobs'[j].user = jobs[j].user
                            /\ jobs'[j].review = jobs[j].review
      <3>1. CASE retryJob(k)
        <4>1. \A j \in Key \ {k} : jobs'[j] = jobs[j]
          BY <1>0, <3>1 DEF retryJob
        <4>2. jobs'[k].user = jobs[k].user /\ jobs'[k].review = jobs[k].review
          BY <1>0, <2>1, <3>1 DEF retryJob, Job
        <4> QED BY <2>1, <4>1, <4>2
      <3>2. CASE dismissJob(k)
        BY <1>0, <3>2 DEF dismissJob
      <3> QED BY <1>4, <3>1, <3>2
    <2>3. \A j \in Key : OwnJob(reviews, author, j, jobs'[j])
      BY <1>0, <2>2 DEF OwnJob
    <2> QED BY <1>0, <2>1, <2>3, DrainOwns
  <1> QED BY <1>1, <1>2, <1>3, <1>4

LEMMA EnqueueOwns ==
  ASSUME SubmissionInv, OwnInv, NEW k \in wizard, NEW r \in Rid \cup {None},
         r # None => Wrote(reviews, author, k, r),
         enqueueReviewSubmission(k, r)
  PROVE  \A j \in Key : OwnJob(reviews, author, j, jobs'[j])
  <1>1. jobs \in [Key -> Job \cup {None}] /\ k \in Key /\ author[k] = account
    BY DEF SubmissionInv, TypeOK, OwnInv
  <1>2. OwnJob(reviews, author, k, NewJob(account, r))
    BY <1>1 DEF NewJob, OwnJob
  <1>3. \A j \in Key : jobs'[j] = IF j = k THEN NewJob(account, r) ELSE jobs[j]
    BY <1>1 DEF enqueueReviewSubmission
  <1> QED BY <1>2, <1>3 DEF OwnInv

LEMMA WizardOwn ==
  ASSUME SubmissionInv, OwnInv, NEW k \in Key,
         \/ OpenWizard(k) \/ Submit(k) \/ SubmitOffline(k)
         \/ \E i \in Slot : SubmitAnswered(k, i)
  PROVE  OwnInv'
  <1>0. /\ None \notin Rid /\ "lost" \notin Rid /\ "rejected" \notin Rid /\ "error" \notin Rid /\ "unauthorized" \notin Rid
        /\ author \in [Key -> User \cup {None}] /\ wizard \subseteq Key
        /\ \A i \in Slot : OwnRequest(reviews, author, slot[i])
        /\ \A j \in Key : /\ OwnJob(reviews, author, j, jobs[j])
                          /\ OwnJob(reviews, author, j, disk[j])
                          /\ OwnJob(reviews, author, j, run.batch[j])
        /\ \A j \in wizard : author[j] = account
        /\ run.pc # "idle" => run.user = account /\ account # None
    BY SubmissionAssumption DEF SubmissionInv, TypeOK, OwnInv
  <1>1. CASE OpenWizard(k)
    <2>1. /\ UNCHANGED <<server, slot, account, jobs, disk, run, sent>>
          /\ author[k] = None /\ author' = [author EXCEPT ![k] = account]
          /\ wizard' = wizard \cup {k}
      BY <1>1 DEF OpenWizard
    <2>2. Grows
      BY <1>0, <2>1 DEF Grows, server
    <2>3. \A j \in wizard' : author'[j] = account'
      BY <1>0, <2>1
    <2> QED BY <1>0, <2>1, <2>2, <2>3, RestStays, PhoneOwns
  <1>2. CASE Submit(k)
    <2>1. k \in wizard /\ Send("wizard", k) /\ UNCHANGED <<server, phone>>
      BY <1>2 DEF Submit
    <2>2. \A i \in Slot : OwnRequest(reviews, author, slot'[i])
      BY <1>0, <2>1, SentOwn
    <2> QED BY <1>0, <2>1, <2>2, DrainOwns DEF phone
  <1>3. CASE SubmitOffline(k)
    <2>1. /\ k \in wizard /\ enqueueReviewSubmission(k, None)
          /\ UNCHANGED <<server, slot, account, disk, run, author, sent>>
      BY <1>3 DEF SubmitOffline
    <2>2. \A j \in Key : OwnJob(reviews, author, j, jobs'[j])
      BY <2>1, EnqueueOwns
    <2>3. Grows /\ reviews' = reviews
      BY <2>1, SameGrows DEF server
    <2>4. \A j \in wizard' : author'[j] = account'
      BY <1>0, <2>1 DEF enqueueReviewSubmission
    <2> QED BY <1>0, <2>1, <2>2, <2>3, <2>4, PhoneOwns
  <1>4. ASSUME NEW i \in Slot, SubmitAnswered(k, i)
        PROVE  OwnInv'
    <2>1. PICK outcome \in Rid \cup {"rejected", "error", "unauthorized", "lost"} :
            /\ Told(i, "wizard", k, outcome)
            /\ \/ /\ outcome \in Rid
                  /\ \/ enqueueReviewSubmission(k, outcome)
                     \/ wizard' = wizard \ {k} /\ UNCHANGED jobs
               \/ outcome \in {"rejected", "error", "unauthorized"} /\ UNCHANGED <<wizard, jobs>>
               \/ outcome = "lost" /\ enqueueReviewSubmission(k, None)
      BY <1>4 DEF SubmitAnswered
    <2>2. /\ \A j \in Slot : OwnRequest(reviews, author, slot'[j])
          /\ outcome \in Rid => Wrote(reviews, author, k, outcome)
      BY <2>1, ToldOwn
    <2>3. UNCHANGED <<server, account, disk, run, author, sent>>
      BY <1>4 DEF SubmitAnswered
    <2>4. k \in wizard
      BY <2>1 DEF SubmissionInv, Told, Writing
    <2>5. /\ \A j \in Key : OwnJob(reviews, author, j, jobs'[j])
          /\ wizard' \subseteq wizard
      <3>1. CASE outcome \in Rid /\ enqueueReviewSubmission(k, outcome)
        BY <2>2, <2>4, <3>1, EnqueueOwns DEF enqueueReviewSubmission
      <3>2. CASE wizard' \in {wizard, wizard \ {k}} /\ jobs' = jobs
        BY <1>0, <3>2
      <3>3. CASE enqueueReviewSubmission(k, None)
        BY <2>4, <3>3, EnqueueOwns DEF enqueueReviewSubmission
      <3> QED BY <2>1, <3>1, <3>2, <3>3
    <2>6. Grows /\ reviews' = reviews
      BY <2>3, SameGrows DEF server
    <2>7. \A j \in wizard' : author'[j] = account'
      BY <1>0, <2>3, <2>5
    <2> QED BY <1>0, <2>2, <2>3, <2>5, <2>6, <2>7, PhoneOwns
  <1> QED BY <1>1, <1>2, <1>3, <1>4

LEMMA HungOwn ==
  ASSUME SubmissionInv, OwnInv, NEW S,
         slot' = [i \in Slot |-> IF i \in S THEN [slot[i] EXCEPT !.client = None] ELSE slot[i]]
  PROVE  \A i \in Slot : OwnRequest(reviews, author, slot'[i])
  <1>1. slot \in [Slot -> Request]
    BY DEF SubmissionInv, TypeOK
  <1>2. \A i \in Slot : /\ slot'[i].pc = slot[i].pc /\ slot'[i].user = slot[i].user
                        /\ slot'[i].key = slot[i].key /\ slot'[i].reply = slot[i].reply
    BY <1>1 DEF Request
  <1> QED BY <1>2 DEF OwnInv, OwnRequest

LEMMA AccountOwn ==
  ASSUME ~SwitchDuringRun, SubmissionInv, OwnInv, (\E u \in User : SignIn(u)) \/ SignOut \/ Killed
  PROVE  OwnInv'
  <1>0. /\ None \notin User /\ jobs \in [Key -> Job \cup {None}]
        /\ \A i \in Slot : OwnRequest(reviews, author, slot[i])
        /\ \A j \in Key : /\ OwnJob(reviews, author, j, jobs[j])
                          /\ OwnJob(reviews, author, j, disk[j])
                          /\ OwnJob(reviews, author, j, run.batch[j])
        /\ wizard # {} => account \in User
        /\ run.pc # "idle" => account # None
    BY SubmissionAssumption DEF SubmissionInv, TypeOK, OwnInv
  <1>1. ASSUME NEW u \in User, SignIn(u)
        PROVE  OwnInv'
    <2>1. /\ account = None /\ account' = u
          /\ UNCHANGED <<server, slot, wizard, jobs, disk, run, author, sent>>
      BY <1>1 DEF SignIn
    <2>2. Grows /\ reviews' = reviews
      BY <2>1, SameGrows DEF server
    <2>3. wizard' = {} /\ run'.pc = "idle"
      BY <1>0, <2>1
    <2> QED BY <1>0, <2>1, <2>2, <2>3, PhoneOwns
  <1>2. CASE SignOut
    <2>1. /\ run.pc = "idle" /\ account' = None /\ wizard' = {} /\ jobs' \in {NoJobs, jobs}
          /\ UNCHANGED <<server, disk, run, author, sent>>
      BY <1>2 DEF SignOut, MayLeave, CloseWizards
    <2>2. Grows /\ reviews' = reviews
      BY <2>1, SameGrows DEF server
    <2>3. \A i \in Slot : OwnRequest(reviews, author, slot'[i])
      <3> DEFINE S == {i \in Slot : slot[i].client = "wizard"}
      <3>1. slot' = [i \in Slot |-> IF i \in S THEN [slot[i] EXCEPT !.client = None]
                                             ELSE slot[i]]
        BY <1>2 DEF SignOut, CloseWizards
      <3> QED BY <3>1, HungOwn
    <2>4. \A j \in Key : OwnJob(reviews, author, j, jobs'[j])
      BY <1>0, <2>1 DEF NoJobs, OwnJob
    <2> QED BY <1>0, <2>1, <2>2, <2>3, <2>4, PhoneOwns
  <1>3. CASE Killed
    <2>1. /\ jobs' = disk /\ run' = NotRunning /\ wizard' = {}
          /\ UNCHANGED <<server, account, disk, author, sent>>
      BY <1>3 DEF Killed
    <2>2. Grows /\ reviews' = reviews
      BY <2>1, SameGrows DEF server
    <2>3. \A i \in Slot : OwnRequest(reviews, author, slot'[i])
      <3>1. slot' = [i \in Slot |-> IF i \in Slot THEN [slot[i] EXCEPT !.client = None]
                                                ELSE slot[i]]
        BY <1>3 DEF Killed
      <3> QED BY <3>1, HungOwn
    <2>4. run'.pc = "idle" /\ \A j \in Key : run'.batch[j] = None
      BY <2>1 DEF NotRunning, NoJobs
    <2>5. \A j \in Key : OwnJob(reviews, author, j, run'.batch[j])
      BY <2>4 DEF OwnJob
    <2> QED BY <1>0, <2>1, <2>2, <2>3, <2>4, <2>5, PhoneOwns
  <1> QED BY <1>1, <1>2, <1>3

LEMMA InductiveOwn ==
  ASSUME ~SwitchDuringRun
  PROVE  SubmissionInv /\ OwnInv /\ [Next]_vars => OwnInv'
  <1> SUFFICES ASSUME SubmissionInv, OwnInv, [Next]_vars
               PROVE  OwnInv'
    OBVIOUS
  <1>1. CASE \E i \in Slot : Handle(i)
    BY <1>1, HandlerOwn DEF Handle
  <1>2. CASE Phone
    <2>1. CASE \E k \in Key : \/ OpenWizard(k) \/ Submit(k) \/ SubmitOffline(k)
                              \/ \E i \in Slot : SubmitAnswered(k, i)
      BY <2>1, WizardOwn
    <2>2. CASE \E k \in Key : drain(k)
      BY <2>2, RunOwn
    <2>3. CASE \/ processQueue \/ StopRun \/ persist
               \/ \E k \in Key : retryJob(k) \/ dismissJob(k)
      BY <2>3, QueueOwn
    <2>4. CASE (\E u \in User : SignIn(u)) \/ SignOut \/ Killed
      BY <2>4, AccountOwn
    <2> QED BY <1>2, <2>1, <2>2, <2>3, <2>4 DEF Phone, UsePhone
  <1>3. CASE Tick \/ UNCHANGED vars
    BY <1>3 DEF Tick, phone, vars, OwnInv, UnderOwnName, DoneIsThere
  <1> QED BY <1>1, <1>2, <1>3 DEF Next

LEMMA AlwaysOwn ==
  ASSUME ~SwitchDuringRun
  PROVE  Spec => []OwnInv
  <1>1. Init => OwnInv
    BY InitOwn
  <1>2. SubmissionInv /\ OwnInv /\ [Next]_vars => OwnInv'
    BY InductiveOwn
  <1> QED BY <1>1, <1>2, AlwaysInv, PTL DEF Spec

(* As long as nobody signs out while the queue is drained, a job that left the queue as done left a       *)
(* review of its author behind, for any number of requests in progress,     *)
(* lost answers and expired keys.                                          *)
THEOREM DoneCreated ==
  ASSUME ~SwitchDuringRun
  PROVE  Spec => []DoneIsThere
  <1>1. OwnInv => DoneIsThere
    BY DEF OwnInv
  <1> QED BY <1>1, AlwaysOwn, PTL
===============================================================================
