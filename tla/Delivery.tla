-------------------------------- MODULE Delivery -------------------------------
(***************************************************************************)
(* Push notifications (internal/notifications): the outbox that a domain   *)
(* transaction fills, the dispatchers that drain it to Firebase Cloud      *)
(* Messaging, and the registry of the phones to send to. A send is a       *)
(* sequence of calls, one per phone; a dispatcher may stop between any two *)
(* steps, a call may fail or never be answered, and phones sign in, sign   *)
(* out and register meanwhile. Time is kept as the ticks left until        *)
(* something falls due, so that it need not be bounded.                    *)
(***************************************************************************)
EXTENDS Naturals, FiniteSets

CONSTANTS
    User,
    Event,          \* rows of the outbox, one per dedupe key of a user
    Recipient,      \* the user of each event
    Phone,          \* push tokens; an install may be given another
    Family,         \* sign-ins
    OwnerOf,        \* the user of each sign-in
    Worker,         \* dispatchers
    None,
    MaxAttempts,    \* dispatcherMaxAttempts
    Visibility,     \* outboxVisibilityTimeout
    Budget,         \* sendBudget: Visibility less dispatcherLeaseMargin
    MaxDevices      \* maxDevicesPerUser

VARIABLES
    outbox,         \* notification_outbox
    devices,        \* device_tokens, at most one of each phone
    older,          \* <<p, q>>: phone p was last seen before q
    signin,         \* state of each sign-in
    account,        \* users.status: active, suspended or deactivated, erased
    work,           \* what each dispatcher does
    failures, reached   \* history: sends that failed, events sent

vars == <<outbox, devices, older, signin, account, work, failures, reached>>

OutboxRow == [state: {"pending", "delivered", "abandoned", "erased"},
              attempts: 0..MaxAttempts,
              due: Nat]             \* ticks until available_at

(* Registered under a sign-in, or under none (session_family_id is null).  *)
Device == [phone: Phone, user: User, family: Family \cup {None}]

Work == [pc: {"idle", "next", "send", "finish", "delivered", "failed"},
         batch: SUBSET Event,       \* claimed and not yet sent
         event: Event \cup {None},
         attempts: 0..MaxAttempts,  \* as the claim returned them
         tokens: SUBSET Phone,      \* phones still to send to
         ok: BOOLEAN,               \* some send succeeded
         failed: BOOLEAN,           \* some send failed
         stale: SUBSET Phone,
         left: Nat]                 \* ticks of the budget left

Idle == [pc |-> "idle", batch |-> {}, event |-> None, attempts |-> 0, tokens |-> {},
         ok |-> FALSE, failed |-> FALSE, stale |-> {}, left |-> 0]

TypeOK ==
    /\ outbox \in [Event -> OutboxRow \cup {None}]
    /\ devices \subseteq Device
    /\ older \subseteq Phone \X Phone
    /\ signin \in [Family -> {"unused", "live", "ended"}]
    /\ account \in [User -> {"active", "inactive", "erased"}]
    /\ work \in [Worker -> Work]
    /\ failures \in [Event -> 0..MaxAttempts]
    /\ reached \subseteq Event

ASSUME DeliveryAssumption ==
    /\ OwnerOf \in [Family -> User] /\ Recipient \in [Event -> User]
    /\ MaxAttempts \in Nat \ {0} /\ MaxDevices \in Nat \ {0}
    /\ Budget \in Nat \ {0} /\ Visibility \in Nat /\ Budget < Visibility
    /\ None \notin Event \cup Family /\ None \notin OutboxRow

(* Phones may have registered before registrations knew their sign-in.     *)
Init ==
    /\ outbox = [e \in Event |-> None]
    /\ devices \in SUBSET {[phone |-> p, user |-> OwnerOf[f], family |-> None] :
                             p \in Phone, f \in Family}
    /\ \A d, x \in devices : d.phone = x.phone => d = x
    /\ \A u \in User : Cardinality({d \in devices : d.user = u}) <= MaxDevices
    /\ older = {}
    /\ signin = [f \in Family |-> IF \E d \in devices : d.user = OwnerOf[f]
                                  THEN "live" ELSE "unused"]
    /\ account = [u \in User |-> "active"]
    /\ work = [w \in Worker |-> Idle]
    /\ failures = [e \in Event |-> 0]
    /\ reached = {}

Exists(e) == outbox[e] # None

Pending(e) == Exists(e) /\ outbox[e].state = "pending"

KeepPhones == UNCHANGED <<devices, older, signin, account>>

KeepDelivery == UNCHANGED <<outbox, work, failures, reached>>

-------------------------------------------------------------------------------
(* The domain side. A key already used is skipped (ON CONFLICT DO NOTHING). *)
EnqueueTx(e) ==
    /\ ~Exists(e)
    /\ outbox' = [outbox EXCEPT ![e] = [state |-> "pending", attempts |-> 0, due |-> 0]]
    /\ UNCHANGED <<work, failures, reached>>
    /\ KeepPhones

-------------------------------------------------------------------------------
(* Phones.                                                                  *)

(* The sign-ins of an erased account are gone, and are not found.           *)
FamilyOf(f) == IF account[OwnerOf[f]] = "erased" THEN None ELSE f

Row(p, f) == [phone |-> p, user |-> OwnerOf[f], family |-> FamilyOf(f)]

Others(p) == {d \in devices : d.phone # p}

SignIn(f) ==
    /\ signin[f] = "unused"
    /\ account[OwnerOf[f]] = "active"
    /\ signin' = [signin EXCEPT ![f] = "live"]
    /\ UNCHANGED <<devices, older, account>>
    /\ KeepDelivery

(* p is seen now.                                                           *)
Seen(p) == {pair \in older : pair[1] # p} \cup ((Phone \ {p}) \X {p})

(* Of the rows of user u, the MaxDevices last seen (pruneDeviceTokens).     *)
Pruned(rows, u) ==
    LET newer(d) == {x \in rows : x.user = u /\ <<d.phone, x.phone>> \in older'}
    IN  {d \in rows : d.user = u => Cardinality(newer(d)) < MaxDevices}

(* The token's row moves to the user and the sign-in it is sent under. The  *)
(* sign-in may have ended since the request was authenticated.              *)
RegisterDevice(p, f) ==
    /\ signin[f] # "unused"
    /\ older' = Seen(p)
    /\ devices' = Pruned({Row(p, f)} \cup Others(p), OwnerOf[f])
    /\ UNCHANGED <<signin, account>>
    /\ KeepDelivery

UnregisterDevice(p, f) ==
    /\ signin[f] # "unused"
    /\ devices' = {d \in devices : ~(d.phone = p /\ d.user = OwnerOf[f])}
    /\ UNCHANGED <<older, signin, account>>
    /\ KeepDelivery

(* A sign-out, at the server: by the phone, from elsewhere, or by an        *)
(* administrator. The phone may be offline and keep its registration.       *)
EndSignIn(f) ==
    /\ signin[f] = "live"
    /\ signin' = [signin EXCEPT ![f] = "ended"]
    /\ UNCHANGED <<devices, older, account>>
    /\ KeepDelivery

SignedOut(u) == [f \in Family |-> IF OwnerOf[f] = u THEN "ended" ELSE signin[f]]

(* A suspension or a deactivation, and the way back.                        *)
Suspend(u) ==
    /\ account[u] = "active"
    /\ account' = [account EXCEPT ![u] = "inactive"]
    /\ signin' = SignedOut(u)
    /\ UNCHANGED <<devices, older>>
    /\ KeepDelivery

Reinstate(u) ==
    /\ account[u] = "inactive"
    /\ account' = [account EXCEPT ![u] = "active"]
    /\ UNCHANGED <<devices, older, signin>>
    /\ KeepDelivery

(* eraseAccount: sign-ins, tokens and notifications of the account.         *)
eraseAccount(u) ==
    /\ account[u] # "erased"
    /\ account' = [account EXCEPT ![u] = "erased"]
    /\ signin' = SignedOut(u)
    /\ devices' = {d \in devices : d.user # u}
    /\ outbox' = [e \in Event |->
          IF Recipient[e] = u
          THEN [state |-> "erased", attempts |-> 0, due |-> 0]
          ELSE outbox[e]]
    /\ UNCHANGED <<older, work, failures, reached>>

-------------------------------------------------------------------------------
(* Dispatcher.RunOnce.                                                      *)

Due == {e \in Event : Pending(e) /\ outbox[e].due = 0}

(* Mutant: the budget is the whole claim.                                   *)
ClaimWholeLease(w) ==
    /\ work[w].pc = "idle"
    /\ Due # {}
    /\ outbox' = [e \in Event |-> IF e \in Due THEN [outbox[e] EXCEPT !.due = Visibility]
                                  ELSE outbox[e]]
    /\ work' = [work EXCEPT ![w] = [Idle EXCEPT !.pc = "next", !.batch = Due, !.left = Visibility]]
    /\ UNCHANGED <<failures, reached>>
    /\ KeepPhones

(* Mutant: the claim removes the events from the queue for good.            *)
ClaimForGood(w) ==
    /\ work[w].pc = "idle"
    /\ Due # {}
    /\ outbox' = [e \in Event |-> IF e \in Due THEN [outbox[e] EXCEPT !.state = "delivered"]
                                  ELSE outbox[e]]
    /\ work' = [work EXCEPT ![w] = [Idle EXCEPT !.pc = "next", !.batch = Due, !.left = Budget]]
    /\ UNCHANGED <<failures, reached>>
    /\ KeepPhones

ClaimOutboxBatch(w) ==
    /\ work[w].pc = "idle"
    /\ Due # {}
    /\ outbox' = [e \in Event |-> IF e \in Due THEN [outbox[e] EXCEPT !.due = Visibility]
                                  ELSE outbox[e]]
    /\ work' = [work EXCEPT ![w] = [Idle EXCEPT !.pc = "next", !.batch = Due, !.left = Budget]]
    /\ UNCHANGED <<failures, reached>>
    /\ KeepPhones

(* What the batch has left when the budget is spent stays claimed.          *)
EndBatch(w) ==
    /\ work[w].pc = "next"
    /\ work[w].batch = {} \/ work[w].left = 0
    /\ work' = [work EXCEPT ![w] = Idle]
    /\ UNCHANGED <<outbox, failures, reached>>
    /\ KeepPhones

(* A token's sign-in, if it has one, must still be live.                    *)
DeviceTokensFor(u) ==
    {d.phone : d \in {x \in devices : /\ x.user = u
                                      /\ account[u] = "active"
                                      /\ x.family = None \/ signin[x.family] = "live"}}

(* FCMProvider.Send, to the phones registered now; without one it succeeds. *)
Send(w, e) ==
    /\ work[w].pc = "next"
    /\ work[w].left > 0
    /\ e \in work[w].batch
    /\ work' = [work EXCEPT ![w] =
          [pc |-> IF DeviceTokensFor(Recipient[e]) = {} THEN "finish" ELSE "send",
           batch |-> work[w].batch \ {e}, event |-> e,
           attempts |-> IF Exists(e) THEN outbox[e].attempts ELSE 0,
           tokens |-> DeviceTokensFor(Recipient[e]),
           ok |-> FALSE, failed |-> FALSE, stale |-> {}, left |-> work[w].left]]
    /\ UNCHANGED <<outbox, failures, reached>>
    /\ KeepPhones

(* A call succeeds, or FCM reports the token gone, or refuses the message,  *)
(* or the call fails; out of budget it can only fail.                       *)
sendToToken(w, p) ==
    LET last == work[w].tokens = {p}
        Sent(answer) ==
            work' = [work EXCEPT ![w] = [answer EXCEPT !.tokens = work[w].tokens \ {p},
                                                       !.pc = IF last THEN "finish" ELSE "send"]]
    IN  /\ work[w].pc = "send"
        /\ p \in work[w].tokens
        /\ \/ work[w].left > 0 /\ Sent([work[w] EXCEPT !.ok = TRUE])
           \/ work[w].left > 0 /\ Sent([work[w] EXCEPT !.stale = work[w].stale \cup {p}])
           \/ work[w].left > 0 /\ Sent(work[w])
           \/ Sent([work[w] EXCEPT !.failed = TRUE])
        /\ UNCHANGED <<outbox, failures, reached>>
        /\ KeepPhones

(* One phone reached is enough, and so is none to reach.                    *)
Succeeded(w) == work[w].ok \/ ~work[w].failed

DeleteDeviceTokens(stale) == devices' = {d \in devices : d.phone \notin stale}

(* Tokens that are gone are deleted, and what Send returns.                 *)
FinishSend(w) ==
    LET e == work[w].event
    IN  /\ work[w].pc = "finish"
        /\ DeleteDeviceTokens(work[w].stale)
        /\ IF Succeeded(w)
           THEN reached' = reached \cup {e} /\ UNCHANGED failures
           ELSE /\ failures' = [failures EXCEPT ![e] = IF @ < MaxAttempts THEN @ + 1 ELSE @]
                /\ UNCHANGED reached
        /\ work' = [work EXCEPT ![w].pc = IF Succeeded(w) THEN "delivered" ELSE "failed"]
        /\ UNCHANGED <<outbox, older, signin, account>>

(* The statements that record the outcome change the row whatever its       *)
(* state; they may fail, and an erased row is not there.                    *)
Record(w, row) ==
    LET e == work[w].event
    IN  /\ outbox' = IF outbox[e].state = "erased" THEN outbox ELSE [outbox EXCEPT ![e] = row]
        /\ work' = [work EXCEPT ![w].pc = "next", ![w].event = None]
        /\ UNCHANGED <<failures, reached>>
        /\ KeepPhones

(* A processed row stays as it was first settled.                           *)
Settled(e, state) == IF Pending(e) THEN state ELSE outbox[e].state

MarkOutboxDelivered(w) ==
    LET row == outbox[work[w].event]
    IN  /\ work[w].pc = "delivered"
        /\ Record(w, [row EXCEPT !.state = Settled(work[w].event, "delivered")])

Bump(n) == IF n < MaxAttempts THEN n + 1 ELSE n

(* Exponential, from seconds to more than a claim lasts.                    *)
backoff(attempts) == attempts

(* Mutant: no attempt is the last.                                          *)
retryForever(w) ==
    LET row == outbox[work[w].event]
    IN  /\ work[w].pc = "failed"
        /\ Record(w, [row EXCEPT !.due = backoff(1)])

retry(w) ==
    LET row == outbox[work[w].event]
        attempts == work[w].attempts + 1
    IN  /\ work[w].pc = "failed"
        /\ Record(w, IF attempts >= MaxAttempts
                     THEN [row EXCEPT !.attempts = Bump(@),
                                      !.state = Settled(work[w].event, "abandoned")]
                     ELSE [row EXCEPT !.attempts = Bump(@), !.due = backoff(attempts)])

NotRecorded(w) ==
    /\ work[w].pc \in {"delivered", "failed"}
    /\ work' = [work EXCEPT ![w].pc = "next", ![w].event = None]
    /\ UNCHANGED <<outbox, failures, reached>>
    /\ KeepPhones

(* The process stops; the events it claimed fall due again.                 *)
Stop(w) ==
    /\ work[w].pc # "idle"
    /\ work' = [work EXCEPT ![w] = Idle]
    /\ UNCHANGED <<outbox, failures, reached>>
    /\ KeepPhones

-------------------------------------------------------------------------------
Less(n) == IF n > 0 THEN n - 1 ELSE 0

(* A tick is the margin between the budget and the claim: what follows the  *)
(* last send of a budget takes less.                                        *)
Tick ==
    /\ \A w \in Worker :
           work[w].pc # "idle" => work[w].left > 0 /\ work[w].pc \in {"next", "send"}
    /\ outbox' = [e \in Event |-> IF Exists(e) THEN [outbox[e] EXCEPT !.due = Less(@)]
                                  ELSE None]
    /\ work' = [w \in Worker |-> [work[w] EXCEPT !.left = Less(@)]]
    /\ UNCHANGED <<failures, reached>>
    /\ KeepPhones

Dispatch(w) ==
    \/ ClaimOutboxBatch(w)
    \/ EndBatch(w)
    \/ \E e \in Event : Send(w, e)
    \/ \E p \in Phone : sendToToken(w, p)
    \/ FinishSend(w)
    \/ MarkOutboxDelivered(w)
    \/ retry(w)

Registry ==
    \/ \E p \in Phone, f \in Family : RegisterDevice(p, f) \/ UnregisterDevice(p, f)
    \/ \E f \in Family : SignIn(f) \/ EndSignIn(f)
    \/ \E u \in User : Suspend(u) \/ Reinstate(u)

Next ==
    \/ \E e \in Event : EnqueueTx(e)
    \/ Registry
    \/ \E u \in User : eraseAccount(u)
    \/ \E w \in Worker : Dispatch(w) \/ NotRecorded(w) \/ Stop(w)
    \/ Tick

Spec == Init /\ [][Next]_vars

(* The dispatcher polls every 5 seconds (main.go starts it with the         *)
(* server), and a batch claimed again and again is not each time too late   *)
(* to be sent; from some time on the process stays up and its statements    *)
(* succeed.                                                                 *)
FairSpec ==
    /\ Spec
    /\ \A w \in Worker :
           WF_vars(Dispatch(w)) /\ SF_vars(\E e \in Event : Send(w, e))
    /\ WF_vars(Tick)
    /\ <>[][\A w \in Worker : NotRecorded(w) \/ Stop(w) => Dispatch(w)]_vars

-------------------------------------------------------------------------------
(* Properties.                                                              *)

(* provider.go: delivery is at least once. Nothing is marked processed      *)
(* before a send succeeded or the attempts are used up, whatever claims     *)
(* lapse and marks arrive late (dispatcher.go, ClaimOutboxBatch).           *)
Promise == INSTANCE AtLeastOnce WITH
    Event <- Event,
    MaxAttempts <- MaxAttempts,
    state <- [e \in Event |->
                 CASE ~Exists(e) -> "absent"
                   [] Pending(e) -> "pending"
                   [] Exists(e) /\ outbox[e].state = "erased" -> "withdrawn"
                   [] OTHER -> "done"],
    failures <- failures,
    reached <- reached

ImplementsPromise == Promise!Spec

(* Every event is settled in the end: delivered, abandoned or erased, no    *)
(* claim is kept forever and no retry is the last (RunOnce, retry).         *)
EveryEventSettles == \A e \in Event : Exists(e) ~> (Exists(e) /\ ~Pending(e))

(* dispatcher.go, sendBudget: two dispatchers never send the same event at  *)
(* the same time.                                                           *)
OneSender ==
    \A v, w \in Worker :
        /\ work[v].pc \in {"send", "finish", "delivered", "failed"}
        /\ work[w].pc \in {"send", "finish", "delivered", "failed"}
        /\ work[v].event = work[w].event
        => v = w
===============================================================================
