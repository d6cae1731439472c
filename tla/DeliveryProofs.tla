----------------------------- MODULE DeliveryProofs ----------------------------
(***************************************************************************)
(* Theorems about Delivery, for any number of events, dispatchers, phones  *)
(* and sign-ins: no event has two senders, and the outbox keeps the        *)
(* promise of AtLeastOnce.                                                 *)
(***************************************************************************)
EXTENDS Delivery, TLAPS

----------------------------------------------------------------------------
(* The inductive invariant.                                                *)

Sending == {"send", "finish", "delivered", "failed"}

(* The events a dispatcher has claimed and not yet settled or given back.  *)
Claimed(w, e) ==
    /\ work[w].pc # "idle"
    /\ e \in work[w].batch \/ (work[w].pc \in Sending /\ e = work[w].event)

(* A claim outlives the budget of whoever sends under it.                  *)
Outlives(w) == \A e \in Event : Claimed(w, e) =>
                   Exists(e) /\ (Pending(e) => outbox[e].due > work[w].left)

Knows(w) ==
    LET c == work[w] IN
    /\ c.pc \in Sending =>
          /\ c.event \in Event /\ c.event \notin c.batch
          /\ outbox[c.event].state # "erased" => outbox[c.event].attempts = c.attempts
          /\ c.attempts <= failures[c.event]
    /\ c.pc = "delivered" => c.event \in reached
    /\ c.pc = "failed" => failures[c.event] = MaxAttempts \/ failures[c.event] > c.attempts

Exclusive == \A v, w \in Worker, e \in Event : Claimed(v, e) /\ Claimed(w, e) => v = w

Counted == \A e \in Event : Exists(e) => outbox[e].attempts <= failures[e]

DeliveryInv ==
    /\ TypeOK
    /\ \A w \in Worker : Outlives(w) /\ Knows(w)
    /\ Exclusive
    /\ Counted

----------------------------------------------------------------------------
(* Steps of the phones.                                                    *)

LEMMA PhoneStep ==
  ASSUME DeliveryInv, KeepDelivery,
         devices' \subseteq Device, older' \subseteq Phone \X Phone,
         signin' \in [Family -> {"unused", "live", "ended"}],
         account' \in [User -> {"active", "inactive", "erased"}]
  PROVE  DeliveryInv'
  <1>1. UNCHANGED <<outbox, work, failures, reached>>
    BY DEF KeepDelivery
  <1>2. TypeOK'
    BY <1>1 DEF DeliveryInv, TypeOK
  <1> QED BY <1>1, <1>2 DEF DeliveryInv, Outlives, Knows, Claimed, Exclusive, Counted, Exists,
             Pending

LEMMA RegisterStep ==
  ASSUME DeliveryInv, NEW p \in Phone, NEW f \in Family, RegisterDevice(p, f)
  PROVE  DeliveryInv'
  <1>1. /\ devices' \subseteq {Row(p, f)} \cup Others(p) /\ older' = Seen(p)
        /\ UNCHANGED <<signin, account>> /\ KeepDelivery
    BY DEF RegisterDevice, Pruned
  <1>2. Row(p, f) \in Device
    BY DeliveryAssumption DEF Row, Device, FamilyOf
  <1>3. devices' \subseteq Device
    BY <1>1, <1>2 DEF Others, DeliveryInv, TypeOK
  <1>4. older' \subseteq Phone \X Phone
    BY <1>1 DEF Seen, DeliveryInv, TypeOK
  <1> QED BY <1>1, <1>3, <1>4, PhoneStep DEF DeliveryInv, TypeOK

LEMMA UnregisterStep ==
  ASSUME DeliveryInv, NEW p \in Phone, NEW f \in Family, UnregisterDevice(p, f)
  PROVE  DeliveryInv'
  <1>1. devices' \subseteq devices /\ UNCHANGED <<older, signin, account>> /\ KeepDelivery
    BY DEF UnregisterDevice
  <1> QED BY <1>1, PhoneStep DEF DeliveryInv, TypeOK

LEMMA SignInStep ==
  ASSUME DeliveryInv, NEW f \in Family, SignIn(f) \/ EndSignIn(f)
  PROVE  DeliveryInv'
  <1>1. UNCHANGED <<devices, older, account>> /\ KeepDelivery
    BY DEF SignIn, EndSignIn
  <1>2. signin' \in [Family -> {"unused", "live", "ended"}]
    BY DEF SignIn, EndSignIn, DeliveryInv, TypeOK
  <1> QED BY <1>1, <1>2, PhoneStep DEF DeliveryInv, TypeOK

LEMMA AccountStep ==
  ASSUME DeliveryInv, NEW u \in User, Suspend(u) \/ Reinstate(u)
  PROVE  DeliveryInv'
  <1>1. UNCHANGED <<devices, older>> /\ KeepDelivery
    BY DEF Suspend, Reinstate
  <1>2. signin' \in [Family -> {"unused", "live", "ended"}]
    BY DEF Suspend, Reinstate, SignedOut, DeliveryInv, TypeOK
  <1>3. account' \in [User -> {"active", "inactive", "erased"}]
    BY DEF Suspend, Reinstate, DeliveryInv, TypeOK
  <1> QED BY <1>1, <1>2, <1>3, PhoneStep DEF DeliveryInv, TypeOK

----------------------------------------------------------------------------
(* Steps of the domain.                                                    *)

LEMMA RowFields ==
  ASSUME DeliveryInv, NEW e \in Event, Exists(e)
  PROVE  /\ outbox[e] \in OutboxRow
         /\ outbox[e].attempts \in Nat /\ outbox[e].attempts <= MaxAttempts
         /\ outbox[e].due \in Nat
  BY DeliveryAssumption DEF DeliveryInv, TypeOK, Exists, OutboxRow

LEMMA EnqueueStep ==
  ASSUME DeliveryInv, NEW e \in Event, EnqueueTx(e)
  PROVE  DeliveryInv'
  <1> DEFINE row == [state |-> "pending", attempts |-> 0, due |-> 0]
  <1>1. /\ ~Exists(e) /\ outbox' = [outbox EXCEPT ![e] = row]
        /\ UNCHANGED <<devices, older, signin, account, work, failures, reached>>
    BY DEF EnqueueTx, KeepPhones
  <1>2. row \in OutboxRow /\ row.attempts = 0
    BY DeliveryAssumption DEF OutboxRow
  <1> HIDE DEF row
  <1>3. TypeOK'
    BY <1>1, <1>2 DEF DeliveryInv, TypeOK
  <1>4. outbox'[e] = row /\ \A x \in Event : x # e => outbox'[x] = outbox[x]
    BY <1>1 DEF DeliveryInv, TypeOK
  <1>5. \A w \in Worker : ~Claimed(w, e)
    BY <1>1 DEF DeliveryInv, Outlives
  <1>6. ASSUME NEW w \in Worker PROVE Outlives(w)' /\ Knows(w)'
    <2>1. Outlives(w) /\ Knows(w) /\ work[w] \in Work
      BY DEF DeliveryInv, TypeOK
    <2>2. Outlives(w)'
      BY <1>1, <1>4, <1>5, <2>1 DEF Outlives, Claimed, Exists, Pending
    <2>3. work[w].pc \in Sending => work[w].event # e
      BY <1>5 DEF Claimed, Sending
    <2> QED BY <1>1, <1>4, <2>1, <2>2, <2>3 DEF Knows
  <1>7. Exclusive'
    BY <1>1 DEF DeliveryInv, Exclusive, Claimed
  <1>8. Counted'
    <2>1. failures[e] \in Nat
      BY DeliveryAssumption DEF DeliveryInv, TypeOK
    <2> QED BY <1>1, <1>2, <1>4, <2>1 DEF DeliveryInv, Counted, Exists
  <1> QED BY <1>3, <1>6, <1>7, <1>8 DEF DeliveryInv

LEMMA EraseStep ==
  ASSUME DeliveryInv, NEW u \in User, eraseAccount(u)
  PROVE  DeliveryInv'
  <1> DEFINE row == [state |-> "erased", attempts |-> 0, due |-> 0]
  <1>1. /\ outbox' = [e \in Event |-> IF Recipient[e] = u THEN row ELSE outbox[e]]
        /\ devices' \subseteq devices
        /\ signin' \in [Family -> {"unused", "live", "ended"}]
        /\ account' \in [User -> {"active", "inactive", "erased"}]
        /\ UNCHANGED <<older, work, failures, reached>>
    BY DEF eraseAccount, SignedOut, DeliveryInv, TypeOK
  <1>2. row \in OutboxRow /\ row.attempts = 0 /\ row.state = "erased" /\ row # None
    BY DeliveryAssumption DEF OutboxRow
  <1> HIDE DEF row
  <1>3. TypeOK'
    BY <1>1, <1>2 DEF DeliveryInv, TypeOK
  <1>4. \A x \in Event : outbox'[x] = row \/ outbox'[x] = outbox[x]
    BY <1>1
  <1>5. ASSUME NEW w \in Worker PROVE Outlives(w)' /\ Knows(w)'
    <2>1. Outlives(w) /\ Knows(w) /\ work[w] \in Work
      BY DEF DeliveryInv, TypeOK
    <2>2. Outlives(w)'
      BY <1>1, <1>2, <1>4, <2>1 DEF Outlives, Claimed, Exists, Pending
    <2> QED BY <1>1, <1>2, <1>4, <2>1, <2>2 DEF Knows
  <1>6. Exclusive'
    BY <1>1 DEF DeliveryInv, Exclusive, Claimed
  <1>7. Counted'
    <2>1. \A e \in Event : failures[e] \in Nat
      BY DeliveryAssumption DEF DeliveryInv, TypeOK
    <2> QED BY <1>1, <1>2, <1>4, <2>1 DEF DeliveryInv, Counted, Exists
  <1> QED BY <1>3, <1>5, <1>6, <1>7 DEF DeliveryInv

----------------------------------------------------------------------------
(* Steps of a dispatcher.                                                  *)

LEMMA WorkFields ==
  ASSUME NEW c \in Work
  PROVE  /\ c.pc \in {"idle", "next", "send", "finish", "delivered", "failed"}
         /\ c.batch \subseteq Event /\ c.event \in Event \cup {None}
         /\ c.attempts \in 0..MaxAttempts /\ c.tokens \subseteq Phone
         /\ c.ok \in BOOLEAN /\ c.failed \in BOOLEAN
         /\ c.stale \subseteq Phone /\ c.left \in Nat
  BY DEF Work

(* A step that leaves the outbox alone and gives a dispatcher no new claim. *)
LEMMA QuietStep ==
  ASSUME DeliveryInv, NEW w \in Worker, NEW state \in Work,
         work' = [work EXCEPT ![w] = state],
         UNCHANGED <<outbox, older, signin, account>>,
         devices' \subseteq devices,
         failures' \in [Event -> 0..MaxAttempts],
         \A e \in Event : failures[e] <= failures'[e],
         reached \subseteq reached', reached' \subseteq Event,
         \A e \in Event :
            state.pc # "idle"
               /\ (e \in state.batch \/ (state.pc \in Sending /\ e = state.event))
            => Claimed(w, e) /\ state.left <= work[w].left,
         Knows(w)'
  PROVE  DeliveryInv'
  <1>1. TypeOK'
    BY DEF DeliveryInv, TypeOK
  <1>2. work'[w] = state /\ \A v \in Worker : v # w => work'[v] = work[v]
    BY DEF DeliveryInv, TypeOK
  <1>3. \A v \in Worker, e \in Event : Claimed(v, e)' =>
            Claimed(v, e) /\ work'[v].left <= work[v].left
    <2> SUFFICES ASSUME NEW v \in Worker, NEW e \in Event, Claimed(v, e)'
                 PROVE  Claimed(v, e) /\ work'[v].left <= work[v].left
      OBVIOUS
    <2>1. CASE v = w
      BY <1>2, <2>1 DEF Claimed
    <2>2. CASE v # w
      BY <1>2, <2>2, WorkFields DEF Claimed, DeliveryInv, TypeOK
    <2> QED BY <2>1, <2>2
  <1>4. ASSUME NEW v \in Worker PROVE Outlives(v)'
    <2> SUFFICES ASSUME NEW e \in Event, Claimed(v, e)'
                 PROVE  Exists(e) /\ (Pending(e) => outbox[e].due > work'[v].left)
      BY DEF Outlives, Exists, Pending
    <2>1. Exists(e) /\ (Pending(e) => outbox[e].due > work[v].left)
      BY <1>3 DEF DeliveryInv, Outlives
    <2>2. work[v].left \in Nat /\ work'[v].left \in Nat
      BY <1>1, WorkFields DEF DeliveryInv, TypeOK
    <2> QED BY <1>3, <2>1, <2>2, RowFields
  <1>5. ASSUME NEW v \in Worker PROVE Knows(v)'
    <2>1. CASE v = w
      BY <2>1
    <2>2. CASE v # w
      <3>1. work'[v] = work[v] /\ Knows(v) /\ work[v].attempts \in 0..MaxAttempts
        BY <1>2, <2>2, WorkFields DEF DeliveryInv, TypeOK
      <3>2. \A e \in Event : failures[e] \in 0..MaxAttempts /\ failures'[e] \in 0..MaxAttempts
        BY DEF DeliveryInv, TypeOK
      <3> QED BY <3>1, <3>2, DeliveryAssumption DEF Knows, Sending
    <2> QED BY <2>1, <2>2
  <1>6. Exclusive'
    BY <1>3 DEF DeliveryInv, Exclusive
  <1>7. Counted'
    <2> SUFFICES ASSUME NEW e \in Event, Exists(e)
                 PROVE  outbox[e].attempts <= failures'[e]
      BY DEF Counted, Exists
    <2>1. outbox[e].attempts <= failures[e] /\ outbox[e].attempts \in Nat
      BY RowFields DEF DeliveryInv, Counted
    <2>2. failures[e] \in Nat /\ failures'[e] \in Nat
      BY DeliveryAssumption DEF DeliveryInv, TypeOK
    <2> QED BY <2>1, <2>2
  <1> QED BY <1>1, <1>4, <1>5, <1>6, <1>7 DEF DeliveryInv

(* The same of a step that changes nothing but what one dispatcher does.   *)
LEMMA WorkStep ==
  ASSUME DeliveryInv, NEW w \in Worker, NEW state \in Work,
         work' = [work EXCEPT ![w] = state],
         UNCHANGED <<outbox, devices, older, signin, account, failures, reached>>,
         \A e \in Event :
            state.pc # "idle"
               /\ (e \in state.batch \/ (state.pc \in Sending /\ e = state.event))
            => Claimed(w, e) /\ state.left <= work[w].left,
         Knows(w)'
  PROVE  DeliveryInv'
  <1>1. /\ devices' \subseteq devices /\ failures' \in [Event -> 0..MaxAttempts]
        /\ reached \subseteq reached' /\ reached' \subseteq Event
    BY DEF DeliveryInv, TypeOK
  <1>2. \A e \in Event : failures[e] <= failures'[e]
    BY DeliveryAssumption DEF DeliveryInv, TypeOK
  <1> QED BY <1>1, <1>2, QuietStep

LEMMA IdleStep ==
  ASSUME DeliveryInv, NEW w \in Worker, EndBatch(w) \/ Stop(w)
  PROVE  DeliveryInv'
  <1>1. /\ work' = [work EXCEPT ![w] = Idle]
        /\ UNCHANGED <<outbox, devices, older, signin, account, failures, reached>>
    BY DEF EndBatch, Stop, KeepPhones
  <1>2. Idle \in Work /\ Idle.pc = "idle"
    BY DeliveryAssumption DEF Idle, Work
  <1>3. Knows(w)'
    BY <1>1, <1>2 DEF Knows, Sending, DeliveryInv, TypeOK
  <1> QED BY <1>1, <1>2, <1>3, WorkStep

LEMMA NotRecordedStep ==
  ASSUME DeliveryInv, NEW w \in Worker, NotRecorded(w)
  PROVE  DeliveryInv'
  <1> DEFINE state == [work[w] EXCEPT !.pc = "next", !.event = None]
  <1>1. /\ work' = [work EXCEPT ![w] = state]
        /\ UNCHANGED <<outbox, devices, older, signin, account, failures, reached>>
        /\ work[w].pc # "idle"
    BY DEF NotRecorded, KeepPhones, DeliveryInv, TypeOK
  <1>2. state \in Work /\ state.pc = "next" /\ state.batch = work[w].batch
        /\ state.left = work[w].left /\ work[w].left \in Nat
    BY DEF Work, DeliveryInv, TypeOK
  <1> HIDE DEF state
  <1>3. Knows(w)'
    BY <1>1, <1>2 DEF Knows, Sending, DeliveryInv, TypeOK
  <1>4. \A e \in Event : ~(state.pc \in Sending) /\ state.left <= work[w].left
                         /\ (e \in state.batch => Claimed(w, e))
    BY <1>1, <1>2 DEF Claimed, Sending
  <1> QED BY <1>1, <1>2, <1>3, <1>4, WorkStep

LEMMA SendStep ==
  ASSUME DeliveryInv, NEW w \in Worker, NEW e \in Event, Send(w, e)
  PROVE  DeliveryInv'
  <1> DEFINE tokens == DeviceTokensFor(Recipient[e])
             pc == IF tokens = {} THEN "finish" ELSE "send"
             attempts == IF Exists(e) THEN outbox[e].attempts ELSE 0
             state == [pc |-> pc, batch |-> work[w].batch \ {e}, event |-> e,
                       attempts |-> attempts, tokens |-> tokens, ok |-> FALSE,
                       failed |-> FALSE, stale |-> {}, left |-> work[w].left]
  <1>1. /\ work[w].pc = "next" /\ e \in work[w].batch
        /\ UNCHANGED <<outbox, devices, older, signin, account, failures, reached>>
    BY DEF Send, KeepPhones
  <1>2. work' = [work EXCEPT ![w] = state]
    BY DEF Send
  <1>3. tokens \subseteq Phone
    BY DEF DeviceTokensFor, DeliveryInv, TypeOK, Device
  <1>4. Claimed(w, e) /\ Exists(e)
    BY <1>1 DEF Claimed, DeliveryInv, Outlives
  <1>5. attempts \in 0..MaxAttempts /\ attempts = outbox[e].attempts
        /\ attempts <= failures[e]
    BY <1>4, RowFields, DeliveryAssumption DEF DeliveryInv, Counted
  <1>6. pc \in {"finish", "send"}
    OBVIOUS
  <1> HIDE DEF tokens, pc, attempts
  <1>7. /\ state \in Work /\ state.pc = pc /\ state.batch = work[w].batch \ {e}
        /\ state.event = e /\ state.attempts = attempts
        /\ state.left = work[w].left /\ work[w].left \in Nat
    <2>1. work[w] \in Work
      BY DEF DeliveryInv, TypeOK
    <2>2. work[w].batch \ {e} \subseteq Event /\ work[w].left \in Nat
      BY <2>1, WorkFields
    <2>3. state \in Work
      BY <1>3, <1>5, <1>6, <2>2 DEF Work
    <2> QED BY <2>2, <2>3
  <1> HIDE DEF state
  <1>8. work'[w] = state
    BY <1>2 DEF DeliveryInv, TypeOK
  <1>9. Knows(w)'
    BY <1>1, <1>5, <1>6, <1>7, <1>8 DEF Knows, Sending
  <1>10. ASSUME NEW x \in Event, x \in state.batch \/ x = state.event
         PROVE  Claimed(w, x) /\ state.left <= work[w].left
    BY <1>1, <1>4, <1>7, <1>10 DEF Claimed
  <1> QED BY <1>1, <1>2, <1>7, <1>9, <1>10, WorkStep


LEMMA CallStep ==
  ASSUME DeliveryInv, NEW w \in Worker, NEW p \in Phone, sendToToken(w, p)
  PROVE  DeliveryInv'
  <1> DEFINE Same(c) == /\ c.batch = work[w].batch /\ c.event = work[w].event
                        /\ c.attempts = work[w].attempts /\ c.left = work[w].left
             pc == IF work[w].tokens = {p} THEN "finish" ELSE "send"
             After(answer) == [answer EXCEPT !.tokens = work[w].tokens \ {p}, !.pc = pc]
  <1>1. /\ work[w].pc = "send"
        /\ UNCHANGED <<outbox, devices, older, signin, account, failures, reached>>
        /\ work[w] \in Work
    BY DEF sendToToken, KeepPhones, DeliveryInv, TypeOK
  <1>2. PICK answer \in Work : Same(answer) /\ work' = [work EXCEPT ![w] = After(answer)]
    <2>1. [work[w] EXCEPT !.ok = TRUE] \in Work /\ Same([work[w] EXCEPT !.ok = TRUE])
      BY <1>1 DEF Work
    <2>2. /\ [work[w] EXCEPT !.stale = work[w].stale \cup {p}] \in Work
          /\ Same([work[w] EXCEPT !.stale = work[w].stale \cup {p}])
      BY <1>1 DEF Work
    <2>3. [work[w] EXCEPT !.failed = TRUE] \in Work /\ Same([work[w] EXCEPT !.failed = TRUE])
      BY <1>1 DEF Work
    <2>4. \/ work' = [work EXCEPT ![w] = After([work[w] EXCEPT !.ok = TRUE])]
          \/ work' = [work EXCEPT ![w] = After([work[w] EXCEPT !.stale = work[w].stale \cup {p}])]
          \/ work' = [work EXCEPT ![w] = After(work[w])]
          \/ work' = [work EXCEPT ![w] = After([work[w] EXCEPT !.failed = TRUE])]
      BY DEF sendToToken
    <2> HIDE DEF After
    <2> QED BY <1>1, <2>1, <2>2, <2>3, <2>4
  <1> DEFINE state == After(answer)
  <1>3. pc \in {"finish", "send"} /\ work[w].tokens \ {p} \subseteq Phone
    BY <1>1, WorkFields
  <1> HIDE DEF pc
  <1>4. state \in Work /\ state.pc = pc /\ Same(state)
    BY <1>2, <1>3 DEF Work
  <1> HIDE DEF state
  <1>5. work'[w] = state
    BY <1>2 DEF DeliveryInv, TypeOK, state
  <1>6. Knows(w)'
    <2>1. Knows(w)
      BY DEF DeliveryInv
    <2> QED BY <1>1, <1>3, <1>4, <1>5, <2>1 DEF Knows, Sending
  <1>7. ASSUME NEW e \in Event, e \in state.batch \/ e = state.event
        PROVE  Claimed(w, e) /\ state.left <= work[w].left
    BY <1>1, <1>4, <1>7, WorkFields DEF Claimed, Sending
  <1> QED BY <1>1, <1>2, <1>4, <1>6, <1>7, WorkStep DEF state

LEMMA FinishStep ==
  ASSUME DeliveryInv, NEW w \in Worker, FinishSend(w)
  PROVE  DeliveryInv'
  <1> DEFINE e == work[w].event
             state == [work[w] EXCEPT !.pc = IF Succeeded(w) THEN "delivered" ELSE "failed"]
             count == IF failures[e] < MaxAttempts THEN failures[e] + 1 ELSE failures[e]
  <1>1. /\ work[w].pc = "finish" /\ devices' \subseteq devices
        /\ UNCHANGED <<outbox, older, signin, account>>
        /\ IF Succeeded(w) THEN reached' = reached \cup {e} /\ failures' = failures
                           ELSE failures' = [failures EXCEPT ![e] = count] /\ reached' = reached
    BY DEF FinishSend, DeleteDeviceTokens
  <1>2. work' = [work EXCEPT ![w] = state]
    BY DEF FinishSend, DeliveryInv, TypeOK
  <1>3. /\ work[w] \in Work /\ Knows(w) /\ e \in Event
        /\ work[w].attempts <= failures[e] /\ failures[e] \in 0..MaxAttempts
    BY <1>1 DEF DeliveryInv, TypeOK, Knows, Sending
  <1>4. count \in 0..MaxAttempts /\ failures[e] <= count
        /\ (count = MaxAttempts \/ count > work[w].attempts)
    BY <1>3, WorkFields, DeliveryAssumption
  <1>5. /\ state \in Work /\ state.batch = work[w].batch /\ state.event = e
        /\ state.attempts = work[w].attempts /\ state.left = work[w].left
        /\ state.pc = IF Succeeded(w) THEN "delivered" ELSE "failed"
    BY <1>3 DEF Work
  <1> HIDE DEF state, count
  <1>6. work'[w] = state
    BY <1>2 DEF DeliveryInv, TypeOK
  <1>7. reached \subseteq reached' /\ reached' \subseteq Event
    BY <1>1, <1>3 DEF DeliveryInv, TypeOK
  <1>8. /\ failures' \in [Event -> 0..MaxAttempts]
        /\ \A x \in Event : failures[x] <= failures'[x]
        /\ ~Succeeded(w) => failures'[e] = count
    <2>1. \A x \in Event : failures[x] \in Nat
      BY DeliveryAssumption DEF DeliveryInv, TypeOK
    <2> QED BY <1>1, <1>3, <1>4, <2>1 DEF DeliveryInv, TypeOK
  <1>9. Knows(w)'
    <2>1. failures'[e] \in Nat /\ work[w].attempts \in Nat
      BY <1>3, <1>8, WorkFields, DeliveryAssumption
    <2>2. work[w].attempts <= failures'[e]
      BY <1>3, <1>8, <2>1, DeliveryAssumption
    <2> QED BY <1>1, <1>3, <1>4, <1>5, <1>6, <1>8, <2>2 DEF Knows, Sending
  <1>10. ASSUME NEW x \in Event, x \in state.batch \/ x = state.event
         PROVE  Claimed(w, x) /\ state.left <= work[w].left
    BY <1>1, <1>3, <1>5, <1>10, WorkFields DEF Claimed, Sending
  <1> QED BY <1>1, <1>2, <1>5, <1>7, <1>8, <1>9, <1>10, QuietStep

LEMMA ClaimStep ==
  ASSUME DeliveryInv, NEW w \in Worker, ClaimOutboxBatch(w)
  PROVE  DeliveryInv'
  <1> DEFINE state == [Idle EXCEPT !.pc = "next", !.batch = Due, !.left = Budget]
             Row2(e) == [outbox[e] EXCEPT !.due = Visibility]
  <1>1. /\ work[w].pc = "idle" /\ work' = [work EXCEPT ![w] = state]
        /\ outbox' = [e \in Event |-> IF e \in Due THEN Row2(e) ELSE outbox[e]]
        /\ UNCHANGED <<devices, older, signin, account, failures, reached>>
    BY DEF ClaimOutboxBatch, KeepPhones
  <1>2. /\ state \in Work /\ state.pc = "next" /\ state.batch = Due /\ state.left = Budget
    <2>1. Due \subseteq Event
      BY DEF Due
    <2> DEFINE next == [Idle EXCEPT !.pc = "next"]
               holding == [next EXCEPT !.batch = Due]
    <2>2. next \in Work /\ next.pc = "next"
      <3>1. Idle \in Work
        BY DeliveryAssumption DEF Idle, Work
      <3> QED BY <3>1 DEF Work
    <2>3. state = [holding EXCEPT !.left = Budget]
      OBVIOUS
    <2> HIDE DEF next, state
    <2>4. holding \in Work /\ holding.pc = "next" /\ holding.batch = Due
      BY <2>1, <2>2 DEF Work
    <2> HIDE DEF holding
    <2> QED BY <2>3, <2>4, DeliveryAssumption DEF Work
  <1> HIDE DEF state
  <1>3. \A e \in Due : /\ e \in Event /\ Exists(e) /\ Pending(e) /\ outbox[e].due = 0
                       /\ Row2(e) \in OutboxRow /\ Row2(e).due = Visibility
                       /\ Row2(e).state = outbox[e].state
                       /\ Row2(e).attempts = outbox[e].attempts
    <2> SUFFICES ASSUME NEW e \in Due
                 PROVE  /\ e \in Event /\ Exists(e) /\ Pending(e) /\ outbox[e].due = 0
                        /\ Row2(e) \in OutboxRow /\ Row2(e).due = Visibility
                        /\ Row2(e).state = outbox[e].state
                        /\ Row2(e).attempts = outbox[e].attempts
      OBVIOUS
    <2>1. e \in Event /\ Exists(e) /\ Pending(e) /\ outbox[e].due = 0
      BY DEF Due, Pending
    <2> QED BY <2>1, RowFields, DeliveryAssumption DEF OutboxRow
  <1> HIDE DEF Row2
  <1>4. \A e \in Event : outbox'[e] = IF e \in Due THEN Row2(e) ELSE outbox[e]
    BY <1>1
  <1>5. TypeOK'
    <2>1. outbox' \in [Event -> OutboxRow \cup {None}]
      BY <1>1, <1>3 DEF DeliveryInv, TypeOK
    <2>2. work' \in [Worker -> Work]
      BY <1>1, <1>2 DEF DeliveryInv, TypeOK
    <2> QED BY <1>1, <2>1, <2>2 DEF DeliveryInv, TypeOK
  <1>6. work'[w] = state /\ \A v \in Worker : v # w => work'[v] = work[v]
    BY <1>1 DEF DeliveryInv, TypeOK
  <1>7. \A v \in Worker, e \in Event : e \in Due => ~Claimed(v, e)
    <2> SUFFICES ASSUME NEW v \in Worker, NEW e \in Due, Claimed(v, e) PROVE FALSE
      BY DEF Due
    <2>1. outbox[e].due > work[v].left /\ outbox[e].due = 0
      BY <1>3 DEF DeliveryInv, Outlives
    <2>2. work[v].left \in Nat
      BY WorkFields DEF DeliveryInv, TypeOK
    <2> QED BY <2>1, <2>2
  <1>8. \A v \in Worker, e \in Event :
            Claimed(v, e)' => IF v = w THEN e \in Due ELSE Claimed(v, e) /\ e \notin Due
    BY <1>2, <1>6, <1>7 DEF Claimed, Sending
  <1>9. ASSUME NEW v \in Worker PROVE Outlives(v)'
    <2> SUFFICES ASSUME NEW e \in Event, Claimed(v, e)'
                 PROVE  Exists(e)' /\ (Pending(e)' => outbox'[e].due > work'[v].left)
      BY DEF Outlives
    <2>1. CASE v = w
      BY <1>2, <1>3, <1>4, <1>6, <1>8, <2>1, DeliveryAssumption DEF Exists
    <2>2. CASE v # w
      BY <1>4, <1>6, <1>8, <2>2 DEF DeliveryInv, Outlives, Exists, Pending
    <2> QED BY <2>1, <2>2
  <1>10. ASSUME NEW v \in Worker PROVE Knows(v)'
    <2>1. CASE v = w
      BY <1>2, <1>6, <2>1 DEF Knows, Sending
    <2>2. CASE v # w
      <3>1. Knows(v) /\ work'[v] = work[v]
        BY <1>6, <2>2 DEF DeliveryInv
      <3>2. \A e \in Event : /\ outbox'[e].state = outbox[e].state
                            /\ outbox'[e].attempts = outbox[e].attempts
        BY <1>3, <1>4
      <3> QED BY <1>1, <3>1, <3>2 DEF Knows
    <2> QED BY <2>1, <2>2
  <1>11. Exclusive'
    BY <1>8 DEF DeliveryInv, Exclusive
  <1>12. Counted'
    BY <1>1, <1>3, <1>4 DEF DeliveryInv, Counted, Exists
  <1> QED BY <1>5, <1>9, <1>10, <1>11, <1>12 DEF DeliveryInv


(* The outcome is written to the row the dispatcher holds, and to no other. *)
LEMMA RecordStep ==
  ASSUME DeliveryInv, NEW w \in Worker, work[w].pc \in {"delivered", "failed"}, NEW row,
         Record(w, row),
         outbox[work[w].event].state # "erased" =>
            row \in OutboxRow /\ row.attempts <= failures[work[w].event]
  PROVE  DeliveryInv'
  <1> DEFINE e == work[w].event
             state == [work[w] EXCEPT !.pc = "next", !.event = None]
  <1>1. /\ work' = [work EXCEPT ![w] = state]
        /\ outbox' = IF outbox[e].state = "erased" THEN outbox ELSE [outbox EXCEPT ![e] = row]
        /\ UNCHANGED <<devices, older, signin, account, failures, reached>>
    BY DEF Record, KeepPhones, DeliveryInv, TypeOK
  <1>2. work[w] \in Work /\ Knows(w) /\ e \in Event /\ e \notin work[w].batch
        /\ Claimed(w, e)
    BY DEF DeliveryInv, TypeOK, Knows, Sending, Claimed
  <1>3. state \in Work /\ state.pc = "next" /\ state.batch = work[w].batch
        /\ state.left = work[w].left
    BY <1>2 DEF Work
  <1> HIDE DEF state
  <1>4. work'[w] = state /\ \A v \in Worker : v # w => work'[v] = work[v]
    BY <1>1 DEF DeliveryInv, TypeOK
  <1>5. \A x \in Event : x # e => outbox'[x] = outbox[x]
    BY <1>1 DEF DeliveryInv, TypeOK
  <1>6. outbox'[e] = outbox[e] \/ (outbox'[e] = row /\ outbox[e].state # "erased")
    BY <1>1, <1>2 DEF DeliveryInv, TypeOK
  <1>7. TypeOK'
    <2>1. outbox' \in [Event -> OutboxRow \cup {None}]
      BY <1>1 DEF DeliveryInv, TypeOK
    <2>2. work' \in [Worker -> Work]
      BY <1>1, <1>3 DEF DeliveryInv, TypeOK
    <2> QED BY <1>1, <2>1, <2>2 DEF DeliveryInv, TypeOK
  <1>8. \A v \in Worker, x \in Event : Claimed(v, x)' =>
            Claimed(v, x) /\ x # e /\ work'[v].left = work[v].left
    <2> SUFFICES ASSUME NEW v \in Worker, NEW x \in Event, Claimed(v, x)'
                 PROVE  Claimed(v, x) /\ x # e /\ work'[v].left = work[v].left
      OBVIOUS
    <2>1. CASE v = w
      BY <1>2, <1>3, <1>4, <2>1 DEF Claimed, Sending
    <2>2. CASE v # w
      <3>1. work'[v] = work[v] /\ Claimed(v, x)
        BY <1>4, <2>2 DEF Claimed
      <3> QED BY <1>2, <2>2, <3>1 DEF DeliveryInv, Exclusive
    <2> QED BY <2>1, <2>2
  <1>9. ASSUME NEW v \in Worker PROVE Outlives(v)'
    BY <1>5, <1>8 DEF DeliveryInv, Outlives, Exists, Pending
  <1>10. ASSUME NEW v \in Worker PROVE Knows(v)'
    <2>1. CASE v = w
      BY <1>3, <1>4, <2>1 DEF Knows, Sending
    <2>2. CASE v # w
      <3>1. Knows(v) /\ work'[v] = work[v]
        BY <1>4, <2>2 DEF DeliveryInv
      <3>2. work[v].pc \in Sending => work[v].event \in Event /\ work[v].event # e
        <4>1. work[v].pc \in Sending => Claimed(v, work[v].event) /\ work[v].event \in Event
          BY <3>1 DEF Knows, Claimed, Sending
        <4> QED BY <1>2, <2>2, <4>1 DEF DeliveryInv, Exclusive
      <3> QED BY <1>1, <1>5, <3>1, <3>2 DEF Knows, Sending
    <2> QED BY <2>1, <2>2
  <1>11. Exclusive'
    BY <1>8 DEF DeliveryInv, Exclusive
  <1>12. Counted'
    <2> SUFFICES ASSUME NEW x \in Event, Exists(x)'
                 PROVE  outbox'[x].attempts <= failures[x]
      BY <1>1 DEF Counted
    <2>1. CASE x = e /\ outbox'[e] = row /\ outbox[e].state # "erased"
      BY <2>1
    <2>2. CASE outbox'[x] = outbox[x]
      BY <2>2 DEF DeliveryInv, Counted, Exists
    <2> QED BY <1>5, <1>6, <2>1, <2>2
  <1> QED BY <1>7, <1>9, <1>10, <1>11, <1>12 DEF DeliveryInv

(* The row a dispatcher is about to record on.                             *)
LEMMA HeldRow ==
  ASSUME DeliveryInv, NEW w \in Worker, work[w].pc \in {"delivered", "failed"}
  PROVE  /\ work[w].event \in Event /\ Exists(work[w].event)
         /\ outbox[work[w].event] \in OutboxRow
  <1>1. work[w].event \in Event /\ Claimed(w, work[w].event)
    BY DEF DeliveryInv, Knows, Claimed, Sending
  <1>2. Exists(work[w].event)
    BY <1>1 DEF DeliveryInv, Outlives
  <1> QED BY <1>1, <1>2, RowFields

LEMMA MarkStep ==
  ASSUME DeliveryInv, NEW w \in Worker, MarkOutboxDelivered(w)
  PROVE  DeliveryInv'
  <1> DEFINE e == work[w].event
             state == Settled(e, "delivered")
             row == [outbox[e] EXCEPT !.state = state]
  <1>1. work[w].pc = "delivered" /\ Record(w, row)
    BY DEF MarkOutboxDelivered
  <1>2. e \in Event /\ Exists(e) /\ outbox[e] \in OutboxRow
    BY <1>1, HeldRow
  <1>3. state \in {"pending", "delivered", "abandoned", "erased"}
    BY <1>2 DEF Settled, OutboxRow
  <1> HIDE DEF state
  <1>4. row \in OutboxRow /\ row.attempts = outbox[e].attempts
    BY <1>2, <1>3 DEF OutboxRow
  <1>5. outbox[e].attempts <= failures[e]
    BY <1>2 DEF DeliveryInv, Counted
  <1> QED BY <1>1, <1>4, <1>5, RecordStep

LEMMA RetryStep ==
  ASSUME DeliveryInv, NEW w \in Worker, retry(w)
  PROVE  DeliveryInv'
  <1> DEFINE e == work[w].event
             n == work[w].attempts + 1
             state == Settled(e, "abandoned")
             bumped == Bump(outbox[e].attempts)
             last == [outbox[e] EXCEPT !.attempts = bumped, !.state = state]
             again == [outbox[e] EXCEPT !.attempts = bumped, !.due = backoff(n)]
             row == IF n >= MaxAttempts THEN last ELSE again
  <1>1. work[w].pc = "failed" /\ Record(w, row)
    BY DEF retry
  <1>2. e \in Event /\ Exists(e) /\ outbox[e] \in OutboxRow
    BY <1>1, HeldRow
  <1>3. state \in {"pending", "delivered", "abandoned", "erased"}
    BY <1>2 DEF Settled, OutboxRow
  <1>4. work[w].attempts \in Nat /\ backoff(n) \in Nat
    BY WorkFields, DeliveryAssumption DEF DeliveryInv, TypeOK, backoff
  <1>5. bumped \in 0..MaxAttempts
    BY <1>2, DeliveryAssumption DEF Bump, OutboxRow
  <1>6. outbox[e].state # "erased" => bumped <= failures[e]
    <2>1. Knows(w) /\ failures[e] \in 0..MaxAttempts
      BY <1>2 DEF DeliveryInv, TypeOK
    <2>2. /\ outbox[e].state # "erased" => outbox[e].attempts = work[w].attempts
          /\ failures[e] = MaxAttempts \/ failures[e] > work[w].attempts
      BY <1>1, <2>1 DEF Knows, Sending
    <2> QED BY <1>2, <1>4, <1>5, <2>1, <2>2, DeliveryAssumption DEF Bump
  <1> HIDE DEF state, bumped
  <1>7. row \in OutboxRow /\ row.attempts = bumped
    <2>1. last \in OutboxRow /\ last.attempts = bumped
      BY <1>2, <1>3, <1>5 DEF OutboxRow
    <2>2. again \in OutboxRow /\ again.attempts = bumped
      BY <1>2, <1>4, <1>5 DEF OutboxRow
    <2> HIDE DEF last, again
    <2> QED BY <2>1, <2>2
  <1> HIDE DEF row
  <1> QED BY <1>1, <1>6, <1>7, RecordStep

LEMMA TickStep ==
  ASSUME DeliveryInv, Tick
  PROVE  DeliveryInv'
  <1> DEFINE Later(e) == [outbox[e] EXCEPT !.due = Less(outbox[e].due)]
             Aged(w) == [work[w] EXCEPT !.left = Less(work[w].left)]
  <1>1. /\ \A w \in Worker : work[w].pc # "idle" => work[w].left > 0
        /\ outbox' = [e \in Event |-> IF Exists(e) THEN Later(e) ELSE None]
        /\ work' = [w \in Worker |-> Aged(w)]
        /\ UNCHANGED <<devices, older, signin, account, failures, reached>>
    BY DEF Tick, KeepPhones
  <1>2. ASSUME NEW w \in Worker
        PROVE  /\ Aged(w) \in Work /\ Aged(w).left = Less(work[w].left)
               /\ Aged(w) = [work[w] EXCEPT !.left = Less(work[w].left)]
               /\ Aged(w).pc = work[w].pc /\ Aged(w).batch = work[w].batch
               /\ Aged(w).event = work[w].event /\ Aged(w).attempts = work[w].attempts
    <2>1. work[w] \in Work
      BY DEF DeliveryInv, TypeOK
    <2>2. Less(work[w].left) \in Nat
      BY <2>1, WorkFields DEF Less
    <2> QED BY <2>1, <2>2 DEF Work
  <1>3. ASSUME NEW e \in Event, Exists(e)
        PROVE  /\ Later(e) \in OutboxRow /\ Later(e).due = Less(outbox[e].due)
               /\ Later(e).state = outbox[e].state /\ Later(e).attempts = outbox[e].attempts
    <2>1. outbox[e] \in OutboxRow /\ Less(outbox[e].due) \in Nat
      BY <1>3, RowFields DEF Less
    <2> QED BY <2>1 DEF OutboxRow
  <1> HIDE DEF Later, Aged
  <1>4. \A w \in Worker : work'[w] = Aged(w)
    BY <1>1
  <1>5. \A e \in Event : outbox'[e] = IF Exists(e) THEN Later(e) ELSE None
    BY <1>1
  <1>6. TypeOK'
    <2>1. outbox' \in [Event -> OutboxRow \cup {None}]
      BY <1>1, <1>3
    <2>2. work' \in [Worker -> Work]
      BY <1>1, <1>2
    <2> QED BY <1>1, <2>1, <2>2 DEF DeliveryInv, TypeOK
  <1>7. \A w \in Worker, e \in Event : Claimed(w, e)' => Claimed(w, e)
    BY <1>2, <1>4 DEF Claimed
  <1>8. \A e \in Event : Exists(e)' <=> Exists(e)
    BY <1>3, <1>5, DeliveryAssumption DEF Exists
  <1>9. ASSUME NEW w \in Worker PROVE Outlives(w)'
    <2> SUFFICES ASSUME NEW e \in Event, Claimed(w, e)'
                 PROVE  Exists(e)' /\ (Pending(e)' => outbox'[e].due > work'[w].left)
      BY DEF Outlives
    <2>1. Claimed(w, e) /\ Exists(e) /\ work[w].left > 0
          /\ (Pending(e) => outbox[e].due > work[w].left)
      BY <1>1, <1>7 DEF DeliveryInv, Outlives, Claimed
    <2>2. work[w].left \in Nat /\ outbox[e].due \in Nat
      BY <2>1, RowFields, WorkFields DEF DeliveryInv, TypeOK
    <2>3. outbox'[e].due = Less(outbox[e].due) /\ outbox'[e].state = outbox[e].state
          /\ work'[w].left = Less(work[w].left)
      BY <1>2, <1>3, <1>4, <1>5, <2>1
    <2> QED BY <1>8, <2>1, <2>2, <2>3 DEF Pending, Less
  <1>10. ASSUME NEW w \in Worker PROVE Knows(w)'
    <2>1. Knows(w)
      BY DEF DeliveryInv
    <2>2. work[w].pc \in Sending => Exists(work[w].event) /\ work[w].event \in Event
      BY <2>1 DEF DeliveryInv, Outlives, Claimed, Knows, Sending
    <2>3. work[w].pc \in Sending =>
             /\ outbox'[work[w].event].state = outbox[work[w].event].state
             /\ outbox'[work[w].event].attempts = outbox[work[w].event].attempts
      BY <1>3, <1>5, <2>2
    <2> QED BY <1>1, <1>2, <1>4, <2>1, <2>3 DEF Knows
  <1>11. Exclusive'
    BY <1>7 DEF DeliveryInv, Exclusive
  <1>12. Counted'
    BY <1>1, <1>3, <1>5, <1>8 DEF DeliveryInv, Counted
  <1> QED BY <1>6, <1>9, <1>10, <1>11, <1>12 DEF DeliveryInv


----------------------------------------------------------------------------
(* The invariant holds of every state.                                     *)

LEMMA InitHolds == Init => DeliveryInv
  <1> SUFFICES ASSUME Init PROVE DeliveryInv
    OBVIOUS
  <1>1. Idle \in Work /\ Idle.pc = "idle"
    BY DeliveryAssumption DEF Idle, Work
  <1>2. TypeOK
    <2> DEFINE unbound == {[phone |-> p, user |-> OwnerOf[f], family |-> None] :
                              p \in Phone, f \in Family}
    <2>1. unbound \subseteq Device
      BY DeliveryAssumption DEF Device
    <2>2. devices \subseteq Device
      BY <2>1 DEF Init
    <2>3. signin \in [Family -> {"unused", "live", "ended"}]
      <3> DEFINE Known(f) == \E d \in devices : d.user = OwnerOf[f]
      <3>1. signin = [f \in Family |-> IF Known(f) THEN "live" ELSE "unused"]
        BY DEF Init
      <3> HIDE DEF Known
      <3> QED BY <3>1
    <2>4. /\ outbox \in [Event -> OutboxRow \cup {None}] /\ older \subseteq Phone \X Phone
          /\ account \in [User -> {"active", "inactive", "erased"}]
          /\ work \in [Worker -> Work]
          /\ failures \in [Event -> 0..MaxAttempts] /\ reached \subseteq Event
      BY <1>1, DeliveryAssumption DEF Init
    <2> QED BY <2>2, <2>3, <2>4 DEF TypeOK
  <1>3. \A w \in Worker : work[w].pc = "idle"
    BY <1>1 DEF Init
  <1> QED BY <1>2, <1>3 DEF DeliveryInv, Outlives, Knows, Claimed, Sending, Exclusive, Counted,
             Exists, Init

LEMMA StutterStep ==
  ASSUME DeliveryInv, UNCHANGED vars
  PROVE  DeliveryInv'
  BY DEF vars, DeliveryInv, TypeOK, Outlives, Knows, Claimed, Exclusive, Counted, Exists,
         Pending

LEMMA StepHolds == DeliveryInv /\ [Next]_vars => DeliveryInv'
  <1> SUFFICES ASSUME DeliveryInv, [Next]_vars PROVE DeliveryInv'
    OBVIOUS
  <1>1. CASE \E e \in Event : EnqueueTx(e)
    BY <1>1, EnqueueStep
  <1>2. CASE Registry
    BY <1>2, UnregisterStep, RegisterStep, SignInStep, AccountStep DEF Registry
  <1>3. CASE \E u \in User : eraseAccount(u)
    BY <1>3, EraseStep
  <1>4. CASE \E w \in Worker : Dispatch(w)
    BY <1>4, ClaimStep, IdleStep, SendStep, CallStep, FinishStep, MarkStep, RetryStep
       DEF Dispatch
  <1>5. CASE \E w \in Worker : NotRecorded(w) \/ Stop(w)
    BY <1>5, NotRecordedStep, IdleStep
  <1>6. CASE Tick
    BY <1>6, TickStep
  <1>7. CASE UNCHANGED vars
    BY <1>7, StutterStep
  <1> QED BY <1>1, <1>2, <1>3, <1>4, <1>5, <1>6, <1>7 DEF Next

(* The invariant holds of every state of a run, whatever claims lapse,     *)
(* calls fail and dispatchers stop.                                        *)
THEOREM DeliveryIsKept == Spec => []DeliveryInv
  BY InitHolds, StepHolds, PTL DEF Spec

(* The outbox, the registry and the dispatchers' state keep their types.   *)
THEOREM TypeCorrect == Spec => []TypeOK
  <1>1. DeliveryInv => TypeOK
    BY DEF DeliveryInv
  <1> QED BY <1>1, DeliveryIsKept, PTL

(* Two dispatchers never send the same event at the same time: the claim   *)
(* outlives the budget a dispatcher sends within (dispatcher.go,           *)
(* sendBudget).                                                            *)
THEOREM SentByOne == Spec => []OneSender
  <1>1. DeliveryInv => OneSender
    <2> SUFFICES ASSUME DeliveryInv, NEW v \in Worker, NEW w \in Worker,
                        work[v].pc \in Sending, work[w].pc \in Sending,
                        work[v].event = work[w].event
                 PROVE  v = w
      BY DEF OneSender, Sending
    <2>1. work[v].event \in Event
      BY DEF DeliveryInv, Knows
    <2>2. Claimed(v, work[v].event) /\ Claimed(w, work[v].event)
      BY DEF Claimed, Sending
    <2> QED BY <2>1, <2>2 DEF DeliveryInv, Exclusive
  <1> QED BY <1>1, DeliveryIsKept, PTL

----------------------------------------------------------------------------
(* The outbox implements AtLeastOnce.                                      *)

(* What AtLeastOnce sees of an event.                                      *)
Stage == [e \in Event |->
             CASE ~Exists(e) -> "absent"
               [] Pending(e) -> "pending"
               [] Exists(e) /\ outbox[e].state = "erased" -> "withdrawn"
               [] OTHER -> "done"]

LEMMA StageOf ==
  ASSUME NEW e \in Event
  PROVE  /\ ~Exists(e) => Stage[e] = "absent"
         /\ Exists(e) /\ outbox[e].state = "pending" => Stage[e] = "pending"
         /\ Exists(e) /\ outbox[e].state = "erased" => Stage[e] = "withdrawn"
         /\ Exists(e) /\ outbox[e].state \notin {"pending", "erased"} => Stage[e] = "done"
  BY DEF Stage, Pending

LEMMA StageOfNext ==
  ASSUME NEW e \in Event
  PROVE  /\ ~Exists(e)' => Stage'[e] = "absent"
         /\ Exists(e)' /\ outbox'[e].state = "pending" => Stage'[e] = "pending"
         /\ Exists(e)' /\ outbox'[e].state = "erased" => Stage'[e] = "withdrawn"
         /\ Exists(e)' /\ outbox'[e].state \notin {"pending", "erased"} => Stage'[e] = "done"
  BY DEF Stage, Pending

LEMMA SameStage ==
  ASSUME \A e \in Event : /\ Exists(e)' <=> Exists(e)
                          /\ Exists(e) => outbox'[e].state = outbox[e].state
  PROVE  Stage' = Stage
  <1>1. ASSUME NEW e \in Event PROVE Stage'[e] = Stage[e]
    BY StageOf, StageOfNext
  <1> QED BY <1>1 DEF Stage

LEMMA Stutters ==
  ASSUME UNCHANGED <<Stage, failures, reached>>
  PROVE  UNCHANGED Promise!vars
  BY DEF Promise!vars, Stage

LEMMA Quiet ==
  ASSUME UNCHANGED <<outbox, failures, reached>>
  PROVE  UNCHANGED Promise!vars
  <1>1. Stage' = Stage
    BY SameStage DEF Exists
  <1> QED BY <1>1, Stutters

LEMMA AcceptStep ==
  ASSUME DeliveryInv, NEW e \in Event, EnqueueTx(e)
  PROVE  Promise!Accept(e)
  <1> DEFINE row == [state |-> "pending", attempts |-> 0, due |-> 0]
  <1>1. /\ ~Exists(e) /\ outbox' = [outbox EXCEPT ![e] = row]
        /\ UNCHANGED <<failures, reached>>
    BY DEF EnqueueTx
  <1>2. row # None /\ row.state = "pending"
    <2>1. row \in OutboxRow
      BY DeliveryAssumption DEF OutboxRow
    <2> QED BY <2>1, DeliveryAssumption
  <1> HIDE DEF row
  <1>3. outbox'[e] = row /\ \A x \in Event : x # e => outbox'[x] = outbox[x]
    BY <1>1 DEF DeliveryInv, TypeOK
  <1>4. \A x \in Event : Stage'[x] = IF x = e THEN "pending" ELSE Stage[x]
    BY <1>2, <1>3, StageOf, StageOfNext DEF Exists
  <1>5. Stage' = [Stage EXCEPT ![e] = "pending"]
    BY <1>4 DEF Stage
  <1>6. Stage[e] = "absent"
    BY <1>1, StageOf
  <1> QED BY <1>1, <1>5, <1>6 DEF Promise!Accept, Stage

LEMMA WithdrawStep ==
  ASSUME DeliveryInv, NEW u \in User, eraseAccount(u)
  PROVE  Promise!Withdraw({e \in Event : Recipient[e] = u})
  <1> DEFINE row == [state |-> "erased", attempts |-> 0, due |-> 0]
             E == {e \in Event : Recipient[e] = u}
  <1>1. /\ outbox' = [e \in Event |-> IF Recipient[e] = u THEN row ELSE outbox[e]]
        /\ UNCHANGED <<failures, reached>>
    BY DEF eraseAccount
  <1>2. row # None /\ row.state = "erased"
    <2>1. row \in OutboxRow
      BY DeliveryAssumption DEF OutboxRow
    <2> QED BY <2>1, DeliveryAssumption
  <1> HIDE DEF row
  <1>3. \A x \in Event : outbox'[x] = IF x \in E THEN row ELSE outbox[x]
    BY <1>1
  <1> HIDE DEF E
  <1>4. \A x \in Event : Stage'[x] = IF x \in E THEN "withdrawn" ELSE Stage[x]
    BY <1>2, <1>3, StageOf, StageOfNext DEF Exists
  <1>5. Stage' = [x \in Event |-> IF x \in E THEN "withdrawn" ELSE Stage[x]]
    BY <1>4 DEF Stage
  <1> QED BY <1>1, <1>5 DEF Promise!Withdraw, Stage, E

LEMMA OutcomeStep ==
  ASSUME DeliveryInv, NEW w \in Worker, FinishSend(w)
  PROVE  \/ Promise!Succeed(work[w].event)
         \/ Promise!Fail(work[w].event)
         \/ UNCHANGED Promise!vars
  <1> DEFINE e == work[w].event
  <1>1. /\ work[w].pc = "finish" /\ UNCHANGED outbox
        /\ IF Succeeded(w)
           THEN reached' = reached \cup {e} /\ failures' = failures
           ELSE /\ failures' = [failures EXCEPT ![e] =
                                    IF failures[e] < MaxAttempts THEN failures[e] + 1
                                    ELSE failures[e]]
                /\ reached' = reached
    BY DEF FinishSend
  <1>2. e \in Event /\ Exists(e)
    BY <1>1 DEF DeliveryInv, Outlives, Knows, Claimed, Sending
  <1>3. Stage' = Stage
    BY <1>1, SameStage DEF Exists
  <1>4. Stage[e] # "absent"
    BY <1>2, StageOf
  <1>5. CASE Succeeded(w)
    BY <1>1, <1>3, <1>4, <1>5 DEF Promise!Succeed, Stage
  <1>6. CASE ~Succeeded(w) /\ failures[e] < MaxAttempts
    BY <1>1, <1>3, <1>4, <1>6 DEF Promise!Fail, Stage
  <1>7. CASE ~Succeeded(w) /\ ~(failures[e] < MaxAttempts)
    <2>1. failures' = failures
      BY <1>1, <1>2, <1>7 DEF DeliveryInv, TypeOK
    <2> QED BY <1>1, <1>3, <1>7, <2>1, Stutters
  <1> QED BY <1>5, <1>6, <1>7


LEMMA ClaimStutters ==
  ASSUME DeliveryInv, NEW w \in Worker, ClaimOutboxBatch(w)
  PROVE  UNCHANGED Promise!vars
  <1>1. /\ outbox' = [e \in Event |-> IF e \in Due THEN [outbox[e] EXCEPT !.due = Visibility]
                                      ELSE outbox[e]]
        /\ UNCHANGED <<failures, reached>>
    BY DEF ClaimOutboxBatch
  <1>2. ASSUME NEW e \in Event
        PROVE  (Exists(e)' <=> Exists(e)) /\ (Exists(e) => outbox'[e].state = outbox[e].state)
    <2>1. CASE e \in Due
      <3>1. Exists(e) /\ outbox[e] \in OutboxRow
        BY <2>1, RowFields DEF Due, Pending
      <3>2. /\ [outbox[e] EXCEPT !.due = Visibility] \in OutboxRow
            /\ [outbox[e] EXCEPT !.due = Visibility].state = outbox[e].state
        BY <3>1, DeliveryAssumption DEF OutboxRow
      <3> QED BY <1>1, <2>1, <3>1, <3>2, DeliveryAssumption DEF Exists
    <2>2. CASE e \notin Due
      BY <1>1, <2>2 DEF Exists
    <2> QED BY <2>1, <2>2
  <1> QED BY <1>1, <1>2, SameStage, Stutters

LEMMA TickStutters ==
  ASSUME DeliveryInv, Tick
  PROVE  UNCHANGED Promise!vars
  <1> DEFINE Later(e) == [outbox[e] EXCEPT !.due = Less(outbox[e].due)]
  <1>1. /\ outbox' = [e \in Event |-> IF Exists(e) THEN Later(e) ELSE None]
        /\ UNCHANGED <<failures, reached>>
    BY DEF Tick
  <1>2. ASSUME NEW e \in Event, Exists(e)
        PROVE  Later(e) \in OutboxRow /\ Later(e).state = outbox[e].state
    <2>1. outbox[e] \in OutboxRow /\ Less(outbox[e].due) \in Nat
      BY <1>2, RowFields DEF Less
    <2> QED BY <2>1 DEF OutboxRow
  <1> HIDE DEF Later
  <1>3. \A e \in Event : /\ Exists(e)' <=> Exists(e)
                         /\ Exists(e) => outbox'[e].state = outbox[e].state
    BY <1>1, <1>2, DeliveryAssumption DEF Exists
  <1> QED BY <1>1, <1>3, SameStage, Stutters

(* Recording an outcome settles the event if the row takes a settled state. *)
LEMMA RecordStages ==
  ASSUME DeliveryInv, NEW w \in Worker, work[w].pc \in {"delivered", "failed"},
         NEW row \in OutboxRow, Record(w, row),
         \/ row.state = outbox[work[w].event].state
         \/ /\ outbox[work[w].event].state = "pending"
            /\ row.state \in {"delivered", "abandoned"}
            /\ work[w].event \in reached \/ failures[work[w].event] = MaxAttempts
  PROVE  (\E e \in Event : Promise!Settle(e)) \/ UNCHANGED Promise!vars
  <1> PICK e \in Event : e = work[w].event
    BY HeldRow
  <1>1. /\ outbox' = IF outbox[e].state = "erased" THEN outbox ELSE [outbox EXCEPT ![e] = row]
        /\ UNCHANGED <<failures, reached>>
    BY DEF Record
  <1>2. e \in Event /\ Exists(e) /\ outbox[e] \in OutboxRow
    BY HeldRow
  <1>3. row # None
    BY DeliveryAssumption
  <1>4. \A x \in Event : x # e => outbox'[x] = outbox[x]
    BY <1>1 DEF DeliveryInv, TypeOK
  <1>5. outbox'[e] = IF outbox[e].state = "erased" THEN outbox[e] ELSE row
    BY <1>1, <1>2 DEF DeliveryInv, TypeOK
  <1>6. CASE row.state = outbox[e].state
    <2>1. \A x \in Event : /\ Exists(x)' <=> Exists(x)
                           /\ Exists(x) => outbox'[x].state = outbox[x].state
      BY <1>2, <1>3, <1>4, <1>5, <1>6 DEF Exists
    <2> QED BY <1>1, <2>1, SameStage, Stutters
  <1>7. CASE /\ outbox[e].state = "pending" /\ row.state \in {"delivered", "abandoned"}
             /\ e \in reached \/ failures[e] = MaxAttempts
    <2>1. Stage[e] = "pending" /\ Stage'[e] = "done"
      BY <1>2, <1>3, <1>5, <1>7, StageOf, StageOfNext DEF Exists
    <2>2. \A x \in Event : x # e => Stage'[x] = Stage[x]
      <3>1. ASSUME NEW x \in Event, x # e PROVE Stage'[x] = Stage[x]
        BY <1>4, <3>1, StageOf, StageOfNext DEF Exists
      <3> QED BY <3>1
    <2>3. Stage' = [Stage EXCEPT ![e] = "done"]
      BY <2>1, <2>2 DEF Stage
    <2> QED BY <1>1, <1>7, <2>1, <2>3 DEF Promise!Settle, Stage
  <1> QED BY <1>6, <1>7

LEMMA MarkSettles ==
  ASSUME DeliveryInv, NEW w \in Worker, MarkOutboxDelivered(w)
  PROVE  (\E e \in Event : Promise!Settle(e)) \/ UNCHANGED Promise!vars
  <1> DEFINE e == work[w].event
             state == Settled(e, "delivered")
             row == [outbox[e] EXCEPT !.state = state]
  <1>1. work[w].pc = "delivered" /\ Record(w, row)
    BY DEF MarkOutboxDelivered
  <1>2. e \in Event /\ Exists(e) /\ outbox[e] \in OutboxRow /\ e \in reached
    BY <1>1, HeldRow DEF DeliveryInv, Knows
  <1>3. state = IF outbox[e].state = "pending" THEN "delivered" ELSE outbox[e].state
    BY <1>2 DEF Settled, Pending
  <1> HIDE DEF state
  <1>4. row \in OutboxRow /\ row.state = state
    BY <1>2, <1>3 DEF OutboxRow
  <1> HIDE DEF row
  <1> QED BY <1>1, <1>2, <1>3, <1>4, RecordStages

LEMMA RetrySettles ==
  ASSUME DeliveryInv, NEW w \in Worker, retry(w)
  PROVE  (\E e \in Event : Promise!Settle(e)) \/ UNCHANGED Promise!vars
  <1> DEFINE e == work[w].event
             n == work[w].attempts + 1
             state == Settled(e, "abandoned")
             bumped == Bump(outbox[e].attempts)
             last == [outbox[e] EXCEPT !.attempts = bumped, !.state = state]
             again == [outbox[e] EXCEPT !.attempts = bumped, !.due = backoff(n)]
             row == IF n >= MaxAttempts THEN last ELSE again
  <1>1. work[w].pc = "failed" /\ Record(w, row)
    BY DEF retry
  <1>2. e \in Event /\ Exists(e) /\ outbox[e] \in OutboxRow
    BY <1>1, HeldRow
  <1>3. state = IF outbox[e].state = "pending" THEN "abandoned" ELSE outbox[e].state
    BY <1>2 DEF Settled, Pending
  <1>4. work[w].attempts \in Nat /\ backoff(n) \in Nat
    BY WorkFields, DeliveryAssumption DEF DeliveryInv, TypeOK, backoff
  <1>5. bumped \in 0..MaxAttempts
    BY <1>2, DeliveryAssumption DEF Bump, OutboxRow
  <1>6. n >= MaxAttempts => failures[e] = MaxAttempts
    <2>1. failures[e] = MaxAttempts \/ failures[e] > work[w].attempts
      BY <1>1 DEF DeliveryInv, Knows
    <2>2. failures[e] \in 0..MaxAttempts
      BY <1>2 DEF DeliveryInv, TypeOK
    <2> QED BY <1>4, <2>1, <2>2, DeliveryAssumption
  <1> HIDE DEF state, bumped
  <1>7. last \in OutboxRow /\ last.state = state
    BY <1>2, <1>3, <1>5 DEF OutboxRow
  <1>8. again \in OutboxRow /\ again.state = outbox[e].state
    BY <1>2, <1>4, <1>5 DEF OutboxRow
  <1> HIDE DEF last, again
  <1>9. CASE n >= MaxAttempts
    <2>1. row = last
      BY <1>9
    <2> HIDE DEF row
    <2> QED BY <1>1, <1>2, <1>3, <1>6, <1>7, <1>9, <2>1, RecordStages
  <1>10. CASE ~(n >= MaxAttempts)
    <2>1. row = again
      BY <1>10
    <2> HIDE DEF row
    <2> QED BY <1>1, <1>8, <2>1, RecordStages
  <1> QED BY <1>9, <1>10

LEMMA StepImplements == DeliveryInv /\ [Next]_vars => [Promise!Next]_(Promise!vars)
  <1> SUFFICES ASSUME DeliveryInv, [Next]_vars
               PROVE  Promise!Next \/ UNCHANGED Promise!vars
    OBVIOUS
  <1>1. CASE \E e \in Event : EnqueueTx(e)
    BY <1>1, AcceptStep DEF Promise!Next
  <1>2. CASE Registry
    BY <1>2, Quiet DEF Registry, RegisterDevice, UnregisterDevice, SignIn, EndSignIn, Suspend,
       Reinstate, KeepDelivery
  <1>3. CASE \E u \in User : eraseAccount(u)
    <2>1. \A u \in User : {e \in Event : Recipient[e] = u} \in SUBSET Event
      OBVIOUS
    <2> QED BY <1>3, <2>1, WithdrawStep DEF Promise!Next
  <1>4. CASE \E w \in Worker : Dispatch(w)
    <2> PICK w \in Worker : Dispatch(w)
      BY <1>4
    <2>1. CASE ClaimOutboxBatch(w)
      BY <2>1, ClaimStutters
    <2>2. CASE EndBatch(w) \/ \E e \in Event : Send(w, e)
      BY <2>2, Quiet DEF EndBatch, Send
    <2>3. CASE \E p \in Phone : sendToToken(w, p)
      <3>1. UNCHANGED <<outbox, failures, reached>>
        BY <2>3 DEF sendToToken
      <3> QED BY <3>1, Quiet
    <2>4. CASE FinishSend(w)
      <3>1. work[w].event \in Event
        BY <2>4 DEF FinishSend, DeliveryInv, Knows, Sending
      <3> QED BY <2>4, <3>1, OutcomeStep DEF Promise!Next
    <2>5. CASE MarkOutboxDelivered(w) \/ retry(w)
      <3>1. (\E e \in Event : Promise!Settle(e)) \/ UNCHANGED Promise!vars
        BY <2>5, MarkSettles, RetrySettles
      <3> QED BY <3>1 DEF Promise!Next
    <2> QED BY <2>1, <2>2, <2>3, <2>4, <2>5 DEF Dispatch
  <1>5. CASE \E w \in Worker : NotRecorded(w) \/ Stop(w)
    BY <1>5, Quiet DEF NotRecorded, Stop
  <1>6. CASE Tick
    BY <1>6, TickStutters
  <1>7. CASE UNCHANGED vars
    BY <1>7, Quiet DEF vars
  <1> QED BY <1>1, <1>2, <1>3, <1>4, <1>5, <1>6, <1>7 DEF Next

(* The outbox keeps the promise of AtLeastOnce: nothing is settled before  *)
(* a send succeeded or MaxAttempts sends failed, whatever claims lapse,    *)
(* marks arrive late or dispatchers stop (dispatcher.go, outbox.go).       *)
THEOREM PromiseKept == Spec => ImplementsPromise
  <1>1. Init => Promise!Init
    <2> SUFFICES ASSUME Init PROVE Promise!Init
      OBVIOUS
    <2>1. \A e \in Event : ~Exists(e)
      BY DEF Init, Exists
    <2>2. Stage = [e \in Event |-> "absent"]
      <3>1. \A e \in Event : Stage[e] = "absent"
        BY <2>1, StageOf
      <3> QED BY <3>1 DEF Stage
    <2> QED BY <2>2 DEF Init, Promise!Init, Stage
  <1> QED BY <1>1, StepImplements, DeliveryIsKept, PTL DEF Spec, ImplementsPromise, Promise!Spec

================================================================================
