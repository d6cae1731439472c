----------------------------- MODULE SessionsProofs ----------------------------
(***************************************************************************)
(* Theorems about Sessions, for any number of sessions, erasure requests   *)
(* and connections: rotation never forks a family, no family outlives its  *)
(* lifetime, and an erasure is carried out once, from a request still      *)
(* scheduled and due, and lasts.                                           *)
(***************************************************************************)
EXTENDS Sessions, TLAPS

----------------------------------------------------------------------------
(* The inductive invariant. Knows(t) is what a handler whose state is t    *)
(* may rely on, most of it under the locks it holds.                       *)

Fresh(t) == t.swept = {} /\ t.status = None /\ t.outcome # "cancelled"

Knows(t) ==
    /\ <<"key">> \in t.x => <<"user">> \in t.x
    /\ \A s \in t.swept : Stored(s) /\ <<"session", s>> \in t.x
    /\ t.status # None => <<"user">> \in t.x /\ (t.status # "erased" => status # "erased")
    /\ t.status = "erased" <=> t.outcome = "completed"
    /\ t.outcome # None => t.rid \in Req
    /\ t.outcome = "scheduled" => requests[t.rid] = None
    /\ t.outcome = "cancelled" => Scheduled(t.rid) /\ <<"request", t.rid>> \in t.x
    /\ t.outcome = "completed" => t.op = "erase" /\ t.pc = "commit"
    /\ t.op = "erase" =>
          /\ t.pc \in {"recheck", "sweep", "sweepRow", "eraseUser", "commit"}
          /\ t.rid \in Req /\ requests[t.rid] # None /\ requests[t.rid].due <= now
          /\ t.pc # "recheck" => Scheduled(t.rid) /\ <<"request", t.rid>> \in t.x
    /\ t.pc \in {"recheck", "eraseUser"} => t.op = "erase"
    /\ t.pc \in {"reactivate", "lockSession", "insert", "recheck", "lockAccount"} => Fresh(t)
    /\ t.pc \in {"reactivate", "cancel", "cancelRow", "lockSession", "insert", "recheck"} =>
          t.outcome = None
    /\ t.pc = "cancelRow" => t.rid \in Req
    /\ t.pc \in {"lockSession", "rotate"} => t.sid \in Sid
    /\ t.pc = "rotate" =>
          Unrevoked(t.sid) /\ ~sessions[t.sid].replaced /\ <<"session", t.sid>> \in t.x

(* A row is locked by one connection.                                      *)
Exclusive == \A i, j \in Tx : i # j => tx[i].x \cap tx[j].x = {}

OneScheduling ==
    \A i, j \in Tx : tx[i].outcome = "scheduled" /\ tx[j].outcome = "scheduled" => i = j

(* The row a family began with keeps its id taken, and its date.           *)
Founded ==
    \A s, f \in Sid : Stored(s) /\ f = sessions[s].family =>
        /\ sessions[f] # None
        /\ sessions[s].expires <= sessions[s].started + MaxLifetime
        /\ Stored(f) => sessions[f].started = sessions[s].started

SessionsInv ==
    /\ TypeOK
    /\ \A i \in Tx : Knows(tx[i])
    /\ Exclusive
    /\ OneScheduling
    /\ Founded
    /\ OneHead
    /\ Tombstone

(* What holds besides, when no account is suspended, reinstated or         *)
(* deactivated by hand.                                                    *)
Calm == Ops \cap {"suspend", "reinstate", "deactivate"} = {}

NoneScheduled == \A q \in Req : ~Scheduled(q)

Expects(t) ==
    /\ t.pc # "setStatus" /\ t.status \notin {"absent", "suspended"}
    /\ t.pc = "lockAccount" => t.outcome = "scheduled"
    /\ t.status = "deactivated" => t.outcome = "scheduled"
    /\ t.outcome = "scheduled" => NoneScheduled
    /\ t.outcome = "scheduled" /\ t.pc # "lockAccount" => t.status = "deactivated" \/ status = "erased"
    /\ t.pc \in {"insert", "lockAccount"} => status # "absent"
    /\ t.status = "active" => t.pc \in {"cancel", "cancelRow", "commit"}
    /\ t.outcome = "cancelled" => t.status = "active"
    /\ t.status = "active" /\ t.pc \in {"cancelRow", "commit"} =>
          \A q \in Req : Scheduled(q) =>
              q = t.rid /\ (t.pc = "commit" => t.outcome = "cancelled")
    /\ t.pc \in {"reactivate", "cancel", "insert"} => t.op # "cancelRequest"
    /\ t.pc \in {"cancel", "cancelRow"} /\ t.op # "cancelRequest" => t.status = "active"
    /\ t.op = "cancelRequest" =>
          t.rid \in Req /\ requests[t.rid] # None /\ ~Scheduled(t.rid)

CalmInv ==
    /\ \A i \in Tx : Expects(tx[i])
    /\ status # "suspended"
    /\ status = "deactivated" => ~NoneScheduled
    /\ \A q \in Req : Scheduled(q) => status \in {"deactivated", "erased"}
    /\ \A q, r \in Req : Scheduled(q) /\ Scheduled(r) => q = r

----------------------------------------------------------------------------
(* The state of a handler.                                                 *)

LEMMA TxFields ==
  ASSUME NEW t \in TxState
  PROVE  /\ t.pc \in PC /\ t.op \in Op \cup {None} /\ t.sid \in Sid \cup {None}
         /\ t.active \in BOOLEAN /\ t.rid \in Req \cup {None}
         /\ t.outcome \in Outcome \cup {None} /\ t.status \in Status \cup {None}
         /\ t.todo \subseteq Sid /\ t.swept \subseteq Sid /\ t.fams \subseteq Sid
         /\ t.x \subseteq Row
  BY DEF TxState

LEMMA IdleFields ==
  /\ Idle \in TxState
  /\ Idle.pc = "idle" /\ Idle.op = None /\ Idle.sid = None /\ Idle.active = FALSE
  /\ Idle.rid = None /\ Idle.outcome = None /\ Idle.status = None
  /\ Idle.todo = {} /\ Idle.swept = {} /\ Idle.fams = {} /\ Idle.x = {}
  BY DEF Idle, TxState, PC

LEMMA IssuingFields ==
  /\ Issuing \in TxState /\ Issuing.pc = "issue" /\ Issuing.op = "login"
  /\ Issuing.outcome = None /\ Issuing.status = None /\ Issuing.swept = {} /\ Issuing.x = {}
  BY IdleFields DEF Issuing, TxState, PC, Op

(* A handler that has written nothing and decided nothing.                 *)
Plain(t) ==
    /\ t.swept = {} /\ t.status = None /\ t.outcome = None /\ t.op # "erase"
    /\ <<"key">> \notin t.x
    /\ t.pc \notin {"recheck", "eraseUser", "rotate"}
    /\ t.pc = "lockSession" => t.sid \in Sid
    /\ t.pc = "cancelRow" => t.rid \in Req

LEMMA PlainKnows ==
  ASSUME NEW t, Plain(t)
  PROVE  Knows(t)
  BY SessionsAssumption DEF Plain, Knows, Fresh, Status, Outcome

LEMMA Rows ==
  ASSUME SessionsInv, NEW s \in Sid, Stored(s)
  PROVE  /\ sessions[s] \in Session /\ sessions[s].family \in Sid
         /\ sessions[s].replaced \in BOOLEAN /\ sessions[s].revoked \in BOOLEAN
         /\ sessions[s].started \in Nat /\ sessions[s].expires \in Nat
  BY DEF SessionsInv, TypeOK, Stored, Session

LEMMA StoredNow ==
  ASSUME NEW s \in Sid, sessions'[s] \in Session
  PROVE  Stored(s)' /\ sessions'[s] # None
  BY SessionsAssumption DEF Stored

----------------------------------------------------------------------------
(* A step that changes nothing but what one handler is about.              *)

LEMMA StatusStep ==
  ASSUME SessionsInv, NEW i \in Tx, NEW state \in TxState, Knows(state),
         tx' = [tx EXCEPT ![i] = state],
         UNCHANGED <<sessions, requests, now, ended>>,
         \/ status' = status
         \/ status # "erased" /\ status' \in Status \ {"erased"},
         \A j \in Tx \ {i} : state.x \cap tx[j].x = {},
         state.outcome = "scheduled" => \A j \in Tx \ {i} : tx[j].outcome # "scheduled"
  PROVE  SessionsInv'
  <1>1. TypeOK'
    BY DEF SessionsInv, TypeOK
  <1>2. tx'[i] = state /\ \A j \in Tx : j # i => tx'[j] = tx[j]
    BY DEF SessionsInv, TypeOK
  <1>3. ASSUME NEW j \in Tx PROVE Knows(tx[j])'
    <2> PICK t \in TxState : t = tx'[j]
      BY <1>1 DEF TypeOK
    <2>1. Knows(t)
      BY <1>2 DEF SessionsInv
    <2>2. Knows(t)'
      BY <2>1 DEF Knows, Fresh, Stored, Unrevoked, Scheduled
    <2> QED BY <2>2 DEF Knows, Fresh
  <1>4. Exclusive'
    BY <1>2 DEF SessionsInv, Exclusive
  <1>5. OneScheduling'
    BY <1>2 DEF SessionsInv, OneScheduling
  <1>6. Founded' /\ OneHead' /\ Tombstone'
    BY DEF SessionsInv, Founded, OneHead, Tombstone, Stored, Unrevoked
  <1> QED BY <1>1, <1>3, <1>4, <1>5, <1>6 DEF SessionsInv

LEMMA HandlerStep ==
  ASSUME SessionsInv, NEW i \in Tx, NEW state \in TxState, Becomes(i, state), Knows(state),
         \A j \in Tx \ {i} : state.x \cap tx[j].x = {},
         state.outcome = "scheduled" => \A j \in Tx \ {i} : tx[j].outcome # "scheduled"
  PROVE  SessionsInv'
  BY StatusStep DEF Becomes

(* The locks stay exclusive if the handler asked for the row it takes.     *)
LEMMA Locks ==
  ASSUME SessionsInv, NEW i \in Tx, NEW row, CanLock(i, row),
         NEW x, x \subseteq tx[i].x \cup {row}
  PROVE  \A j \in Tx \ {i} : x \cap tx[j].x = {}
  BY DEF SessionsInv, Exclusive, CanLock

LEMMA PlainStep ==
  ASSUME SessionsInv, NEW i \in Tx, NEW state \in TxState, Becomes(i, state), Plain(state),
         state.x = {}
  PROVE  SessionsInv'
  <1>1. Knows(state) /\ state.outcome # "scheduled"
    BY PlainKnows, SessionsAssumption DEF Plain, Outcome
  <1> QED BY <1>1, HandlerStep

LEMMA RollbackStep ==
  ASSUME SessionsInv, NEW i \in Tx, Rollback(i)
  PROVE  SessionsInv'
  <1>1. Plain(Idle)
    BY IdleFields, SessionsAssumption DEF Plain, Op
  <1> QED BY <1>1, IdleFields, PlainStep DEF Rollback

LEMMA LoginStep ==
  ASSUME SessionsInv, NEW i \in Tx, LoginRead(i)
  PROVE  SessionsInv'
  <1>1. Plain(Issuing)
    BY IssuingFields DEF Plain
  <1> DEFINE again == [Issuing EXCEPT !.pc = "reactivate"]
  <1>2. again \in TxState /\ Plain(again) /\ again.x = {}
    BY IssuingFields DEF Plain, TxState, PC
  <1>3. Becomes(i, again) \/ Becomes(i, Issuing)
    BY DEF LoginRead
  <1> HIDE DEF again
  <1> QED BY <1>1, <1>2, <1>3, IssuingFields, PlainStep

LEMMA ReactivateStep ==
  ASSUME SessionsInv, NEW i \in Tx, Reactivate(i)
  PROVE  SessionsInv'
  <1> DEFINE state == [tx[i] EXCEPT !.pc = "cancel", !.status = "active", !.x = {<<"user">>}]
  <1>1. tx[i].pc = "reactivate" /\ CanLock(i, <<"user">>) /\ tx[i] \in TxState /\ Knows(tx[i])
    BY DEF Reactivate, SessionsInv, TypeOK
  <1>2. CASE Rollback(i)
    BY <1>2, RollbackStep
  <1>3. CASE status # "erased" /\ Becomes(i, state)
    <2>1. /\ state \in TxState /\ state.pc = "cancel" /\ state.status = "active"
          /\ state.x = {<<"user">>} /\ state.swept = tx[i].swept /\ state.op = tx[i].op
          /\ state.outcome = tx[i].outcome
      BY ZenonT(40), <1>1 DEF TxState, PC, Status, Row
    <2> HIDE DEF state
    <2>2. tx[i].swept = {} /\ tx[i].op # "erase" /\ tx[i].outcome = None
      BY <1>1 DEF Knows, Fresh
    <2>3. Knows(state)
      BY <1>3, <2>1, <2>2, SessionsAssumption DEF Knows, Fresh, Status, Outcome
    <2>4. \A j \in Tx \ {i} : state.x \cap tx[j].x = {}
      BY <1>1, <2>1, Locks
    <2>5. state.outcome # "scheduled"
      BY <2>1, <2>2, SessionsAssumption DEF Outcome
    <2> QED BY <1>3, <2>1, <2>3, <2>4, <2>5, HandlerStep
  <1> QED BY <1>2, <1>3 DEF Reactivate


LEMMA FindScheduledStep ==
  ASSUME SessionsInv, NEW i \in Tx, FindScheduled(i)
  PROVE  SessionsInv'
  <1>1. tx[i].pc = "cancel" /\ tx[i] \in TxState /\ Knows(tx[i])
    BY DEF FindScheduled, SessionsInv, TypeOK
  <1>2. tx[i].op # "erase" /\ tx[i].outcome = None
    BY <1>1 DEF Knows
  <1>3. tx[i].outcome # "scheduled" /\ \A j \in Tx \ {i} : tx[i].x \cap tx[j].x = {}
    BY <1>2, SessionsAssumption DEF SessionsInv, Exclusive, Outcome
  <1>4. ASSUME NEW q \in Req, Becomes(i, [tx[i] EXCEPT !.pc = "cancelRow", !.rid = q])
        PROVE  SessionsInv'
    <2> DEFINE state == [tx[i] EXCEPT !.pc = "cancelRow", !.rid = q]
    <2>1. /\ state \in TxState /\ state.pc = "cancelRow" /\ state.rid = q
          /\ state.x = tx[i].x /\ state.swept = tx[i].swept /\ state.op = tx[i].op
          /\ state.outcome = tx[i].outcome /\ state.status = tx[i].status
      BY <1>1 DEF TxState, PC
    <2>2. Becomes(i, state)
      BY <1>4
    <2> HIDE DEF state
    <2>3. Knows(state)
      BY <1>1, <1>2, <2>1, SessionsAssumption DEF Knows, Fresh, Outcome
    <2> QED BY <1>3, <2>1, <2>2, <2>3, HandlerStep
  <1>5. ASSUME Becomes(i, [tx[i] EXCEPT !.pc = "commit"])
        PROVE  SessionsInv'
    <2> DEFINE state == [tx[i] EXCEPT !.pc = "commit"]
    <2>1. /\ state \in TxState /\ state.pc = "commit" /\ state.rid = tx[i].rid
          /\ state.x = tx[i].x /\ state.swept = tx[i].swept /\ state.op = tx[i].op
          /\ state.outcome = tx[i].outcome /\ state.status = tx[i].status
      BY <1>1 DEF TxState, PC
    <2>2. Becomes(i, state)
      BY <1>5
    <2> HIDE DEF state
    <2>3. Knows(state)
      BY <1>1, <1>2, <2>1, SessionsAssumption DEF Knows, Fresh, Outcome
    <2> QED BY <1>3, <2>1, <2>2, <2>3, HandlerStep
  <1> QED BY <1>4, <1>5 DEF FindScheduled

LEMMA CancelStep ==
  ASSUME SessionsInv, NEW i \in Tx, CancelOnSignIn(i)
  PROVE  SessionsInv'
  <1> DEFINE q == tx[i].rid
             outcome == IF Scheduled(q) THEN "cancelled" ELSE None
             state == [tx[i] EXCEPT !.pc = "commit", !.outcome = outcome,
                                    !.x = tx[i].x \cup {<<"request", q>>}]
  <1>1. /\ tx[i].pc = "cancelRow" /\ CanLock(i, <<"request", q>>) /\ Becomes(i, state)
        /\ tx[i] \in TxState /\ Knows(tx[i])
    BY DEF CancelOnSignIn, SessionsInv, TypeOK
  <1>2. tx[i].op # "erase" /\ tx[i].outcome = None /\ q \in Req
    BY <1>1 DEF Knows
  <1>3. outcome \in {"cancelled", None} /\ (outcome = "cancelled" => Scheduled(q))
    BY SessionsAssumption DEF Outcome
  <1> HIDE DEF outcome
  <1>4. /\ state \in TxState /\ state.pc = "commit" /\ state.rid = q
        /\ state.x = tx[i].x \cup {<<"request", q>>}
        /\ state.swept = tx[i].swept /\ state.op = tx[i].op
        /\ state.outcome = outcome /\ state.status = tx[i].status
    <2>1. tx[i].x \cup {<<"request", q>>} \subseteq Row
      BY <1>1, <1>2, TxFields DEF Row
    <2> QED BY <1>1, <1>3, <2>1 DEF TxState, PC, Outcome
  <1> HIDE DEF state
  <1>5. Knows(state)
    BY <1>1, <1>2, <1>3, <1>4, SessionsAssumption DEF Knows, Outcome
  <1>6. \A j \in Tx \ {i} : state.x \cap tx[j].x = {}
    BY <1>1, <1>4, Locks
  <1>7. state.outcome # "scheduled"
    BY <1>3, <1>4, SessionsAssumption DEF Outcome
  <1> QED BY <1>1, <1>4, <1>5, <1>6, <1>7, HandlerStep

LEMMA FindSessionStep ==
  ASSUME SessionsInv, NEW i \in Tx, NEW s \in Sid, FindSession(i, s)
  PROVE  SessionsInv'
  <1> DEFINE active == status = "active"
             state == [Idle EXCEPT !.pc = "lockSession", !.op = "refresh", !.sid = s,
                                   !.active = active]
  <1>1. Becomes(i, state) /\ active \in BOOLEAN
    BY DEF FindSession
  <1> HIDE DEF active
  <1>2. /\ state \in TxState /\ state.pc = "lockSession" /\ state.op = "refresh"
        /\ state.sid = s /\ state.x = {} /\ state.swept = {}
        /\ state.outcome = None /\ state.status = None
    BY <1>1, IdleFields DEF TxState, PC, Op
  <1> HIDE DEF state
  <1>3. Plain(state)
    BY <1>2 DEF Plain
  <1> QED BY <1>1, <1>2, <1>3, PlainStep

LEMMA RefreshStep ==
  ASSUME SessionsInv, NEW i \in Tx, Refresh(i)
  PROVE  SessionsInv'
  <1> DEFINE s == tx[i].sid
             x == {<<"session", s>>}
             sweep == [tx[i] EXCEPT !.pc = "sweep", !.op = "reuse", !.x = x]
             rotate == [tx[i] EXCEPT !.pc = "rotate", !.x = x]
  <1>1. /\ tx[i].pc = "lockSession" /\ CanLock(i, <<"session", s>>)
        /\ tx[i] \in TxState /\ Knows(tx[i])
    BY DEF Refresh, SessionsInv, TypeOK
  <1>2. /\ tx[i].op # "erase" /\ tx[i].outcome = None /\ s \in Sid
        /\ tx[i].swept = {} /\ tx[i].status = None
    BY <1>1 DEF Knows, Fresh
  <1>3. x \subseteq Row
    BY <1>2 DEF Row
  <1>4. \/ Rollback(i)
        \/ Becomes(i, sweep)
        \/ Becomes(i, rotate) /\ Unrevoked(s) /\ ~sessions[s].replaced
    BY Zenon DEF Refresh
  <1>5. \A j \in Tx \ {i} : x \cap tx[j].x = {}
    BY <1>1 DEF CanLock
  <1>6. CASE Becomes(i, sweep)
    <2>1. /\ sweep \in TxState /\ sweep.pc = "sweep" /\ sweep.op = "reuse" /\ sweep.x = x
          /\ sweep.swept = {} /\ sweep.outcome = None /\ sweep.status = None
      BY <1>1, <1>2, <1>3 DEF TxState, PC, Op
    <2> HIDE DEF sweep
    <2>2. Plain(sweep)
      BY <2>1 DEF Plain
    <2> QED BY <1>5, <1>6, <2>1, <2>2, PlainKnows, HandlerStep, SessionsAssumption DEF Outcome
  <1>7. CASE Becomes(i, rotate) /\ Unrevoked(s) /\ ~sessions[s].replaced
    <2>1. /\ rotate \in TxState /\ rotate.pc = "rotate" /\ rotate.op = tx[i].op
          /\ rotate.x = x /\ rotate.sid = s
          /\ rotate.swept = {} /\ rotate.outcome = None /\ rotate.status = None
      BY <1>1, <1>2, <1>3 DEF TxState, PC
    <2> HIDE DEF rotate
    <2>2. Knows(rotate)
      BY <1>2, <1>7, <2>1, SessionsAssumption DEF Knows, Status, Outcome
    <2> QED BY <1>5, <1>7, <2>1, <2>2, HandlerStep, SessionsAssumption DEF Outcome
  <1> QED BY <1>4, <1>6, <1>7, RollbackStep

LEMMA UpdatePasswordStep ==
  ASSUME SessionsInv, NEW i \in Tx, UpdatePassword(i)
  PROVE  SessionsInv'
  <1> DEFINE state == [tx[i] EXCEPT !.pc = "sweep"]
  <1>1. /\ tx[i].pc = "setPassword" /\ Becomes(i, state)
        /\ tx[i] \in TxState /\ Knows(tx[i])
    BY DEF UpdatePassword, SessionsInv, TypeOK
  <1>2. /\ state \in TxState /\ state.pc = "sweep" /\ state.rid = tx[i].rid
        /\ state.x = tx[i].x /\ state.swept = tx[i].swept /\ state.op = tx[i].op
        /\ state.outcome = tx[i].outcome /\ state.status = tx[i].status
    BY <1>1 DEF TxState, PC
  <1> HIDE DEF state
  <1>3. Knows(state)
    BY <1>1, <1>2 DEF Knows
  <1>4. \A j \in Tx \ {i} : state.x \cap tx[j].x = {}
    BY <1>2 DEF SessionsInv, Exclusive
  <1>5. state.outcome = "scheduled" => \A j \in Tx \ {i} : tx[j].outcome # "scheduled"
    BY <1>2 DEF SessionsInv, OneScheduling
  <1> QED BY <1>1, <1>2, <1>3, <1>4, <1>5, HandlerStep

LEMMA SuspendStep ==
  ASSUME SessionsInv, NEW i \in Tx, SuspendUser(i), tx[i].pc = "idle"
  PROVE  SessionsInv'
  <1> DEFINE state == [Idle EXCEPT !.pc = "sweep", !.op = "suspend",
                                   !.status = "suspended", !.x = {<<"user">>}]
  <1>1. CanLock(i, <<"user">>) /\ status # "erased" /\ Becomes(i, state)
    BY DEF SuspendUser
  <1>2. /\ state \in TxState /\ state.pc = "sweep" /\ state.op = "suspend"
        /\ state.x = {<<"user">>} /\ state.swept = {}
        /\ state.outcome = None /\ state.status = "suspended"
    BY ZenonT(40), IdleFields DEF TxState, PC, Op, Status, Row
  <1> HIDE DEF state
  <1>3. Knows(state)
    BY <1>1, <1>2, SessionsAssumption DEF Knows, Outcome
  <1>4. \A j \in Tx \ {i} : state.x \cap tx[j].x = {}
    BY <1>1, <1>2, Locks
  <1> QED BY <1>1, <1>2, <1>3, <1>4, HandlerStep, SessionsAssumption DEF Outcome

LEMMA StartsStep ==
  ASSUME SessionsInv, NEW i \in Tx, NEW op \in Op \ {"erase"},
         NEW pc \in {"sweep", "setPassword", "setStatus", "insert"}, NEW s \in Sid,
         Starts(i, op, pc, s)
  PROVE  SessionsInv'
  <1> DEFINE state == [Idle EXCEPT !.pc = pc, !.op = op, !.sid = s]
  <1>1. Becomes(i, state)
    BY DEF Starts
  <1>2. /\ state \in TxState /\ state.pc = pc /\ state.op = op /\ state.x = {}
        /\ state.swept = {} /\ state.outcome = None /\ state.status = None
    BY IdleFields DEF TxState, PC
  <1> HIDE DEF state
  <1>3. Plain(state)
    BY <1>2 DEF Plain
  <1> QED BY <1>1, <1>2, <1>3, PlainStep

LEMMA ResetStep ==
  ASSUME SessionsInv, NEW i \in Tx, ConfirmPasswordReset(i)
  PROVE  SessionsInv'
  <1> DEFINE state == [Idle EXCEPT !.pc = "setPassword", !.op = "reset"]
  <1>1. Becomes(i, state)
    BY DEF ConfirmPasswordReset
  <1>2. /\ state \in TxState /\ state.pc = "setPassword" /\ state.op = "reset" /\ state.x = {}
        /\ state.swept = {} /\ state.outcome = None /\ state.status = None
    BY IdleFields DEF TxState, PC, Op
  <1> HIDE DEF state
  <1>3. Plain(state)
    BY <1>2 DEF Plain
  <1> QED BY <1>1, <1>2, <1>3, PlainStep

LEMMA CancelRequestStep ==
  ASSUME SessionsInv, NEW i \in Tx, cancelRequest(i)
  PROVE  SessionsInv'
  <1>1. PICK q \in Req :
           Becomes(i, [Idle EXCEPT !.pc = "cancelRow", !.op = "cancelRequest", !.rid = q])
    BY DEF cancelRequest
  <1> DEFINE state == [Idle EXCEPT !.pc = "cancelRow", !.op = "cancelRequest", !.rid = q]
  <1>2. /\ state \in TxState /\ state.pc = "cancelRow" /\ state.op = "cancelRequest"
        /\ state.x = {} /\ state.rid = q
        /\ state.swept = {} /\ state.outcome = None /\ state.status = None
    BY IdleFields DEF TxState, PC, Op
  <1>3. Becomes(i, state)
    BY <1>1
  <1> HIDE DEF state
  <1>4. Plain(state)
    BY <1>2 DEF Plain
  <1> QED BY <1>2, <1>3, <1>4, PlainStep

LEMMA RunDueErasuresStep ==
  ASSUME SessionsInv, NEW i \in Tx, NEW q \in Req, RunDueErasures(i, q)
  PROVE  SessionsInv'
  <1> DEFINE state == [Idle EXCEPT !.pc = "recheck", !.op = "erase", !.rid = q]
  <1>1. Scheduled(q) /\ requests[q].due <= now /\ Becomes(i, state)
    BY DEF RunDueErasures
  <1>2. /\ state \in TxState /\ state.pc = "recheck" /\ state.op = "erase"
        /\ state.x = {} /\ state.rid = q
        /\ state.swept = {} /\ state.outcome = None /\ state.status = None
    BY IdleFields DEF TxState, PC, Op
  <1> HIDE DEF state
  <1>3. Knows(state)
    BY <1>1, <1>2, SessionsAssumption DEF Knows, Fresh, Scheduled, Status, Outcome
  <1>4. state.outcome # "scheduled"
    BY <1>2, SessionsAssumption DEF Outcome
  <1> QED BY <1>1, <1>2, <1>3, <1>4, HandlerStep

LEMMA RecheckStep ==
  ASSUME SessionsInv, NEW i \in Tx, Recheck(i)
  PROVE  SessionsInv'
  <1> DEFINE q == tx[i].rid
             state == [tx[i] EXCEPT !.pc = "sweep", !.x = {<<"request", q>>}]
  <1>1. /\ tx[i].pc = "recheck" /\ CanLock(i, <<"request", q>>)
        /\ tx[i] \in TxState /\ Knows(tx[i])
    BY DEF Recheck, SessionsInv, TypeOK
  <1>2. /\ tx[i].op = "erase" /\ tx[i].outcome = None /\ q \in Req
        /\ tx[i].swept = {} /\ tx[i].status = None
        /\ requests[q] # None /\ requests[q].due <= now
    BY <1>1 DEF Knows, Fresh
  <1>3. \/ Rollback(i)
        \/ Scheduled(q) /\ Becomes(i, state)
    BY Zenon DEF Recheck
  <1>4. CASE Scheduled(q) /\ Becomes(i, state)
    <2> {<<"request", q>>} \subseteq Row
      BY <1>2 DEF Row
    <2>1. /\ state \in TxState /\ state.pc = "sweep" /\ state.op = "erase"
          /\ state.x = {<<"request", q>>} /\ state.rid = q
          /\ state.swept = {} /\ state.outcome = None /\ state.status = None
      BY <1>1, <1>2 DEF TxState, PC
    <2> HIDE DEF state
    <2>2. Knows(state)
      BY <1>2, <1>4, <2>1, SessionsAssumption DEF Knows, Status, Outcome
    <2>3. \A j \in Tx \ {i} : state.x \cap tx[j].x = {}
      BY <1>1, <2>1, Locks
    <2>4. state.outcome # "scheduled"
      BY <2>1, SessionsAssumption DEF Outcome
    <2> QED BY <1>4, <2>1, <2>2, <2>3, <2>4, HandlerStep
  <1> QED BY <1>3, <1>4, RollbackStep

LEMMA CreateRequestStep ==
  ASSUME SessionsInv, NEW i \in Tx, NEW q \in Req, CreateRequest(i, q)
  PROVE  SessionsInv'
  <1> DEFINE state == [tx[i] EXCEPT !.pc = "lockAccount", !.rid = q, !.outcome = "scheduled"]
  <1>1. /\ tx[i].pc = "insert" /\ requests[q] = None
        /\ \A j \in Tx \ {i} : tx[j].outcome = None
        /\ tx[i] \in TxState /\ Knows(tx[i])
    BY DEF CreateRequest, SessionsInv, TypeOK
  <1>2. Rollback(i) \/ Becomes(i, state)
    BY Zenon DEF CreateRequest
  <1>3. CASE Becomes(i, state)
    <2>1. /\ state \in TxState /\ state.pc = "lockAccount" /\ state.op = tx[i].op
          /\ state.x = tx[i].x /\ state.rid = q
          /\ state.swept = tx[i].swept /\ state.outcome = "scheduled"
          /\ state.status = tx[i].status
      BY ZenonT(40), <1>1 DEF TxState, PC, Outcome
    <2> HIDE DEF state
    <2>2. tx[i].swept = {} /\ tx[i].status = None /\ tx[i].op # "erase"
      BY <1>1 DEF Knows, Fresh
    <2>3. Knows(state)
      BY <1>1, <2>1, <2>2, SessionsAssumption DEF Knows, Fresh, Status, Outcome
    <2>4. \A j \in Tx \ {i} : state.x \cap tx[j].x = {}
      BY <2>1 DEF SessionsInv, Exclusive
    <2>5. \A j \in Tx \ {i} : tx[j].outcome # "scheduled"
      BY <1>1, SessionsAssumption DEF Outcome
    <2> QED BY <1>3, <2>1, <2>3, <2>4, <2>5, HandlerStep
  <1> QED BY <1>2, <1>3, RollbackStep

LEMMA LockAccountStep ==
  ASSUME SessionsInv, NEW i \in Tx, LockAccount(i)
  PROVE  SessionsInv'
  <1> DEFINE locked == [tx[i] EXCEPT !.pc = "sweep", !.status = "deactivated",
                                     !.x = {<<"user">>}]
             passed == [tx[i] EXCEPT !.pc = "sweep"]
  <1>1. tx[i].pc = "lockAccount" /\ tx[i] \in TxState /\ Knows(tx[i])
    BY DEF LockAccount, SessionsInv, TypeOK
  <1>2. \/ status = "active" /\ CanLock(i, <<"user">>) /\ Becomes(i, locked)
        \/ Becomes(i, passed)
    BY Zenon DEF LockAccount
  <1>3. tx[i].swept = {} /\ tx[i].status = None /\ tx[i].outcome # "cancelled"
    BY <1>1 DEF Knows, Fresh
  <1>4. /\ tx[i].outcome # "completed" /\ tx[i].op # "erase"
    BY <1>1 DEF Knows
  <1>5. tx[i].outcome = "scheduled" => \A j \in Tx \ {i} : tx[j].outcome # "scheduled"
    BY DEF SessionsInv, OneScheduling
  <1>6. CASE status = "active" /\ CanLock(i, <<"user">>) /\ Becomes(i, locked)
    <2> {<<"user">>} \subseteq Row
      BY DEF Row
    <2>1. /\ locked \in TxState /\ locked.pc = "sweep" /\ locked.op = tx[i].op
          /\ locked.x = {<<"user">>} /\ locked.rid = tx[i].rid
          /\ locked.swept = {} /\ locked.outcome = tx[i].outcome
          /\ locked.status = "deactivated"
      BY ZenonT(40), <1>1, <1>3 DEF TxState, PC, Status
    <2> HIDE DEF locked
    <2>2. Knows(locked)
      BY <1>1, <1>3, <1>4, <1>6, <2>1 DEF Knows
    <2>3. \A j \in Tx \ {i} : locked.x \cap tx[j].x = {}
      BY <1>6, <2>1, Locks
    <2> QED BY <1>5, <1>6, <2>1, <2>2, <2>3, HandlerStep
  <1>7. CASE Becomes(i, passed)
    <2>1. /\ passed \in TxState /\ passed.pc = "sweep" /\ passed.op = tx[i].op
          /\ passed.x = tx[i].x /\ passed.rid = tx[i].rid
          /\ passed.swept = {} /\ passed.outcome = tx[i].outcome
          /\ passed.status = None
      BY <1>1, <1>3 DEF TxState, PC
    <2> HIDE DEF passed
    <2>2. Knows(passed)
      BY <1>1, <1>3, <1>4, <2>1, SessionsAssumption DEF Knows, Status
    <2>3. \A j \in Tx \ {i} : passed.x \cap tx[j].x = {}
      BY <2>1 DEF SessionsInv, Exclusive
    <2> QED BY <1>5, <1>7, <2>1, <2>2, <2>3, HandlerStep
  <1> QED BY <1>2, <1>6, <1>7



LEMMA EraseStep ==
  ASSUME SessionsInv, NEW i \in Tx, eraseAccount(i)
  PROVE  SessionsInv'
  <1> DEFINE x == tx[i].x \cup {<<"user">>, <<"key">>}
             state == [tx[i] EXCEPT !.pc = "commit", !.status = "erased",
                                    !.outcome = "completed", !.x = x]
  <1>1. /\ tx[i].pc = "eraseUser" /\ CanLock(i, <<"user">>) /\ Becomes(i, state)
        /\ tx[i] \in TxState /\ Knows(tx[i])
    BY DEF eraseAccount, SessionsInv, TypeOK
  <1>2. /\ tx[i].op = "erase" /\ tx[i].rid \in Req /\ Scheduled(tx[i].rid)
        /\ requests[tx[i].rid] # None
        /\ requests[tx[i].rid].due <= now /\ <<"request", tx[i].rid>> \in tx[i].x
        /\ \A s \in tx[i].swept : Stored(s) /\ <<"session", s>> \in tx[i].x
    BY <1>1 DEF Knows
  <1>3. x \subseteq Row
    BY <1>1, TxFields DEF Row
  <1>4. \A j \in Tx \ {i} : x \cap tx[j].x = {}
    <2> SUFFICES ASSUME NEW j \in Tx \ {i} PROVE x \cap tx[j].x = {}
      OBVIOUS
    <2>1. tx[i].x \cap tx[j].x = {}
      BY DEF SessionsInv, Exclusive
    <2>2. <<"user">> \notin tx[j].x
      BY <1>1 DEF CanLock
    <2>3. <<"key">> \notin tx[j].x
      BY <2>2 DEF SessionsInv, Knows
    <2> QED BY <2>1, <2>2, <2>3
  <1>5. tx[i].x \subseteq x /\ <<"user">> \in x
    OBVIOUS
  <1> HIDE DEF x
  <1>6. /\ state \in TxState /\ state.pc = "commit" /\ state.op = "erase"
        /\ state.x = x /\ state.rid = tx[i].rid /\ state.swept = tx[i].swept
        /\ state.outcome = "completed" /\ state.status = "erased"
    BY <1>1, <1>2, <1>3 DEF TxState, PC, Status, Outcome
  <1> HIDE DEF state
  <1>7. Knows(state)
    BY <1>2, <1>5, <1>6 DEF Knows
  <1> QED BY <1>1, <1>4, <1>6, <1>7, HandlerStep

----------------------------------------------------------------------------
(* The sweep over the account's sessions.                                  *)

LEMMA FindSessionsStep ==
  ASSUME SessionsInv, NEW i \in Tx, FindSessions(i)
  PROVE  SessionsInv'
  <1> DEFINE found == {s \in Sid : Matches(tx[i], s) /\ InScope(tx[i], s)}
             fams == {sessions[s].family : s \in {r \in Sid : Stored(r) /\ InScope(tx[i], r)}}
             pc == IF found = {} THEN AfterSweep(tx[i]) ELSE "sweepRow"
             state == [tx[i] EXCEPT !.pc = pc, !.todo = found, !.fams = fams]
  <1>1. /\ tx[i].pc = "sweep" /\ Becomes(i, state) /\ tx[i] \in TxState /\ Knows(tx[i])
    BY DEF FindSessions, SessionsInv, TypeOK
  <1>2. found \subseteq Sid /\ fams \subseteq Sid
    BY Rows
  <1>3. pc \in {"sweepRow", "commit", "eraseUser"} /\ (pc = "eraseUser" => tx[i].op = "erase")
    BY DEF AfterSweep
  <1>4. tx[i].outcome # "completed" /\ (tx[i].op = "erase" => pc # "commit" \/ found = {})
    BY <1>1 DEF Knows
  <1> HIDE DEF found, fams, pc
  <1>5. /\ state \in TxState /\ state.pc = pc /\ state.op = tx[i].op
        /\ state.x = tx[i].x /\ state.rid = tx[i].rid /\ state.swept = tx[i].swept
        /\ state.outcome = tx[i].outcome /\ state.status = tx[i].status
    BY ZenonT(40), <1>1, <1>2, <1>3 DEF TxState, PC
  <1> HIDE DEF state
  <1>6. Knows(state)
    BY <1>1, <1>3, <1>4, <1>5 DEF Knows
  <1>7. \A j \in Tx \ {i} : state.x \cap tx[j].x = {}
    BY <1>5 DEF SessionsInv, Exclusive
  <1>8. state.outcome = "scheduled" => \A j \in Tx \ {i} : tx[j].outcome # "scheduled"
    BY <1>5 DEF SessionsInv, OneScheduling
  <1> QED BY <1>1, <1>5, <1>6, <1>7, <1>8, HandlerStep

LEMMA SweepRowStep ==
  ASSUME SessionsInv, NEW i \in Tx, NEW s \in Sid, SweepRow(i, s)
  PROVE  SessionsInv'
  <1> DEFINE pc == IF tx[i].todo = {s} THEN AfterSweep(tx[i]) ELSE "sweepRow"
             swept == IF Matches(tx[i], s) THEN tx[i].swept \cup {s} ELSE tx[i].swept
             x == tx[i].x \cup {<<"session", s>>}
             state == [tx[i] EXCEPT !.pc = pc, !.todo = tx[i].todo \ {s},
                                    !.swept = swept, !.x = x]
  <1>1. /\ tx[i].pc = "sweepRow" /\ CanLock(i, <<"session", s>>) /\ Becomes(i, state)
        /\ tx[i] \in TxState /\ Knows(tx[i])
    BY DEF SweepRow, SessionsInv, TypeOK
  <1>2. swept \subseteq tx[i].swept \cup {s} /\ (s \in swept => Stored(s) \/ s \in tx[i].swept)
    BY DEF Matches, Unrevoked
  <1>3. swept \subseteq Sid /\ x \subseteq Row
    BY <1>1, TxFields DEF Row
  <1>4. pc \in {"sweepRow", "commit", "eraseUser"} /\ (pc = "eraseUser" => tx[i].op = "erase")
    BY DEF AfterSweep
  <1>5. \A j \in Tx \ {i} : x \cap tx[j].x = {}
    BY <1>1, Locks
  <1>6. tx[i].x \subseteq x /\ <<"session", s>> \in x /\ (<<"key">> \in x => <<"key">> \in tx[i].x)
    OBVIOUS
  <1>7. \A r \in swept : Stored(r) /\ <<"session", r>> \in x
    BY <1>1, <1>2, <1>6 DEF Knows
  <1> HIDE DEF pc, swept, x
  <1>8. /\ state \in TxState /\ state.pc = pc /\ state.op = tx[i].op
        /\ state.x = x /\ state.rid = tx[i].rid /\ state.swept = swept
        /\ state.outcome = tx[i].outcome /\ state.status = tx[i].status
    BY ZenonT(40), <1>1, <1>3, <1>4, TxFields DEF TxState, PC
  <1> HIDE DEF state
  <1>9. Knows(state)
    <2>1. tx[i].outcome # "completed"
      BY <1>1 DEF Knows
    <2> QED BY <1>1, <1>4, <1>6, <1>7, <1>8, <2>1 DEF Knows
  <1>10. state.outcome = "scheduled" => \A j \in Tx \ {i} : tx[j].outcome # "scheduled"
    BY <1>8 DEF SessionsInv, OneScheduling
  <1> QED BY <1>1, <1>5, <1>8, <1>9, <1>10, HandlerStep


----------------------------------------------------------------------------
(* Status changes committed at once, and the clock.                        *)

LEMMA RegisterStep ==
  ASSUME SessionsInv, NEW i \in Tx, Register(i)
  PROVE  SessionsInv'
  <1>1. /\ status = "absent" /\ status' = "active" /\ tx' = [tx EXCEPT ![i] = Issuing]
        /\ UNCHANGED <<sessions, requests, now, ended>>
    BY DEF Register, Create
  <1>2. Issuing \in TxState /\ Knows(Issuing) /\ Issuing.x = {} /\ Issuing.outcome # "scheduled"
    BY IssuingFields, PlainKnows, SessionsAssumption DEF Plain, Outcome
  <1>3. status # "erased" /\ status' \in Status \ {"erased"}
    BY <1>1 DEF Status
  <1> QED BY <1>1, <1>2, <1>3, StatusStep

LEMMA SetStatusStep ==
  ASSUME SessionsInv, NEW i \in Tx, SetStatus(i)
  PROVE  SessionsInv'
  <1> DEFINE state == [tx[i] EXCEPT !.pc = "sweep"]
  <1>1. tx[i].pc = "setStatus" /\ tx[i] \in TxState /\ Knows(tx[i])
    BY DEF SetStatus, SessionsInv, TypeOK
  <1>2. \/ Rollback(i)
        \/ /\ status # "erased" /\ status' = "deactivated"
           /\ tx' = [tx EXCEPT ![i] = state]
           /\ UNCHANGED <<sessions, requests, now, ended>>
    BY DEF SetStatus, SessionsInv, TypeOK
  <1>3. /\ state \in TxState /\ state.pc = "sweep" /\ state.rid = tx[i].rid
        /\ state.x = tx[i].x /\ state.swept = tx[i].swept /\ state.op = tx[i].op
        /\ state.outcome = tx[i].outcome /\ state.status = tx[i].status
    BY <1>1 DEF TxState, PC
  <1> HIDE DEF state
  <1>4. Knows(state)
    BY <1>1, <1>3 DEF Knows
  <1>5. \A j \in Tx \ {i} : state.x \cap tx[j].x = {}
    BY <1>3 DEF SessionsInv, Exclusive
  <1>6. state.outcome = "scheduled" => \A j \in Tx \ {i} : tx[j].outcome # "scheduled"
    BY <1>3 DEF SessionsInv, OneScheduling
  <1>7. "deactivated" \in Status \ {"erased"}
    BY DEF Status
  <1> QED BY <1>2, <1>3, <1>4, <1>5, <1>6, <1>7, StatusStep, RollbackStep

LEMMA ReinstateStep ==
  ASSUME SessionsInv, NEW i \in Tx, ReinstateUser(i)
  PROVE  SessionsInv'
  <1>1. /\ status # "erased" /\ status' = "active"
        /\ UNCHANGED <<sessions, requests, now, ended, tx>>
    BY DEF ReinstateUser
  <1>2. tx[i] \in TxState /\ Knows(tx[i]) /\ tx' = [tx EXCEPT ![i] = tx[i]]
    BY <1>1 DEF SessionsInv, TypeOK
  <1>3. \A j \in Tx \ {i} : tx[i].x \cap tx[j].x = {}
    BY DEF SessionsInv, Exclusive
  <1>4. tx[i].outcome = "scheduled" => \A j \in Tx \ {i} : tx[j].outcome # "scheduled"
    BY DEF SessionsInv, OneScheduling
  <1>5. status' \in Status \ {"erased"}
    BY <1>1 DEF Status
  <1> QED BY <1>1, <1>2, <1>3, <1>4, <1>5, StatusStep

LEMMA TickStep ==
  ASSUME SessionsInv, Tick
  PROVE  SessionsInv'
  <1>1. now' = now + 1 /\ UNCHANGED <<status, sessions, requests, ended, tx>>
    BY DEF Tick
  <1>2. TypeOK'
    BY <1>1 DEF SessionsInv, TypeOK
  <1>3. ASSUME NEW j \in Tx PROVE Knows(tx[j])'
    <2>1. Knows(tx[j]) /\ tx[j] \in TxState /\ requests \in [Req -> Request \cup {None}]
      BY DEF SessionsInv, TypeOK
    <2>2. \A q \in Req : requests[q] # None /\ requests[q].due <= now => requests[q].due <= now'
      BY <1>1, <2>1 DEF SessionsInv, TypeOK, Request
    <2> QED BY <1>1, <2>1, <2>2 DEF Knows, Fresh, Stored, Unrevoked, Scheduled
  <1>4. Exclusive' /\ OneScheduling' /\ Founded' /\ OneHead' /\ Tombstone'
    BY <1>1 DEF SessionsInv, Exclusive, OneScheduling, Founded, OneHead, Tombstone,
                Stored, Unrevoked
  <1> QED BY <1>2, <1>3, <1>4 DEF SessionsInv

----------------------------------------------------------------------------
(* New sessions. A row written is one the handler has locked, and a row    *)
(* inserted had no id before.                                              *)

LEMMA SessionStep ==
  ASSUME SessionsInv, NEW i \in Tx, tx' = [tx EXCEPT ![i] = Idle],
         UNCHANGED <<status, requests, now, ended>>,
         sessions' \in [Sid -> Session \cup {None, Gone}],
         \A s \in Sid : \/ sessions[s] = None
                        \/ sessions'[s] = sessions[s]
                        \/ <<"session", s>> \in tx[i].x /\ sessions'[s] \in Session,
         Founded', OneHead'
  PROVE  SessionsInv'
  <1>1. TypeOK'
    BY IdleFields DEF SessionsInv, TypeOK
  <1>2. tx'[i] = Idle /\ \A j \in Tx : j # i => tx'[j] = tx[j]
    BY DEF SessionsInv, TypeOK
  <1>3. ASSUME NEW j \in Tx PROVE Knows(tx[j])'
    <2>1. CASE j = i
      <3>1. Knows(Idle)'
        BY IdleFields, SessionsAssumption DEF Knows, Fresh, Status, Outcome, Op
      <3> QED BY <1>2, <2>1, <3>1
    <2>2. CASE j # i
      <3> PICK t \in TxState : t = tx[j]
        BY DEF SessionsInv, TypeOK
      <3>1. Knows(t) /\ t.x \cap tx[i].x = {} /\ tx'[j] = t
        BY <1>2, <2>2 DEF SessionsInv, Exclusive
      <3>2. ASSUME NEW s \in Sid, <<"session", s>> \in t.x, Stored(s)
            PROVE  sessions'[s] = sessions[s]
        BY <3>1, <3>2 DEF Stored
      <3>3. \A s \in t.swept : Stored(s)'
        BY <3>1, <3>2, TxFields DEF Knows, Stored
      <3>4. t.pc = "rotate" => Unrevoked(t.sid)' /\ ~sessions'[t.sid].replaced
        BY <3>1, <3>2 DEF Knows, Stored, Unrevoked
      <3>5. Knows(t)'
        BY <3>1, <3>3, <3>4 DEF Knows, Fresh, Scheduled
      <3> QED BY <3>1, <3>5
    <2> QED BY <2>1, <2>2
  <1>4. Exclusive' /\ OneScheduling'
    BY <1>2, IdleFields, SessionsAssumption DEF SessionsInv, Exclusive, OneScheduling, Outcome
  <1>5. Tombstone'
    BY DEF SessionsInv, Tombstone
  <1> QED BY <1>1, <1>3, <1>4, <1>5 DEF SessionsInv


LEMMA Earlier ==
  ASSUME NEW a \in Nat, NEW b \in Nat
  PROVE  EarlierOf(a, b) \in Nat /\ EarlierOf(a, b) <= b
  BY DEF EarlierOf

LEMMA InsertSessionStep ==
  ASSUME SessionsInv, NEW i \in Tx, NEW s \in Sid, insertSession(i, s)
  PROVE  SessionsInv'
  <1> DEFINE expires == now + EarlierOf(RefreshTTL, MaxLifetime)
             row == [family |-> s, replaced |-> FALSE, revoked |-> FALSE, started |-> now,
                     expires |-> expires]
  <1>1. /\ sessions[s] = None /\ sessions' = [sessions EXCEPT ![s] = row]
        /\ tx' = [tx EXCEPT ![i] = Idle] /\ UNCHANGED <<status, requests, now, ended>>
    BY DEF insertSession
  <1>2. now \in Nat /\ expires \in Nat /\ expires <= now + MaxLifetime
    <2>1. now \in Nat /\ RefreshTTL \in Nat /\ MaxLifetime \in Nat
      BY SessionsAssumption DEF SessionsInv, TypeOK
    <2>2. EarlierOf(RefreshTTL, MaxLifetime) \in Nat
          /\ EarlierOf(RefreshTTL, MaxLifetime) <= MaxLifetime
      BY <2>1, Earlier
    <2> QED BY <2>1, <2>2
  <1> HIDE DEF expires
  <1>3. row \in Session /\ row.family = s /\ row.started = now /\ row.expires = expires
    BY <1>2 DEF Session
  <1> HIDE DEF row
  <1>4. /\ sessions'[s] = row /\ \A r \in Sid : r # s => sessions'[r] = sessions[r]
        /\ sessions' \in [Sid -> Session \cup {None, Gone}]
    BY <1>1, <1>3 DEF SessionsInv, TypeOK
  <1>5. Founded'
    <2> SUFFICES ASSUME NEW r \in Sid, Stored(r)', NEW f \in Sid, f = sessions'[r].family
                 PROVE  /\ sessions'[f] # None
                        /\ sessions'[r].expires <= sessions'[r].started + MaxLifetime
                        /\ Stored(f)' => sessions'[f].started = sessions'[r].started
      BY DEF Founded
    <2>1. CASE r = s
      BY <1>2, <1>3, <1>4, <2>1, SessionsAssumption DEF Stored
    <2>2. CASE r # s
      <3>1. Stored(r) /\ sessions'[r] = sessions[r]
        BY <1>4, <2>2 DEF Stored
      <3>2. f = sessions[r].family /\ sessions[f] # None
        BY <3>1 DEF SessionsInv, Founded
      <3>3. sessions'[f] = sessions[f]
        BY <1>1, <1>4, <3>2
      <3> QED BY <3>1, <3>2, <3>3 DEF SessionsInv, Founded, Stored
    <2> QED BY <2>1, <2>2
  <1>6. OneHead'
    <2>1. ASSUME NEW r \in Sid, r # s, Stored(r)
          PROVE  sessions'[r] = sessions[r] /\ sessions[r].family # s
      BY <1>1, <1>4, <2>1, Rows DEF SessionsInv, Founded
    <2>2. \A r \in Sid : r # s => (Unrevoked(r)' => Unrevoked(r))
      BY <1>4 DEF Unrevoked, Stored
    <2> QED BY <1>3, <1>4, <2>1, <2>2 DEF SessionsInv, OneHead, Unrevoked
  <1>7. \A r \in Sid : sessions[r] = None \/ sessions'[r] = sessions[r]
    BY <1>1, <1>4
  <1> QED BY <1>1, <1>4, <1>5, <1>6, <1>7, SessionStep

LEMMA RotateStep ==
  ASSUME SessionsInv, NEW i \in Tx, NEW new \in Sid, Rotate(i, new)
  PROVE  SessionsInv'
  <1>1. PICK s \in Sid : /\ s = tx[i].sid /\ Unrevoked(s) /\ ~sessions[s].replaced
                         /\ <<"session", s>> \in tx[i].x
    BY DEF Rotate, SessionsInv, Knows
  <1> DEFINE expires == EarlierOf(now + RefreshTTL, sessions[s].started + MaxLifetime)
             old == [sessions[s] EXCEPT !.replaced = TRUE]
             row == [sessions[s] EXCEPT !.replaced = FALSE, !.revoked = FALSE,
                                        !.expires = expires]
  <1>2. /\ sessions[new] = None
        /\ tx' = [tx EXCEPT ![i] = Idle] /\ UNCHANGED <<status, requests, now, ended>>
    BY DEF Rotate
  <1>3. s # new /\ Stored(s) /\ sessions[s] \in Session
    BY <1>1, <1>2, Rows DEF Unrevoked, Stored
  <1>4. sessions' = [sessions EXCEPT ![s] = old, ![new] = row]
    BY <1>1 DEF Rotate, SessionsInv, TypeOK
  <1>5. expires \in Nat /\ expires <= sessions[s].started + MaxLifetime
    BY <1>3, Earlier, SessionsAssumption DEF SessionsInv, TypeOK, Session
  <1> HIDE DEF expires
  <1>6. /\ old \in Session /\ old.replaced /\ old.family = sessions[s].family
        /\ old.started = sessions[s].started /\ old.expires = sessions[s].expires
        /\ row \in Session /\ row.family = sessions[s].family
        /\ row.started = sessions[s].started /\ row.expires = expires
    BY <1>3, <1>5 DEF Session
  <1> HIDE DEF old, row
  <1>7. /\ sessions'[s] = old /\ sessions'[new] = row
        /\ \A r \in Sid : r # s /\ r # new => sessions'[r] = sessions[r]
        /\ sessions' \in [Sid -> Session \cup {None, Gone}]
    BY <1>3, <1>4, <1>6 DEF SessionsInv, TypeOK
  <1>8. \A r \in Sid : /\ sessions[r] # None => sessions'[r] # None
                       /\ r # new => (Stored(r)' <=> Stored(r))
                       /\ Stored(r) => /\ sessions'[r].family = sessions[r].family
                                       /\ sessions'[r].started = sessions[r].started
                                       /\ sessions'[r].expires = sessions[r].expires
    BY <1>2, <1>3, <1>6, <1>7, SessionsAssumption DEF Stored
  <1>9. Founded'
    <2> SUFFICES ASSUME NEW r \in Sid, Stored(r)', NEW f \in Sid, f = sessions'[r].family
                 PROVE  /\ sessions'[f] # None
                        /\ sessions'[r].expires <= sessions'[r].started + MaxLifetime
                        /\ Stored(f)' => sessions'[f].started = sessions'[r].started
      BY DEF Founded
    <2>3. CASE r = new
      <3>1. f = sessions[s].family
        BY <1>6, <1>7, <2>3
      <3>2. sessions[f] # None /\ f # new /\ (Stored(f) => sessions[f].started = sessions[s].started)
        BY <1>2, <1>3, <3>1 DEF SessionsInv, Founded
      <3> QED BY <1>5, <1>6, <1>7, <1>8, <2>3, <3>2
    <2>4. CASE r # new
      <3>1. Stored(r)
        BY <1>8, <2>4
      <3>2. f = sessions[r].family
        BY <1>8, <3>1
      <3>3. /\ sessions[f] # None /\ sessions[r].expires <= sessions[r].started + MaxLifetime
            /\ Stored(f) => sessions[f].started = sessions[r].started
        BY <3>1, <3>2 DEF SessionsInv, Founded
      <3>4. f # new
        BY <1>2, <3>3
      <3> QED BY <1>8, <3>1, <3>3, <3>4
    <2> QED BY <2>3, <2>4
  <1>10. OneHead'
    <2>1. ASSUME NEW r \in Sid, r # new, Unrevoked(r)', ~sessions'[r].replaced
          PROVE  /\ Unrevoked(r) /\ ~sessions[r].replaced /\ r # s
                 /\ sessions'[r].family = sessions[r].family
      BY <1>6, <1>7, <2>1 DEF Unrevoked, Stored
    <2>2. ASSUME NEW r \in Sid, r # new, Unrevoked(r)', ~sessions'[r].replaced
          PROVE  sessions'[r].family # sessions'[new].family
      BY <1>1, <1>6, <1>7, <2>1, <2>2 DEF SessionsInv, OneHead
    <2> QED BY <2>1, <2>2 DEF SessionsInv, OneHead
  <1>11. \A r \in Sid : \/ sessions[r] = None
                        \/ sessions'[r] = sessions[r]
                        \/ <<"session", r>> \in tx[i].x /\ sessions'[r] \in Session
    BY <1>1, <1>2, <1>6, <1>7
  <1> QED BY <1>2, <1>7, <1>9, <1>10, <1>11, SessionStep

----------------------------------------------------------------------------
(* Commit writes the rows the handler has locked.                          *)

LEMMA CommitSessions ==
  ASSUME SessionsInv, NEW i \in Tx, Commit(i), NEW s \in Sid
  PROVE  /\ sessions'[s] \in Session \cup {None, Gone}
         /\ sessions'[s] = None <=> sessions[s] = None
         /\ <<"session", s>> \notin tx[i].x => sessions'[s] = sessions[s]
         /\ Stored(s)' => /\ Stored(s)
                          /\ sessions'[s].family = sessions[s].family
                          /\ sessions'[s].started = sessions[s].started
                          /\ sessions'[s].expires = sessions[s].expires
                          /\ sessions'[s].replaced = sessions[s].replaced
                          /\ Unrevoked(s)' => Unrevoked(s)
  <1>1. sessions'[s] = IF s \notin tx[i].swept THEN sessions[s]
                       ELSE IF tx[i].op = "erase" THEN Gone
                       ELSE [sessions[s] EXCEPT !.revoked = TRUE]
    BY DEF Commit
  <1>2. s \in tx[i].swept => Stored(s) /\ <<"session", s>> \in tx[i].x
    BY DEF SessionsInv, Knows
  <1>3. CASE s \notin tx[i].swept
    BY <1>1, <1>3 DEF SessionsInv, TypeOK, Stored, Unrevoked
  <1>4. CASE s \in tx[i].swept
    <2>1. sessions[s] \in Session /\ sessions[s] # None
      BY <1>2, <1>4, Rows DEF Stored
    <2>2. CASE tx[i].op = "erase"
      BY <1>1, <1>2, <1>4, <2>1, <2>2, SessionsAssumption DEF Stored
    <2>3. CASE tx[i].op # "erase"
      <3> PICK row \in Session : row = [sessions[s] EXCEPT !.revoked = TRUE]
        BY <2>1 DEF Session
      <3>1. sessions'[s] = row
        BY <1>1, <1>4, <2>3
      <3>2. /\ row.family = sessions[s].family /\ row.started = sessions[s].started
            /\ row.expires = sessions[s].expires /\ row.replaced = sessions[s].replaced
            /\ row.revoked
        BY <2>1 DEF Session
      <3>3. row # None
        BY SessionsAssumption
      <3> QED BY <1>2, <1>4, <2>1, <3>1, <3>2, <3>3 DEF Unrevoked
    <2> QED BY <2>2, <2>3
  <1> QED BY <1>3, <1>4

LEMMA CommitRequests ==
  ASSUME SessionsInv, NEW i \in Tx, Commit(i), NEW q \in Req, requests'[q] # requests[q]
  PROVE  /\ q = tx[i].rid /\ requests'[q] \in Request
         /\ requests'[q].status = tx[i].outcome
         /\ \/ tx[i].outcome = "scheduled" /\ requests[q] = None
            \/ /\ tx[i].outcome \in {"cancelled", "completed"}
               /\ Scheduled(q) /\ requests'[q].due = requests[q].due
               /\ <<"request", q>> \in tx[i].x
  <1> PICK t \in TxState : t = tx[i]
    BY DEF SessionsInv, TypeOK
  <1>1. /\ Knows(t) /\ t.pc = "commit" /\ requests \in [Req -> Request \cup {None}]
        /\ now \in Nat
    BY DEF SessionsInv, TypeOK, Commit
  <1>2. requests' = CASE t.outcome = None -> requests
                      [] t.outcome = "scheduled" ->
                             [requests EXCEPT ![t.rid] =
                                 [status |-> "scheduled", due |-> now + Grace]]
                      [] OTHER -> [requests EXCEPT ![t.rid].status = t.outcome]
    BY DEF Commit
  <1>3. t.outcome # None
    BY <1>2, SessionsAssumption DEF Outcome
  <1>4. CASE t.outcome = "scheduled"
    <2>1. requests' = [requests EXCEPT ![t.rid] =
                                 [status |-> "scheduled", due |-> now + Grace]]
      BY <1>2, <1>3, <1>4
    <2>2. requests[t.rid] = None
      BY <1>1, <1>4 DEF Knows
    <2>3. [status |-> "scheduled", due |-> now + Grace] \in Request
      BY <1>1, SessionsAssumption DEF Request, Outcome
    <2> QED BY <1>1, <1>4, <2>1, <2>2, <2>3
  <1>5. CASE t.outcome # "scheduled"
    <2>1. requests' = [requests EXCEPT ![t.rid].status = t.outcome]
      BY <1>2, <1>3, <1>5
    <2>2. t.outcome \in {"cancelled", "completed"}
      BY <1>3, <1>5, TxFields DEF Outcome
    <2>3. Scheduled(t.rid) /\ <<"request", t.rid>> \in t.x
      BY <1>1, <2>2 DEF Knows
    <2>4. q = t.rid /\ requests[q] \in Request
      BY <1>1, <2>1, <2>3 DEF Scheduled
    <2>5. requests'[q] = [requests[q] EXCEPT !.status = t.outcome]
      BY <1>1, <2>1, <2>4
    <2>6. requests'[q] \in Request /\ requests'[q].status = t.outcome
          /\ requests'[q].due = requests[q].due
      BY <2>2, <2>4, <2>5 DEF Request, Outcome
    <2> QED BY <2>2, <2>3, <2>4, <2>6
  <1> QED BY <1>4, <1>5


LEMMA CommitStep ==
  ASSUME SessionsInv, NEW i \in Tx, Commit(i)
  PROVE  SessionsInv'
  <1> PICK t \in TxState : t = tx[i]
    BY DEF SessionsInv, TypeOK
  <1>1. /\ Knows(t) /\ t.pc = "commit" /\ now' = now
        /\ status' = IF t.status # None THEN t.status ELSE status
        /\ tx' = [tx EXCEPT ![i] = AfterCommit(t)]
    BY DEF SessionsInv, Commit
  <1>2. PICK after \in TxState :
           /\ after = AfterCommit(t) /\ Plain(after) /\ after.x = {} /\ after.outcome = None
    <2>1. Plain(Idle) /\ Plain(Issuing)
      BY IdleFields, IssuingFields, SessionsAssumption DEF Plain, Op
    <2> QED BY <2>1, IdleFields, IssuingFields DEF AfterCommit
  <1>3. tx'[i] = after /\ \A j \in Tx : j # i => tx'[j] = tx[j]
    BY <1>1, <1>2 DEF SessionsInv, TypeOK
  <1>4. \A s \in Sid : /\ sessions'[s] \in Session \cup {None, Gone}
                       /\ sessions'[s] = None <=> sessions[s] = None
                       /\ <<"session", s>> \notin t.x => sessions'[s] = sessions[s]
    BY CommitSessions
  <1>5. \A s \in Sid : Stored(s)' =>
           /\ Stored(s) /\ sessions'[s].family = sessions[s].family
           /\ sessions'[s].started = sessions[s].started
           /\ sessions'[s].expires = sessions[s].expires
           /\ sessions'[s].replaced = sessions[s].replaced
           /\ Unrevoked(s)' => Unrevoked(s)
    BY CommitSessions
  <1>6. \A q \in Req : requests'[q] # requests[q] =>
           /\ q = t.rid /\ requests'[q] \in Request /\ requests'[q].status = t.outcome
           /\ \/ t.outcome = "scheduled" /\ requests[q] = None
              \/ /\ t.outcome \in {"cancelled", "completed"}
                 /\ Scheduled(q) /\ requests'[q].due = requests[q].due
                 /\ <<"request", q>> \in t.x
    BY CommitRequests
  <1>7. TypeOK'
    <2>1. status' \in Status /\ now' \in Nat
      BY <1>1, TxFields DEF SessionsInv, TypeOK
    <2>2. sessions' \in [Sid -> Session \cup {None, Gone}]
      <3>1. sessions' = [s \in Sid |-> sessions'[s]]
        BY DEF Commit
      <3> QED BY <1>4, <3>1
    <2>3. requests' \in [Req -> Request \cup {None}]
      <3>1. requests \in [Req -> Request \cup {None}]
        BY DEF SessionsInv, TypeOK
      <3>2. \A q \in Req : requests'[q] \in Request \cup {None}
        BY <1>6, <3>1
      <3>3. requests' = CASE t.outcome = None -> requests
                          [] t.outcome = "scheduled" ->
                                 [requests EXCEPT ![t.rid] =
                                     [status |-> "scheduled", due |-> now + Grace]]
                          [] OTHER -> [requests EXCEPT ![t.rid].status = t.outcome]
        BY DEF Commit
      <3>4. CASE t.outcome = None
        <4>1. requests' = requests
          BY <3>3, <3>4, SessionsAssumption DEF Outcome
        <4> QED BY <3>1, <4>1
      <3>5. CASE t.outcome # None /\ t.outcome = "scheduled"
        <4>1. requests' = [requests EXCEPT ![t.rid] =
                              [status |-> "scheduled", due |-> now + Grace]]
          BY <3>3, <3>5
        <4> QED BY <3>1, <3>2, <4>1
      <3>6. CASE t.outcome # None /\ t.outcome # "scheduled"
        <4>1. requests' = [requests EXCEPT ![t.rid].status = t.outcome]
          BY <3>3, <3>6
        <4> QED BY <3>1, <3>2, <4>1
      <3> QED BY <3>4, <3>5, <3>6
    <2>4. ended' \subseteq Sid
      BY TxFields DEF Commit, SessionsInv, TypeOK
    <2>5. tx' \in [Tx -> TxState]
      BY <1>1, <1>2 DEF SessionsInv, TypeOK
    <2> QED BY <2>1, <2>2, <2>3, <2>4, <2>5 DEF TypeOK
  <1>8. ASSUME NEW j \in Tx PROVE Knows(tx[j])'
    <2>1. CASE j = i
      <3>1. Knows(after)'
        BY <1>2, SessionsAssumption DEF Plain, Knows, Fresh, Status, Outcome
      <3> QED BY <1>3, <2>1, <3>1
    <2>2. CASE j # i
      <3> PICK u \in TxState : u = tx[j]
        BY DEF SessionsInv, TypeOK
      <3>1. Knows(u) /\ u.x \cap t.x = {} /\ tx'[j] = u
        BY <1>3, <2>2 DEF SessionsInv, Exclusive
      <3>2. \A s \in Sid : <<"session", s>> \in u.x => sessions'[s] = sessions[s]
        BY <1>4, <3>1
      <3>3. u.status # None => status' = status
        BY <1>1, <3>1 DEF Knows
      <3>4. ASSUME u.outcome = "scheduled" PROVE requests'[u.rid] = None
        <4>1. u.rid \in Req /\ requests[u.rid] = None
          BY <3>1, <3>4, SessionsAssumption DEF Knows, Outcome
        <4>2. t.outcome # "scheduled"
          BY <2>2, <3>4 DEF SessionsInv, OneScheduling
        <4> QED BY <1>6, <4>1, <4>2 DEF Scheduled
      <3>5. ASSUME NEW q \in Req, Scheduled(q), <<"request", q>> \in u.x
            PROVE  requests'[q] = requests[q]
        BY <1>6, <3>1, <3>5 DEF Scheduled
      <3>6. ASSUME NEW q \in Req, requests[q] # None, requests[q].due <= now
            PROVE  requests'[q] # None /\ requests'[q].due <= now
        BY <1>6, <3>6, SessionsAssumption
      <3>7. \A s \in u.swept : Stored(s)' /\ <<"session", s>> \in u.x
        BY <3>1, <3>2, TxFields DEF Knows, Stored
      <3>8. u.pc = "rotate" => /\ Unrevoked(u.sid)' /\ ~sessions'[u.sid].replaced
                               /\ <<"session", u.sid>> \in u.x
        BY <3>1, <3>2 DEF Knows, Stored, Unrevoked
      <3>9. u.outcome = "cancelled" => Scheduled(u.rid)' /\ <<"request", u.rid>> \in u.x
        BY <3>1, <3>5, SessionsAssumption DEF Knows, Scheduled, Outcome
      <3>10. u.op = "erase" =>
                /\ u.pc \in {"recheck", "sweep", "sweepRow", "eraseUser", "commit"}
                /\ u.rid \in Req /\ requests'[u.rid] # None /\ requests'[u.rid].due <= now'
                /\ u.pc # "recheck" => Scheduled(u.rid)' /\ <<"request", u.rid>> \in u.x
        BY <1>1, <3>1, <3>5, <3>6 DEF Knows, Scheduled
      <3>11. Knows(u)'
        BY <3>1, <3>3, <3>4, <3>7, <3>8, <3>9, <3>10 DEF Knows, Fresh
      <3> QED BY <3>1, <3>11
    <2> QED BY <2>1, <2>2
  <1>9. Exclusive'
    BY <1>2, <1>3 DEF SessionsInv, Exclusive
  <1>10. OneScheduling'
    BY <1>2, <1>3, SessionsAssumption DEF SessionsInv, OneScheduling, Outcome
  <1>11. Founded'
    <2> SUFFICES ASSUME NEW r \in Sid, Stored(r)', NEW f \in Sid, f = sessions'[r].family
                 PROVE  /\ sessions'[f] # None
                        /\ sessions'[r].expires <= sessions'[r].started + MaxLifetime
                        /\ Stored(f)' => sessions'[f].started = sessions'[r].started
      BY DEF Founded
    <2>1. Stored(r) /\ f = sessions[r].family
      BY <1>5
    <2>2. /\ sessions[f] # None /\ sessions[r].expires <= sessions[r].started + MaxLifetime
          /\ Stored(f) => sessions[f].started = sessions[r].started
      BY <2>1 DEF SessionsInv, Founded
    <2>3. sessions'[f] # None
      BY <1>4, <2>2
    <2> QED BY <1>5, <2>2, <2>3
  <1>12. OneHead'
    <2>1. ASSUME NEW s \in Sid, Unrevoked(s)', ~sessions'[s].replaced
          PROVE  /\ Unrevoked(s) /\ ~sessions[s].replaced
                 /\ sessions'[s].family = sessions[s].family
      <3>1. Stored(s)'
        BY <2>1 DEF Unrevoked
      <3> QED BY <1>5, <2>1, <3>1
    <2> QED BY <2>1 DEF SessionsInv, OneHead
  <1>13. Tombstone'
    <2>1. CASE t.outcome = "completed"
      <3>1. status' = "erased" /\ t.op = "erase"
        BY <1>1, <2>1, SessionsAssumption DEF Knows, Status
      <3>2. t.rid \in Req /\ Scheduled(t.rid)
        BY <1>1, <3>1 DEF Knows
      <3>3. requests'[t.rid] # None /\ requests'[t.rid].status = "completed"
        <4>1. requests' = [requests EXCEPT ![t.rid].status = "completed"]
          BY <2>1, SessionsAssumption DEF Commit, Outcome
        <4>2. requests[t.rid] \in Request /\ requests \in [Req -> Request \cup {None}]
          BY <3>2 DEF Scheduled, SessionsInv, TypeOK
        <4>3. requests'[t.rid] = [requests[t.rid] EXCEPT !.status = "completed"]
          BY <3>2, <4>1, <4>2
        <4>4. requests'[t.rid] \in Request /\ requests'[t.rid].status = "completed"
          BY <4>2, <4>3 DEF Request, Outcome
        <4> QED BY <4>4, SessionsAssumption
      <3> QED BY <3>1, <3>2, <3>3 DEF Tombstone
    <2>2. CASE t.outcome # "completed"
      <3>1. status' = "erased" <=> status = "erased"
        BY <1>1, <2>2 DEF Knows
      <3>2. ASSUME NEW q \in Req
            PROVE  requests'[q] # None /\ requests'[q].status = "completed"
                   <=> requests[q] # None /\ requests[q].status = "completed"
        <4>1. CASE requests'[q] = requests[q]
          BY <4>1
        <4>2. CASE requests'[q] # requests[q]
          BY <1>6, <2>2, <4>2 DEF Scheduled
        <4> QED BY <4>1, <4>2
      <3> QED BY <3>1, <3>2 DEF SessionsInv, Tombstone
    <2> QED BY <2>1, <2>2
  <1> QED BY <1>7, <1>8, <1>9, <1>10, <1>11, <1>12, <1>13 DEF SessionsInv


----------------------------------------------------------------------------
(* The theorems.                                                           *)

LEMMA ArriveStep ==
  ASSUME SessionsInv, NEW i \in Tx, Arrive(i)
  PROVE  SessionsInv'
  <1>1. CASE register(i) \/ reinstate(i)
    BY <1>1, RegisterStep, ReinstateStep DEF register, reinstate
  <1>2. CASE login(i)
    BY <1>2, LoginStep DEF login
  <1>3. CASE refresh(i)
    BY <1>3, FindSessionStep DEF refresh
  <1>4. CASE \/ logout(i) \/ revokeSession(i) \/ logoutAll(i) \/ changePassword(i)
             \/ deactivate(i) \/ createRequest(i)
    <2>1. \E op \in Op \ {"erase"}, pc \in {"sweep", "setPassword", "setStatus", "insert"},
             s \in Sid : Starts(i, op, pc, s)
      <3> {"revokeSession", "logoutAll", "changePassword", "deactivate", "request"}
              \subseteq Op \ {"erase"}
        BY DEF Op
      <3> QED BY <1>4 DEF logout, revokeSession, logoutAll, changePassword, deactivate,
                          createRequest
    <2> QED BY <2>1, StartsStep
  <1>5. CASE passwordResetConfirm(i)
    BY <1>5, ResetStep DEF passwordResetConfirm
  <1>6. CASE cancelRequest(i)
    BY <1>6, CancelRequestStep
  <1>7. CASE suspend(i)
    BY <1>7, SuspendStep DEF suspend, Calls
  <1> QED BY <1>1, <1>2, <1>3, <1>4, <1>5, <1>6, <1>7 DEF Arrive

LEMMA ProceedStep ==
  ASSUME SessionsInv, NEW i \in Tx, Proceed(i)
  PROVE  SessionsInv'
  <1>1. CASE Reactivate(i) \/ FindScheduled(i) \/ CancelOnSignIn(i)
    BY <1>1, ReactivateStep, FindScheduledStep, CancelStep
  <1>2. CASE \E s \in Sid : insertSession(i, s) \/ Rotate(i, s) \/ SweepRow(i, s)
    BY <1>2, InsertSessionStep, RotateStep, SweepRowStep
  <1>3. CASE Refresh(i) \/ UpdatePassword(i) \/ SetStatus(i)
    BY <1>3, RefreshStep, UpdatePasswordStep, SetStatusStep
  <1>4. CASE (\E q \in Req : CreateRequest(i, q)) \/ LockAccount(i)
    BY <1>4, CreateRequestStep, LockAccountStep
  <1>5. CASE runErasures(i) \/ Recheck(i) \/ eraseAccount(i)
    BY <1>5, RunDueErasuresStep, RecheckStep, EraseStep DEF runErasures
  <1>6. CASE FindSessions(i) \/ Commit(i)
    BY <1>6, FindSessionsStep, CommitStep
  <1> QED BY <1>1, <1>2, <1>3, <1>4, <1>5, <1>6 DEF Proceed

LEMMA InitInv == Init => SessionsInv
  <1> SUFFICES ASSUME Init PROVE SessionsInv
    OBVIOUS
  <1>1. TypeOK
    BY IdleFields DEF Init, TypeOK, Status
  <1>2. ASSUME NEW i \in Tx PROVE Knows(tx[i]) /\ tx[i] = Idle
    <2>1. Plain(Idle)
      BY IdleFields, SessionsAssumption DEF Plain, Op
    <2> QED BY <2>1, PlainKnows DEF Init
  <1>3. \A s \in Sid : ~Stored(s)
    BY DEF Init, Stored
  <1>4. Exclusive /\ OneScheduling
    BY <1>2, IdleFields, SessionsAssumption DEF Exclusive, OneScheduling, Outcome
  <1>5. Founded /\ OneHead
    BY <1>3 DEF Founded, OneHead, Unrevoked
  <1>6. Tombstone
    BY DEF Init, Tombstone
  <1> QED BY <1>1, <1>2, <1>4, <1>5, <1>6 DEF SessionsInv

LEMMA StepInv == SessionsInv /\ [Next]_vars => SessionsInv'
  <1> SUFFICES ASSUME SessionsInv, [Next]_vars PROVE SessionsInv'
    OBVIOUS
  <1>1. CASE \E i \in Tx : Arrive(i) \/ Proceed(i)
    BY <1>1, ArriveStep, ProceedStep
  <1>2. CASE \E i \in Tx : ConnectionLost(i) \/ DeadlockAbort(i)
    BY <1>2, RollbackStep DEF ConnectionLost, DeadlockAbort
  <1>3. CASE Tick
    BY <1>3, TickStep
  <1>4. CASE UNCHANGED vars
    <2>1. ASSUME NEW i \in Tx PROVE Knows(tx[i])'
      BY <1>4 DEF SessionsInv, Knows, Fresh, Stored, Unrevoked, Scheduled, vars
    <2> QED BY <1>4, <2>1 DEF SessionsInv, vars, TypeOK, Exclusive, OneScheduling, Founded,
                              OneHead, Tombstone, Stored, Unrevoked
  <1> QED BY <1>1, <1>2, <1>3, <1>4 DEF Next

(* Whatever handlers interleave, wait for each other, are aborted or lose  *)
(* their connection, the invariant above holds.                            *)
THEOREM SessionsKept == Spec => []SessionsInv
  BY InitInv, StepInv, PTL DEF Spec

(* Every state of the account, its sessions, its requests and the handlers *)
(* under way is one of those declared.                                     *)
THEOREM TypeCorrect == Spec => []TypeOK
  <1>1. SessionsInv => TypeOK
    BY DEF SessionsInv
  <1> QED BY <1>1, SessionsKept, PTL

(* Concurrent refreshes never fork a family (Refresh).                     *)
THEOREM NeverForked == Spec => []OneHead
  <1>1. SessionsInv => OneHead
    BY DEF SessionsInv
  <1> QED BY <1>1, SessionsKept, PTL

(* The account is a tombstone exactly when an erasure was carried out      *)
(* (RunDueErasures, Login, Deactivate, SuspendUser, ReinstateUser).        *)
THEOREM ErasedForGood == Spec => []Tombstone
  <1>1. SessionsInv => Tombstone
    BY DEF SessionsInv
  <1> QED BY <1>1, SessionsKept, PTL

(* No row of a family lets anyone in once MaxLifetime has passed since the *)
(* sign-in that began it, however often it was refreshed (Refresh).        *)
THEOREM NeverOutlived == Spec => []LifetimeKept
  <1>1. SessionsInv => LifetimeKept
    <2> SUFFICES ASSUME SessionsInv, NEW s \in Sid, VerifyAccess(s), Stored(sessions[s].family)
                 PROVE  now < sessions[sessions[s].family].started + MaxLifetime
      BY DEF LifetimeKept
    <2>1. Stored(s) /\ now < sessions[s].expires
      BY DEF VerifyAccess, Unrevoked
    <2> PICK f \in Sid : f = sessions[s].family
      BY <2>1, Rows
    <2>2. /\ sessions[s].expires <= sessions[s].started + MaxLifetime
          /\ sessions[f].started = sessions[s].started
      BY <2>1 DEF SessionsInv, Founded
    <2>3. now \in Nat /\ sessions[s].expires \in Nat /\ sessions[s].started \in Nat
      BY <2>1, Rows DEF SessionsInv, TypeOK
    <2> QED BY <2>1, <2>2, <2>3, SessionsAssumption
  <1> QED BY <1>1, SessionsKept, PTL

LEMMA OnlyCommitted ==
  ASSUME [Next]_vars, requests' # requests
  PROVE  \E i \in Tx : Commit(i)
  <1>1. ASSUME NEW i \in Tx, Arrive(i) PROVE FALSE
    BY <1>1 DEF Arrive, register, Register, login, LoginRead, refresh, FindSession, logout,
                revokeSession, logoutAll, Starts, passwordResetConfirm, ConfirmPasswordReset,
                changePassword, deactivate, createRequest, cancelRequest, suspend,
                SuspendUser, reinstate, ReinstateUser, Becomes
  <1>2. ASSUME NEW i \in Tx, Proceed(i) PROVE Commit(i)
    BY <1>2 DEF Proceed, Reactivate, Rollback, FindScheduled, CancelOnSignIn, insertSession,
                Refresh, Rotate, UpdatePassword, SetStatus, CreateRequest, LockAccount,
                runErasures, RunDueErasures, Recheck, eraseAccount, FindSessions, SweepRow,
                Becomes
  <1>3. ASSUME NEW i \in Tx, ConnectionLost(i) \/ DeadlockAbort(i) PROVE FALSE
    BY <1>3 DEF ConnectionLost, DeadlockAbort, Rollback, Becomes
  <1> QED BY <1>1, <1>2, <1>3 DEF Next, Tick, vars

(* An erasure is carried out only from a request still scheduled and due   *)
(* (RunDueErasures, CancelOnSignIn).                                       *)
THEOREM ErasedWhenDue == Spec => OnlyWhenDue
  <1>1. ASSUME SessionsInv, [Next]_vars, NEW q \in Req,
               requests'[q] # requests[q], requests'[q].status = "completed"
        PROVE  Scheduled(q) /\ requests[q].due <= now
    <2>1. PICK i \in Tx : Commit(i)
      BY <1>1, OnlyCommitted
    <2>2. q = tx[i].rid /\ tx[i].outcome = "completed"
      BY <1>1, <2>1, CommitRequests
    <2>3. tx[i].op = "erase" /\ tx[i].pc = "commit" /\ Knows(tx[i])
      BY <1>1, <2>2 DEF SessionsInv, Knows
    <2> QED BY <2>2, <2>3 DEF Knows
  <1>2. SessionsInv /\ [Next]_vars =>
           [\A q \in Req : requests'[q] # requests[q] /\ requests'[q].status = "completed"
                => Scheduled(q) /\ requests[q].due <= now]_vars
    BY <1>1
  <1> QED BY <1>2, SessionsKept, PTL DEF Spec, OnlyWhenDue


----------------------------------------------------------------------------
(* Signing in cancels a scheduled erasure, as long as nobody suspends,     *)
(* reinstates or deactivates the account.                                  *)

LEMMA CalmHandler ==
  ASSUME SessionsInv, CalmInv, NEW i \in Tx, NEW state, tx' = [tx EXCEPT ![i] = state],
         UNCHANGED <<status, requests>>, Expects(state)
  PROVE  CalmInv'
  <1>1. tx'[i] = state /\ \A j \in Tx : j # i => tx'[j] = tx[j]
    BY DEF SessionsInv, TypeOK
  <1>2. ASSUME NEW j \in Tx PROVE Expects(tx[j])'
    <2> PICK t : t = tx'[j]
      OBVIOUS
    <2>1. Expects(t)
      BY <1>1 DEF CalmInv
    <2>2. Expects(t)'
      BY <2>1 DEF Expects, NoneScheduled, Scheduled
    <2> QED BY <2>2 DEF Expects
  <1> QED BY <1>2 DEF CalmInv, NoneScheduled, Scheduled

(* A handler that has neither found nor written anything.                  *)
Quiet(t) ==
    /\ t.status = None /\ t.outcome = None
    /\ t.pc \notin {"setStatus", "lockAccount", "insert", "cancel", "cancelRow"}
    /\ t.op = "cancelRequest" =>
          t.pc # "reactivate" /\ t.rid \in Req /\ requests[t.rid] # None /\ ~Scheduled(t.rid)

LEMMA QuietExpects ==
  ASSUME NEW t, Quiet(t)
  PROVE  Expects(t)
  BY SessionsAssumption DEF Quiet, Expects, Status, Outcome

LEMMA QuietStep ==
  ASSUME SessionsInv, CalmInv, NEW i \in Tx, NEW state, Becomes(i, state), Quiet(state)
  PROVE  CalmInv'
  BY QuietExpects, CalmHandler DEF Becomes

LEMMA QuietIdle == Quiet(Idle) /\ Quiet(Issuing)
  BY IdleFields, IssuingFields, SessionsAssumption DEF Quiet, Op

LEMMA CalmRollback ==
  ASSUME SessionsInv, CalmInv, NEW i \in Tx, Rollback(i)
  PROVE  CalmInv'
  BY QuietIdle, QuietStep DEF Rollback

LEMMA CalmLogin ==
  ASSUME SessionsInv, CalmInv, NEW i \in Tx, LoginRead(i)
  PROVE  CalmInv'
  <1> DEFINE again == [Issuing EXCEPT !.pc = "reactivate"]
  <1>1. Quiet(again)
    BY IssuingFields DEF Quiet, TxState
  <1>2. Becomes(i, again) \/ Becomes(i, Issuing)
    BY DEF LoginRead
  <1> HIDE DEF again
  <1> QED BY <1>1, <1>2, QuietIdle, QuietStep

LEMMA CalmReactivate ==
  ASSUME SessionsInv, CalmInv, NEW i \in Tx, Reactivate(i)
  PROVE  CalmInv'
  <1> DEFINE state == [tx[i] EXCEPT !.pc = "cancel", !.status = "active", !.x = {<<"user">>}]
  <1>1. tx[i].pc = "reactivate" /\ tx[i] \in TxState /\ Knows(tx[i]) /\ Expects(tx[i])
    BY DEF Reactivate, SessionsInv, TypeOK, CalmInv
  <1>2. Rollback(i) \/ Becomes(i, state)
    BY DEF Reactivate
  <1>3. /\ state.pc = "cancel" /\ state.status = "active" /\ state.op = tx[i].op
        /\ state.outcome = tx[i].outcome /\ state.rid = tx[i].rid
    BY <1>1 DEF TxState
  <1> HIDE DEF state
  <1>4. tx[i].outcome = None
    BY <1>1 DEF Knows
  <1>5. Expects(state)
    BY <1>1, <1>3, <1>4, SessionsAssumption DEF Expects, Outcome
  <1> QED BY <1>2, <1>5, CalmHandler, CalmRollback DEF Becomes

LEMMA CalmFindScheduled ==
  ASSUME SessionsInv, CalmInv, NEW i \in Tx, FindScheduled(i)
  PROVE  CalmInv'
  <1>1. /\ tx[i].pc = "cancel" /\ tx[i] \in TxState /\ tx[i].outcome = None
        /\ Expects(tx[i])
    BY DEF FindScheduled, SessionsInv, TypeOK, CalmInv, Knows
  <1>2. tx[i].status = "active" /\ tx[i].op # "cancelRequest"
    BY <1>1 DEF Expects
  <1>3. ASSUME NEW q \in Req, Scheduled(q),
               Becomes(i, [tx[i] EXCEPT !.pc = "cancelRow", !.rid = q])
        PROVE  CalmInv'
    <2> DEFINE state == [tx[i] EXCEPT !.pc = "cancelRow", !.rid = q]
    <2>1. /\ state.pc = "cancelRow" /\ state.rid = q /\ state.op = tx[i].op
          /\ state.outcome = tx[i].outcome /\ state.status = tx[i].status
      BY <1>1 DEF TxState
    <2>2. Becomes(i, state)
      BY <1>3
    <2> HIDE DEF state
    <2>3. \A r \in Req : Scheduled(r) => r = q
      BY <1>3 DEF CalmInv
    <2>4. Expects(state)
      BY <1>1, <1>2, <2>1, <2>3, SessionsAssumption DEF Expects, Outcome
    <2> QED BY <2>2, <2>4, CalmHandler DEF Becomes
  <1>4. ASSUME NoneScheduled, Becomes(i, [tx[i] EXCEPT !.pc = "commit"])
        PROVE  CalmInv'
    <2> DEFINE state == [tx[i] EXCEPT !.pc = "commit"]
    <2>1. /\ state.pc = "commit" /\ state.rid = tx[i].rid /\ state.op = tx[i].op
          /\ state.outcome = tx[i].outcome /\ state.status = tx[i].status
      BY <1>1 DEF TxState
    <2>2. Becomes(i, state)
      BY <1>4
    <2> HIDE DEF state
    <2>3. Expects(state)
      BY <1>1, <1>2, <1>4, <2>1, SessionsAssumption DEF Expects, NoneScheduled, Outcome
    <2> QED BY <2>2, <2>3, CalmHandler DEF Becomes
  <1> QED BY <1>3, <1>4 DEF FindScheduled, NoneScheduled

LEMMA CalmCancel ==
  ASSUME SessionsInv, CalmInv, NEW i \in Tx, CancelOnSignIn(i)
  PROVE  CalmInv'
  <1> DEFINE q == tx[i].rid
             outcome == IF Scheduled(q) THEN "cancelled" ELSE None
             x == tx[i].x \cup {<<"request", q>>}
             state == [tx[i] EXCEPT !.pc = "commit", !.outcome = outcome, !.x = x]
  <1>1. /\ tx[i].pc = "cancelRow" /\ Becomes(i, state)
        /\ tx[i] \in TxState /\ Expects(tx[i]) /\ Knows(tx[i])
    BY DEF CancelOnSignIn, SessionsInv, TypeOK, CalmInv
  <1>2. outcome \in {"cancelled", None} /\ (outcome = "cancelled" <=> Scheduled(q))
    BY SessionsAssumption DEF Outcome
  <1> HIDE DEF outcome, x
  <1>3. /\ state.pc = "commit" /\ state.rid = q /\ state.op = tx[i].op
        /\ state.outcome = outcome /\ state.status = tx[i].status
    BY <1>1 DEF TxState
  <1> HIDE DEF state
  <1>4. tx[i].outcome = None /\ q \in Req
    BY <1>1 DEF Knows
  <1>5. Scheduled(q) => tx[i].status = "active"
    BY <1>1 DEF Expects
  <1>6. tx[i].status # "deactivated"
    BY <1>1, <1>4, SessionsAssumption DEF Expects, Outcome
  <1>7. Expects(state)
    BY <1>1, <1>2, <1>3, <1>5, <1>6, SessionsAssumption DEF Expects, Outcome
  <1> QED BY <1>1, <1>7, CalmHandler DEF Becomes

LEMMA CalmStarts ==
  ASSUME SessionsInv, CalmInv, NEW i \in Tx, NEW op \in Op \ {"cancelRequest"},
         NEW pc \in {"sweep", "setPassword", "insert"}, NEW s, Starts(i, op, pc, s),
         pc = "insert" => status = "active"
  PROVE  CalmInv'
  <1> DEFINE state == [Idle EXCEPT !.pc = pc, !.op = op, !.sid = s]
  <1>1. Becomes(i, state)
    BY DEF Starts
  <1>2. state.pc = pc /\ state.op = op /\ state.outcome = None /\ state.status = None
    BY IdleFields DEF TxState
  <1> HIDE DEF state
  <1>3. Expects(state)
    BY <1>2, SessionsAssumption DEF Expects, Status, Outcome
  <1> QED BY <1>1, <1>3, CalmHandler DEF Becomes

LEMMA CalmArrive ==
  ASSUME SessionsInv, CalmInv, Calm, NEW i \in Tx, Arrive(i), ~register(i)
  PROVE  CalmInv'
  <1>1. CASE login(i)
    BY <1>1, CalmLogin DEF login
  <1>2. CASE refresh(i)
    <2> PICK s \in Sid : FindSession(i, s)
      BY <1>2 DEF refresh
    <2> DEFINE active == status = "active"
               state == [Idle EXCEPT !.pc = "lockSession", !.op = "refresh", !.sid = s,
                                     !.active = active]
    <2>1. Becomes(i, state)
      BY DEF FindSession
    <2> HIDE DEF active
    <2>2. Quiet(state)
      BY IdleFields DEF Quiet, TxState
    <2> HIDE DEF state
    <2> QED BY <2>1, <2>2, QuietStep
  <1>3. CASE \/ logout(i) \/ revokeSession(i) \/ logoutAll(i) \/ changePassword(i)
             \/ createRequest(i)
    <2>1. \E op \in Op \ {"cancelRequest"}, pc \in {"sweep", "setPassword", "insert"}, s \in Sid :
             Starts(i, op, pc, s) /\ (pc = "insert" => status = "active")
      <3> {"revokeSession", "logoutAll", "changePassword", "request"} \subseteq Op \ {"cancelRequest"}
        BY DEF Op
      <3> QED BY <1>3 DEF logout, revokeSession, logoutAll, changePassword, createRequest,
                          VerifyAccess
    <2> QED BY <2>1, CalmStarts
  <1>4. CASE passwordResetConfirm(i)
    <2> DEFINE state == [Idle EXCEPT !.pc = "setPassword", !.op = "reset"]
    <2>1. Becomes(i, state)
      BY <1>4 DEF passwordResetConfirm, ConfirmPasswordReset
    <2>2. Quiet(state)
      BY IdleFields DEF Quiet, TxState
    <2> HIDE DEF state
    <2> QED BY <2>1, <2>2, QuietStep
  <1>5. CASE cancelRequest(i)
    <2> PICK q \in Req :
           /\ requests[q] # None
           /\ Becomes(i, [Idle EXCEPT !.pc = "cancelRow", !.op = "cancelRequest", !.rid = q])
      BY <1>5 DEF cancelRequest
    <2> DEFINE state == [Idle EXCEPT !.pc = "cancelRow", !.op = "cancelRequest", !.rid = q]
    <2>1. /\ state.pc = "cancelRow" /\ state.op = "cancelRequest" /\ state.rid = q
          /\ state.outcome = None /\ state.status = None
      BY IdleFields DEF TxState
    <2>2. Becomes(i, state)
      OBVIOUS
    <2> HIDE DEF state
    <2>3. ~Scheduled(q)
      BY <1>5 DEF cancelRequest, VerifyAccess, CalmInv
    <2>4. Expects(state)
      BY <2>1, <2>3, SessionsAssumption DEF Expects, Status, Outcome
    <2> QED BY <2>2, <2>4, CalmHandler DEF Becomes
  <1>6. ~deactivate(i) /\ ~suspend(i) /\ ~reinstate(i)
    BY DEF Calm, deactivate, suspend, reinstate, Calls
  <1> QED BY <1>1, <1>2, <1>3, <1>4, <1>5, <1>6 DEF Arrive


LEMMA CalmRefresh ==
  ASSUME SessionsInv, CalmInv, NEW i \in Tx, Refresh(i)
  PROVE  CalmInv'
  <1> DEFINE x == {<<"session", tx[i].sid>>}
             sweep == [tx[i] EXCEPT !.pc = "sweep", !.op = "reuse", !.x = x]
             rotate == [tx[i] EXCEPT !.pc = "rotate", !.x = x]
  <1>1. tx[i].pc = "lockSession" /\ tx[i] \in TxState /\ Knows(tx[i]) /\ Expects(tx[i])
    BY DEF Refresh, SessionsInv, TypeOK, CalmInv
  <1>2. tx[i].outcome = None /\ tx[i].status = None
    BY <1>1 DEF Knows, Fresh
  <1>3. Rollback(i) \/ Becomes(i, sweep) \/ Becomes(i, rotate)
    BY Zenon DEF Refresh
  <1> HIDE DEF x
  <1>4. Quiet(sweep)
    BY <1>1, <1>2 DEF Quiet, TxState
  <1>5. Quiet(rotate)
    BY <1>1, <1>2 DEF Quiet, TxState, Expects
  <1> HIDE DEF sweep, rotate
  <1> QED BY <1>3, <1>4, <1>5, QuietStep, CalmRollback

(* A sweep carries on with what its handler has decided.                   *)
LEMMA CarriesOn ==
  ASSUME SessionsInv, CalmInv, NEW i \in Tx, NEW state, Becomes(i, state),
         tx[i].pc \in {"setPassword", "sweep", "sweepRow"},
         state.pc \in {"sweep", "sweepRow", "eraseUser", "commit"},
         state.op = tx[i].op, state.rid = tx[i].rid,
         state.outcome = tx[i].outcome, state.status = tx[i].status
  PROVE  CalmInv'
  <1>1. Expects(tx[i])
    BY DEF CalmInv
  <1>2. Expects(state)
    BY <1>1 DEF Expects
  <1> QED BY <1>2, CalmHandler DEF Becomes

LEMMA CalmSweep ==
  ASSUME SessionsInv, CalmInv, NEW i \in Tx,
         UpdatePassword(i) \/ FindSessions(i) \/ \E s \in Sid : SweepRow(i, s)
  PROVE  CalmInv'
  <1>1. tx[i] \in TxState
    BY DEF SessionsInv, TypeOK
  <1>2. CASE UpdatePassword(i)
    <2> DEFINE state == [tx[i] EXCEPT !.pc = "sweep"]
    <2>1. Becomes(i, state) /\ tx[i].pc = "setPassword"
      BY <1>2 DEF UpdatePassword
    <2>2. /\ state.pc = "sweep" /\ state.op = tx[i].op /\ state.rid = tx[i].rid
          /\ state.outcome = tx[i].outcome /\ state.status = tx[i].status
      BY <1>1 DEF TxState
    <2> HIDE DEF state
    <2> QED BY <2>1, <2>2, CarriesOn
  <1>3. CASE FindSessions(i)
    <2> DEFINE found == {s \in Sid : Matches(tx[i], s) /\ InScope(tx[i], s)}
               fams == {sessions[s].family : s \in {r \in Sid : Stored(r) /\ InScope(tx[i], r)}}
               pc == IF found = {} THEN AfterSweep(tx[i]) ELSE "sweepRow"
               state == [tx[i] EXCEPT !.pc = pc, !.todo = found, !.fams = fams]
    <2>1. Becomes(i, state) /\ tx[i].pc = "sweep"
      BY <1>3 DEF FindSessions
    <2>2. pc \in {"sweepRow", "eraseUser", "commit"}
      BY DEF AfterSweep
    <2> HIDE DEF found, fams, pc
    <2>3. /\ state.pc = pc /\ state.op = tx[i].op /\ state.rid = tx[i].rid
          /\ state.outcome = tx[i].outcome /\ state.status = tx[i].status
      BY <1>1 DEF TxState
    <2> HIDE DEF state
    <2> QED BY <2>1, <2>2, <2>3, CarriesOn
  <1>4. ASSUME NEW s \in Sid, SweepRow(i, s) PROVE CalmInv'
    <2> DEFINE pc == IF tx[i].todo = {s} THEN AfterSweep(tx[i]) ELSE "sweepRow"
               todo == tx[i].todo \ {s}
               swept == IF Matches(tx[i], s) THEN tx[i].swept \cup {s} ELSE tx[i].swept
               x == tx[i].x \cup {<<"session", s>>}
               state == [tx[i] EXCEPT !.pc = pc, !.todo = todo, !.swept = swept, !.x = x]
    <2>1. Becomes(i, state) /\ tx[i].pc = "sweepRow"
      BY <1>4 DEF SweepRow
    <2>2. pc \in {"sweepRow", "eraseUser", "commit"}
      BY DEF AfterSweep
    <2> HIDE DEF pc, todo, swept, x
    <2>3. /\ state.pc = pc /\ state.op = tx[i].op /\ state.rid = tx[i].rid
          /\ state.outcome = tx[i].outcome /\ state.status = tx[i].status
      BY <1>1 DEF TxState
    <2> HIDE DEF state
    <2> QED BY <2>1, <2>2, <2>3, CarriesOn
  <1> QED BY <1>2, <1>3, <1>4

LEMMA CalmErasure ==
  ASSUME SessionsInv, CalmInv, NEW i \in Tx, runErasures(i) \/ Recheck(i) \/ eraseAccount(i)
  PROVE  CalmInv'
  <1>1. tx[i] \in TxState /\ Knows(tx[i]) /\ Expects(tx[i])
    BY DEF SessionsInv, TypeOK, CalmInv
  <1>2. CASE runErasures(i)
    <2> PICK q \in Req : RunDueErasures(i, q)
      BY <1>2 DEF runErasures
    <2> DEFINE state == [Idle EXCEPT !.pc = "recheck", !.op = "erase", !.rid = q]
    <2>1. Becomes(i, state)
      BY DEF RunDueErasures
    <2>2. Quiet(state)
      BY IdleFields DEF Quiet, TxState
    <2> HIDE DEF state
    <2> QED BY <2>1, <2>2, QuietStep
  <1>3. CASE Recheck(i)
    <2> DEFINE x == {<<"request", tx[i].rid>>}
               state == [tx[i] EXCEPT !.pc = "sweep", !.x = x]
    <2>1. (Rollback(i) \/ Becomes(i, state)) /\ tx[i].pc = "recheck"
      BY <1>3, Zenon DEF Recheck
    <2>2. tx[i].op = "erase" /\ tx[i].outcome = None /\ tx[i].status = None
      BY <1>1, <2>1 DEF Knows, Fresh
    <2> HIDE DEF x
    <2>3. Quiet(state)
      BY <1>1, <2>2 DEF Quiet, TxState
    <2> HIDE DEF state
    <2> QED BY <2>1, <2>3, QuietStep, CalmRollback
  <1>4. CASE eraseAccount(i)
    <2> DEFINE x == tx[i].x \cup {<<"user">>, <<"key">>}
               state == [tx[i] EXCEPT !.pc = "commit", !.status = "erased",
                                      !.outcome = "completed", !.x = x]
    <2>1. Becomes(i, state) /\ tx[i].op = "erase"
      BY <1>1, <1>4 DEF eraseAccount, Knows
    <2> HIDE DEF x
    <2>2. /\ state.pc = "commit" /\ state.op = "erase"
          /\ state.outcome = "completed" /\ state.status = "erased"
      BY <1>1, <2>1 DEF TxState
    <2> HIDE DEF state
    <2>3. Expects(state)
      BY <2>2 DEF Expects
    <2> QED BY <2>1, <2>3, CalmHandler DEF Becomes
  <1> QED BY <1>2, <1>3, <1>4

LEMMA CalmRequest ==
  ASSUME SessionsInv, CalmInv, NEW i \in Tx,
         (\E q \in Req : CreateRequest(i, q)) \/ LockAccount(i)
  PROVE  CalmInv'
  <1>1. tx[i] \in TxState /\ Knows(tx[i]) /\ Expects(tx[i])
    BY DEF SessionsInv, TypeOK, CalmInv
  <1>2. ASSUME NEW q \in Req, CreateRequest(i, q) PROVE CalmInv'
    <2> DEFINE state == [tx[i] EXCEPT !.pc = "lockAccount", !.rid = q, !.outcome = "scheduled"]
    <2>1. /\ tx[i].pc = "insert"
          /\ \/ Rollback(i)
             \/ NoneScheduled /\ Becomes(i, state)
      BY <1>2, Zenon DEF CreateRequest, NoneScheduled
    <2>2. /\ state.pc = "lockAccount" /\ state.op = tx[i].op /\ state.rid = q
          /\ state.outcome = "scheduled" /\ state.status = tx[i].status
      BY <1>1 DEF TxState
    <2> HIDE DEF state
    <2>3. tx[i].status = None /\ tx[i].op # "cancelRequest" /\ status # "absent"
      BY <1>1, <2>1 DEF Knows, Fresh, Expects
    <2>4. NoneScheduled => Expects(state)
      BY <2>2, <2>3, SessionsAssumption DEF Expects, Status
    <2> QED BY <2>1, <2>4, CalmHandler, CalmRollback DEF Becomes
  <1>3. CASE LockAccount(i)
    <2> DEFINE x == {<<"user">>}
               locked == [tx[i] EXCEPT !.pc = "sweep", !.status = "deactivated", !.x = x]
               passed == [tx[i] EXCEPT !.pc = "sweep"]
    <2>1. /\ tx[i].pc = "lockAccount"
          /\ \/ Becomes(i, locked)
             \/ status # "active" /\ Becomes(i, passed)
      BY <1>3, Zenon DEF LockAccount
    <2>2. /\ tx[i].outcome = "scheduled" /\ tx[i].status = None /\ NoneScheduled
          /\ status # "absent"
      BY <1>1, <2>1 DEF Knows, Fresh, Expects
    <2>3. status # "active" => status = "erased"
      BY <2>2 DEF CalmInv, SessionsInv, TypeOK, Status
    <2> HIDE DEF x
    <2>4. /\ locked.pc = "sweep" /\ locked.op = tx[i].op /\ locked.rid = tx[i].rid
          /\ locked.outcome = "scheduled" /\ locked.status = "deactivated"
          /\ passed.pc = "sweep" /\ passed.op = tx[i].op /\ passed.rid = tx[i].rid
          /\ passed.outcome = "scheduled" /\ passed.status = None
      BY <1>1, <2>2 DEF TxState
    <2> HIDE DEF locked, passed
    <2>5. Expects(locked)
      BY <1>1, <2>2, <2>4 DEF Expects
    <2>6. status # "active" => Expects(passed)
      BY <1>1, <2>2, <2>3, <2>4, SessionsAssumption DEF Expects, Status
    <2> QED BY <2>1, <2>5, <2>6, CalmHandler DEF Becomes
  <1> QED BY <1>2, <1>3

LEMMA CalmNewSession ==
  ASSUME SessionsInv, CalmInv, NEW i \in Tx,
         \E s \in Sid : insertSession(i, s) \/ Rotate(i, s)
  PROVE  CalmInv'
  <1>1. tx' = [tx EXCEPT ![i] = Idle] /\ UNCHANGED <<status, requests>>
    BY DEF insertSession, Rotate
  <1> QED BY <1>1, QuietIdle, QuietExpects, CalmHandler

LEMMA CalmRegister ==
  ASSUME SessionsInv, CalmInv, NEW i \in Tx, Register(i)
  PROVE  CalmInv'
  <1>1. /\ status = "absent" /\ status' = "active" /\ tx' = [tx EXCEPT ![i] = Issuing]
        /\ requests' = requests
    BY DEF Register, Create
  <1>2. NoneScheduled
    BY <1>1 DEF CalmInv, NoneScheduled
  <1>3. tx'[i] = Issuing /\ \A j \in Tx : j # i => tx'[j] = tx[j]
    BY <1>1 DEF SessionsInv, TypeOK
  <1>4. ASSUME NEW j \in Tx PROVE Expects(tx[j])'
    <2> PICK t : t = tx'[j]
      OBVIOUS
    <2>1. Expects(t)
      BY <1>3, QuietIdle, QuietExpects DEF CalmInv
    <2>2. Expects(t)'
      BY <1>1, <1>2, <2>1 DEF Expects, NoneScheduled, Scheduled
    <2> QED BY <2>2 DEF Expects
  <1> QED BY <1>1, <1>2, <1>4 DEF CalmInv, NoneScheduled, Scheduled


LEMMA CalmCommit ==
  ASSUME SessionsInv, CalmInv, NEW i \in Tx, Commit(i)
  PROVE  CalmInv'
  <1> PICK t \in TxState : t = tx[i]
    BY DEF SessionsInv, TypeOK
  <1>1. /\ Knows(t) /\ Expects(t) /\ t.pc = "commit"
        /\ status' = IF t.status # None THEN t.status ELSE status
        /\ tx' = [tx EXCEPT ![i] = AfterCommit(t)]
    BY DEF SessionsInv, CalmInv, Commit
  <1>2. tx'[i] = AfterCommit(t) /\ \A j \in Tx : j # i => tx'[j] = tx[j]
    BY <1>1 DEF SessionsInv, TypeOK
  <1>3. \A q \in Req : requests'[q] # requests[q] =>
           /\ q = t.rid /\ requests'[q] # None /\ requests'[q].status = t.outcome
           /\ \/ t.outcome = "scheduled" /\ requests[q] = None
              \/ t.outcome \in {"cancelled", "completed"} /\ Scheduled(q)
    BY CommitRequests, SessionsAssumption
  <1>4. t.outcome # "scheduled" => \A q \in Req : Scheduled(q)' => Scheduled(q)
    BY <1>3 DEF Scheduled
  <1>5. \A q \in Req : requests[q] # None /\ ~Scheduled(q) => requests'[q] = requests[q]
    BY <1>3
  (* Someone else's decision waits for the lock on the account.            *)
  <1>6. ASSUME NEW j \in Tx, j # i
        PROVE  /\ Knows(tx[j]) /\ Expects(tx[j])
               /\ t.status # None => tx[j].status = None
               /\ t.outcome = "scheduled" => tx[j].outcome # "scheduled"
    <2>1. tx[i].x \cap tx[j].x = {} /\ Knows(tx[j]) /\ Expects(tx[j])
      BY <1>6 DEF SessionsInv, Exclusive, CalmInv
    <2>2. t.status # None => tx[j].status = None
      BY <1>1, <2>1 DEF Knows
    <2>3. t.outcome = "scheduled" => tx[j].outcome # "scheduled"
      BY <1>6 DEF SessionsInv, OneScheduling
    <2> QED BY <2>1, <2>2, <2>3
  <1>7. ASSUME NEW j \in Tx, j # i,
               tx[j].outcome = "scheduled" => NoneScheduled',
               tx[j].outcome = "scheduled" /\ tx[j].pc # "lockAccount" =>
                  tx[j].status = "deactivated" \/ status' = "erased",
               tx[j].pc \in {"insert", "lockAccount"} => status' # "absent",
               tx[j].status = "active" /\ tx[j].pc \in {"cancelRow", "commit"} =>
                  \A q \in Req : Scheduled(q)' => Scheduled(q)
        PROVE  Expects(tx[j])'
    <2> PICK u : u = tx[j]
      OBVIOUS
    <2>1. Knows(u) /\ Expects(u) /\ tx'[j] = u
      BY <1>2, <1>6, <1>7
    <2>2. u.op = "cancelRequest" => requests'[u.rid] # None /\ ~Scheduled(u.rid)'
      BY <1>5, <2>1 DEF Expects, Scheduled
    <2>3. u.status = "active" /\ u.pc \in {"cancelRow", "commit"} =>
             \A q \in Req : Scheduled(q)' =>
                 q = u.rid /\ (u.pc = "commit" => u.outcome = "cancelled")
      BY <1>7, <2>1 DEF Expects
    <2>4. Expects(u)'
      BY <1>7, <2>1, <2>2, <2>3 DEF Expects
    <2> QED BY <2>1, <2>4
  <1>8. Expects(tx[i])'
    <2>1. PICK after : after = AfterCommit(t) /\ Quiet(after) /\ after.op # "cancelRequest"
      BY QuietIdle, IdleFields, IssuingFields, SessionsAssumption DEF AfterCommit, Op
    <2>2. Expects(after)'
      BY <2>1, SessionsAssumption DEF Quiet, Expects, Status, Outcome
    <2> QED BY <1>2, <2>1, <2>2
  <1>9. CASE t.status = None
    <2>1. status' = status /\ t.outcome \in {None, "scheduled"}
      BY <1>1, <1>9, SessionsAssumption, TxFields DEF Knows, Expects, Outcome, Status
    <2>2. t.outcome = "scheduled" => status = "erased" /\ NoneScheduled
      BY <1>1, <1>9, SessionsAssumption DEF Expects, Status
    <2>3. t.outcome = None => requests' = requests
      BY <2>1, SessionsAssumption DEF Commit, Outcome
    <2>4. ASSUME NEW j \in Tx, j # i PROVE Expects(tx[j])'
      <3>1. CASE t.outcome = None
        BY <1>6, <1>7, <2>1, <2>3, <2>4, <3>1 DEF Expects, NoneScheduled, Scheduled
      <3>2. CASE t.outcome = "scheduled"
        <4>1. tx[j].status # "active"
          BY <1>6, <2>2, <2>4, <3>2, SessionsAssumption DEF Knows, Status
        <4> QED BY <1>6, <1>7, <2>1, <2>2, <2>4, <3>2, <4>1 DEF Expects
      <3> QED BY <2>1, <3>1, <3>2
    <2>5. CASE t.outcome = None
      BY <1>8, <2>1, <2>3, <2>4, <2>5 DEF CalmInv, NoneScheduled, Scheduled
    <2>6. CASE t.outcome = "scheduled"
      <3>1. \A q \in Req : Scheduled(q)' => q = t.rid
        BY <1>3, <2>2, <2>6 DEF NoneScheduled, Scheduled
      <3> QED BY <1>8, <2>1, <2>2, <2>4, <2>6, <3>1 DEF CalmInv
    <2> QED BY <2>1, <2>5, <2>6
  <1>10. CASE t.status = "active"
    <2>1. /\ status' = "active" /\ t.outcome # "scheduled" /\ status # "erased"
      BY <1>1, <1>10, SessionsAssumption DEF Knows, Expects, Status
    <2>2. NoneScheduled'
      <3> SUFFICES ASSUME NEW q \in Req, Scheduled(q)' PROVE FALSE
        BY DEF NoneScheduled
      <3>1. Scheduled(q) /\ q = t.rid /\ t.outcome = "cancelled"
        BY <1>1, <1>4, <1>10, <2>1 DEF Expects
      <3>2. requests' = [requests EXCEPT ![t.rid].status = "cancelled"]
        BY <3>1, SessionsAssumption DEF Commit, Outcome
      <3>3. requests \in [Req -> Request \cup {None}] /\ requests[q] # None
        BY <3>1 DEF Scheduled, SessionsInv, TypeOK
      <3> QED BY <3>1, <3>2, <3>3 DEF Scheduled, Request
    <2>3. ASSUME NEW j \in Tx, j # i PROVE Expects(tx[j])'
      BY <1>4, <1>6, <1>7, <1>10, <2>1, <2>2, <2>3, SessionsAssumption DEF Expects, Status
    <2> QED BY <1>8, <2>1, <2>2, <2>3 DEF CalmInv, NoneScheduled
  <1>11. CASE t.status = "deactivated"
    <2>1. /\ status' = "deactivated" /\ t.outcome = "scheduled" /\ status # "erased"
          /\ NoneScheduled /\ t.rid \in Req
      BY <1>1, <1>11, SessionsAssumption DEF Knows, Expects, Status, Outcome
    <2>2. \A q \in Req : Scheduled(q)' => q = t.rid
      BY <1>3, <2>1 DEF NoneScheduled, Scheduled
    <2>3. Scheduled(t.rid)'
      <3>1. requests' = [requests EXCEPT ![t.rid] =
                            [status |-> "scheduled", due |-> now + Grace]]
        BY <2>1, SessionsAssumption DEF Commit, Outcome
      <3>2. [status |-> "scheduled", due |-> now + Grace] \in Request
        BY SessionsAssumption DEF SessionsInv, TypeOK, Request, Outcome
      <3> QED BY <2>1, <3>1, <3>2, SessionsAssumption DEF SessionsInv, TypeOK, Scheduled
    <2>4. ASSUME NEW j \in Tx, j # i PROVE Expects(tx[j])'
      BY <1>6, <1>7, <1>11, <2>1, <2>4, SessionsAssumption DEF Expects, Status
    <2> QED BY <1>8, <2>1, <2>2, <2>3, <2>4 DEF CalmInv, NoneScheduled
  <1>12. CASE t.status = "erased"
    <2>1. status' = "erased" /\ t.outcome = "completed"
      BY <1>1, <1>12, SessionsAssumption DEF Knows, Status
    <2>2. \A q \in Req : Scheduled(q)' => Scheduled(q)
      BY <1>4, <2>1
    <2>3. ASSUME NEW j \in Tx, j # i PROVE Expects(tx[j])'
      BY <1>6, <1>7, <1>12, <2>1, <2>2, <2>3, SessionsAssumption
         DEF Expects, NoneScheduled, Status
    <2> QED BY <1>8, <2>1, <2>2, <2>3 DEF CalmInv, NoneScheduled
  <1> QED BY <1>1, <1>9, <1>10, <1>11, <1>12, TxFields DEF Expects, Status

LEMMA CalmInit == Init => CalmInv
  <1> SUFFICES ASSUME Init PROVE CalmInv
    OBVIOUS
  <1>1. NoneScheduled /\ status = "absent"
    BY DEF Init, NoneScheduled, Scheduled
  <1>2. \A i \in Tx : Expects(tx[i])
    BY QuietIdle, QuietExpects DEF Init
  <1> QED BY <1>1, <1>2 DEF CalmInv, NoneScheduled

LEMMA CalmNext ==
  ASSUME Calm, SessionsInv, CalmInv, [Next]_vars
  PROVE  CalmInv'
  <1>1. ASSUME NEW i \in Tx, Arrive(i) PROVE CalmInv'
    BY <1>1, CalmArrive, CalmRegister DEF register
  <1>2. ASSUME NEW i \in Tx, Proceed(i) PROVE CalmInv'
    <2>1. ~SetStatus(i)
      BY DEF CalmInv, Expects, SetStatus
    <2>2. CASE Reactivate(i) \/ FindScheduled(i) \/ CancelOnSignIn(i) \/ Refresh(i)
      BY <2>2, CalmReactivate, CalmFindScheduled, CalmCancel, CalmRefresh
    <2>3. CASE UpdatePassword(i) \/ FindSessions(i) \/ \E s \in Sid : SweepRow(i, s)
      BY <2>3, CalmSweep
    <2>4. CASE \E s \in Sid : insertSession(i, s) \/ Rotate(i, s)
      BY <2>4, CalmNewSession
    <2>5. CASE (\E q \in Req : CreateRequest(i, q)) \/ LockAccount(i)
      BY <2>5, CalmRequest
    <2>6. CASE runErasures(i) \/ Recheck(i) \/ eraseAccount(i)
      BY <2>6, CalmErasure
    <2>7. CASE Commit(i)
      BY <2>7, CalmCommit
    <2> QED BY <1>2, <2>1, <2>2, <2>3, <2>4, <2>5, <2>6, <2>7 DEF Proceed
  <1>3. ASSUME NEW i \in Tx, ConnectionLost(i) \/ DeadlockAbort(i) PROVE CalmInv'
    BY <1>3, CalmRollback DEF ConnectionLost, DeadlockAbort
  <1>4. CASE UNCHANGED <<status, requests, tx>>
    BY <1>4 DEF CalmInv, Expects, NoneScheduled, Scheduled
  <1> QED BY <1>1, <1>2, <1>3, <1>4 DEF Next, Tick, vars

(* With no suspension, reinstatement or deactivation by hand, no session   *)
(* lets its owner in while an erasure of the account is scheduled: signing *)
(* in has cancelled it (Login, CancelOnSignIn, privacy.CreateRequest).     *)
THEOREM SignInCancels == ASSUME Calm PROVE Spec => []SignInWins
  <1>1. Init => CalmInv
    BY CalmInit
  <1>2. SessionsInv /\ CalmInv /\ [Next]_vars => CalmInv'
    BY CalmNext
  <1>3. CalmInv => SignInWins
    BY DEF CalmInv, SignInWins, VerifyAccess
  <1> QED BY <1>1, <1>2, <1>3, SessionsKept, PTL DEF Spec


================================================================================
