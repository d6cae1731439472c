------------------------------- MODULE Sessions -------------------------------
(***************************************************************************)
(* One account: its status, its sessions and its erasure requests, and the *)
(* handlers that change them (internal/auth/service.go, SuspendUser and    *)
(* ReinstateUser of internal/admin, internal/privacy), statement by        *)
(* statement under PostgreSQL READ COMMITTED (external, as in ReviewTx):   *)
(*                                                                         *)
(*  - an UPDATE or DELETE over several rows finds them in the snapshot of  *)
(*    its start, then locks them one by one and looks again at each: rows  *)
(*    committed since the start are not found;                             *)
(*  - a SELECT ... FOR UPDATE looks again only at the row it locked;        *)
(*  - erasure rewrites the unique email of the users row, so it also locks *)
(*    the row's key, for which a new session's foreign key waits.          *)
(*                                                                         *)
(* A handler is a sequence of transactions; Ops says which handlers run.   *)
(***************************************************************************)
EXTENDS Integers, FiniteSets

CONSTANTS
    Sid,            \* ids of rows of auth_sessions
    Req,            \* ids of rows of data_erasure_requests
    Tx,             \* connection slots
    None, Gone,     \* a row not yet inserted; a row deleted
    Ops,            \* the handlers that run
    RefreshTTL, MaxLifetime, Grace,     \* in clock ticks
    MaxNow          \* bound on the clock

VARIABLES
    status,     \* users.status, "absent" before the account is registered
    sessions,   \* committed rows of auth_sessions
    requests,   \* committed rows of data_erasure_requests
    now,        \* the clock
    ended,      \* history: families a completed sign-out was to end
    tx          \* the handler each slot runs

vars == <<status, sessions, requests, now, ended, tx>>

Status == {"absent", "active", "suspended", "deactivated", "erased"}

Session == [family: Sid, replaced: BOOLEAN, revoked: BOOLEAN,
            started: Nat, expires: Nat]

Outcome == {"scheduled", "cancelled", "completed"}

Request == [status: Outcome, due: Nat]

Op == {"register", "login", "refresh", "reuse", "logout", "revokeSession", "logoutAll",
       "reset", "changePassword", "deactivate", "suspend", "reinstate",
       "request", "cancelRequest", "erase"}

PC == {"idle", "reactivate", "cancel", "cancelRow", "issue", "lockSession", "rotate",
       "setPassword", "setStatus", "insert", "lockAccount", "recheck", "sweep", "sweepRow",
       "eraseUser", "commit"}

Row == {<<"user">>, <<"key">>} \cup ({"session"} \X Sid) \cup ({"request"} \X Req)

TxState == [pc: PC, op: Op \cup {None},
            sid: Sid \cup {None},           \* session presented or signed out
            active: BOOLEAN,                \* users.status a refresh read
            rid: Req \cup {None},           \* erasure request
            outcome: Outcome \cup {None},   \* uncommitted status of rid
            status: Status \cup {None},     \* uncommitted users.status
            todo: SUBSET Sid,               \* rows the sweep has found
            swept: SUBSET Sid,              \* rows it has revoked or deleted
            fams: SUBSET Sid,               \* families it is to end
            x: SUBSET Row]                  \* exclusive row locks

Idle == [pc |-> "idle", op |-> None, sid |-> None, active |-> FALSE,
         rid |-> None, outcome |-> None, status |-> None,
         todo |-> {}, swept |-> {}, fams |-> {}, x |-> {}]

ASSUME SessionsAssumption ==
    /\ Ops \subseteq Op
    /\ RefreshTTL \in Nat /\ MaxLifetime \in Nat /\ Grace \in Nat
    /\ MaxNow \in Nat
    /\ None \notin Session \cup Request \cup Sid \cup Req \cup Op \cup Status \cup Outcome
    /\ Gone \notin Session \cup {None}

TypeOK ==
    /\ status \in Status
    /\ sessions \in [Sid -> Session \cup {None, Gone}]
    /\ requests \in [Req -> Request \cup {None}]
    /\ now \in Nat
    /\ ended \subseteq Sid
    /\ tx \in [Tx -> TxState]

Init ==
    /\ status = "absent"
    /\ sessions = [s \in Sid |-> None]
    /\ requests = [q \in Req |-> None]
    /\ now = 0
    /\ ended = {}
    /\ tx = [i \in Tx |-> Idle]

-------------------------------------------------------------------------------
(* Rows and locks.                                                         *)

Stored(s) == sessions[s] \notin {None, Gone}

Unrevoked(s) == Stored(s) /\ ~sessions[s].revoked

VerifyAccess(s) == Unrevoked(s) /\ now < sessions[s].expires /\ status = "active"

Scheduled(q) == requests[q] # None /\ requests[q].status = "scheduled"

CanLock(i, row) == \A j \in Tx \ {i} : row \notin tx[j].x

Becomes(i, state) ==
    /\ tx' = [tx EXCEPT ![i] = state]
    /\ UNCHANGED <<status, sessions, requests, now, ended>>

Rollback(i) == Becomes(i, Idle)

Issuing == [Idle EXCEPT !.pc = "issue", !.op = "login"]

(* A login goes on to insert its session.                                  *)
AfterCommit(t) == IF t.op = "login" THEN Issuing ELSE Idle

Commit(i) ==
    LET t == tx[i]
    IN  /\ t.pc = "commit"
        /\ status' = IF t.status # None THEN t.status ELSE status
        /\ sessions' = [s \in Sid |->
               IF s \notin t.swept THEN sessions[s]
               ELSE IF t.op = "erase" THEN Gone
               ELSE [sessions[s] EXCEPT !.revoked = TRUE]]
        /\ requests' = CASE t.outcome = None -> requests
                         [] t.outcome = "scheduled" ->
                                [requests EXCEPT ![t.rid] =
                                    [status |-> "scheduled", due |-> now + Grace]]
                         [] OTHER -> [requests EXCEPT ![t.rid].status = t.outcome]
        /\ ended' = ended \cup t.fams
        /\ tx' = [tx EXCEPT ![i] = AfterCommit(t)]
        /\ UNCHANGED now

(* The client goes away or the server stops: what is committed stays.      *)
ConnectionLost(i) ==
    /\ tx[i].pc # "idle"
    /\ Rollback(i)

(* Bound: every login or refresh under way has a row left to insert.       *)
RoomForSession ==
    Cardinality({i \in Tx : tx[i].op \in {"login", "refresh"}})
        < Cardinality({s \in Sid : sessions[s] = None})

(* Bound on requests: they fall due in time.                               *)
RoomForRequest ==
    /\ now + Grace <= MaxNow
    /\ Cardinality({i \in Tx : tx[i].op = "request"})
           < Cardinality({q \in Req : requests[q] = None})

-------------------------------------------------------------------------------
(* Registration and login. Create commits before the session is inserted;  *)
(* a second registration with the same email or phone is refused.          *)

Create ==
    /\ status = "absent"
    /\ status' = "active"

Register(i) ==
    /\ Create
    /\ tx' = [tx EXCEPT ![i] = Issuing]
    /\ UNCHANGED <<sessions, requests, now, ended>>

(* Login: read and verify, reactivate a deactivated account, insert.       *)
LoginRead(i) ==
    /\ status \in {"active", "deactivated"}
    /\ Becomes(i, IF status = "deactivated" THEN [Issuing EXCEPT !.pc = "reactivate"] ELSE Issuing)

(* Mutant: no users_contact_check.                                         *)
ReactivateAnyway(i) ==
    /\ tx[i].pc = "reactivate"
    /\ CanLock(i, <<"user">>)
    /\ Becomes(i, [tx[i] EXCEPT !.pc = "cancel", !.status = "active", !.x = {<<"user">>}])

(* users_contact_check keeps an erased account erased.                     *)
Reactivate(i) ==
    /\ tx[i].pc = "reactivate"
    /\ CanLock(i, <<"user">>)
    /\ IF status = "erased"
       THEN Rollback(i)
       ELSE Becomes(i, [tx[i] EXCEPT !.pc = "cancel", !.status = "active", !.x = {<<"user">>}])

(* Mutant: the sign-in does not look for a scheduled erasure.              *)
FindScheduledNever(i) ==
    /\ tx[i].pc = "cancel"
    /\ Becomes(i, [tx[i] EXCEPT !.pc = "commit"])

(* CancelOnSignIn: find the request, then look again once it is locked.    *)
FindScheduled(i) ==
    /\ tx[i].pc = "cancel"
    /\ \/ \E q \in Req : /\ Scheduled(q)
                         /\ Becomes(i, [tx[i] EXCEPT !.pc = "cancelRow", !.rid = q])
       \/ /\ \A q \in Req : ~Scheduled(q)
          /\ Becomes(i, [tx[i] EXCEPT !.pc = "commit"])

CancelOnSignIn(i) ==
    LET q == tx[i].rid
    IN  /\ tx[i].pc = "cancelRow"
        /\ CanLock(i, <<"request", q>>)
        /\ Becomes(i, [tx[i] EXCEPT !.pc = "commit",
                                    !.outcome = IF Scheduled(q) THEN "cancelled" ELSE None,
                                    !.x = @ \cup {<<"request", q>>}])

EarlierOf(a, b) == IF b < a THEN b ELSE a

insertSession(i, s) ==
    /\ tx[i].pc = "issue"
    /\ sessions[s] = None
    /\ CanLock(i, <<"key">>)
    /\ sessions' = [sessions EXCEPT ![s] =
           [family |-> s, replaced |-> FALSE, revoked |-> FALSE, started |-> now,
            expires |-> now + EarlierOf(RefreshTTL, MaxLifetime)]]
    /\ tx' = [tx EXCEPT ![i] = Idle]
    /\ UNCHANGED <<status, requests, now, ended>>

-------------------------------------------------------------------------------
(* Refresh: one statement finds the presented row with the account's       *)
(* status, then locks the row and looks again at the row alone; it is then *)
(* rotated, or its family ended.                                           *)

FindSession(i, s) ==
    /\ Stored(s)
    /\ Becomes(i, [Idle EXCEPT !.pc = "lockSession", !.op = "refresh", !.sid = s,
                               !.active = status = "active"])

(* Mutant: no FOR UPDATE.                                                  *)
RefreshUnlocked(i) ==
    LET row == sessions[tx[i].sid]
    IN  /\ tx[i].pc = "lockSession"
        /\ IF Unrevoked(tx[i].sid) /\ ~row.replaced /\ tx[i].active /\ now <= row.expires
           THEN Becomes(i, [tx[i] EXCEPT !.pc = "rotate"])
           ELSE Rollback(i)

Refresh(i) ==
    LET s == tx[i].sid
        row == sessions[s]
    IN  /\ tx[i].pc = "lockSession"
        /\ CanLock(i, <<"session", s>>)
        /\ \/ ~Stored(s) /\ Rollback(i)
           \/ /\ Stored(s) /\ (row.revoked \/ row.replaced)
              /\ Becomes(i, [tx[i] EXCEPT !.pc = "sweep", !.op = "reuse",
                                          !.x = {<<"session", s>>}])
           \/ /\ Unrevoked(s) /\ ~row.replaced
              /\ IF tx[i].active /\ now <= row.expires /\ now < row.started + MaxLifetime
                 THEN Becomes(i, [tx[i] EXCEPT !.pc = "rotate", !.x = {<<"session", s>>}])
                 ELSE Rollback(i)

(* Mutant: the lifetime slides with every refresh.                         *)
RotateSliding(i, new) ==
    LET s == tx[i].sid
    IN  /\ tx[i].pc = "rotate"
        /\ sessions[new] = None
        /\ CanLock(i, <<"key">>)
        /\ sessions' = [sessions EXCEPT
               ![s].replaced = TRUE,
               ![new] = [sessions[s] EXCEPT !.expires = now + RefreshTTL]]
        /\ tx' = [tx EXCEPT ![i] = Idle]
        /\ UNCHANGED <<status, requests, now, ended>>

(* Insert the new row, link the old one, commit.                           *)
Rotate(i, new) ==
    LET s == tx[i].sid
    IN  /\ tx[i].pc = "rotate"
        /\ sessions[new] = None
        /\ CanLock(i, <<"key">>)
        /\ sessions' = [sessions EXCEPT
               ![s].replaced = TRUE,
               ![new] = [sessions[s] EXCEPT
                   !.replaced = FALSE, !.revoked = FALSE,
                   !.expires = EarlierOf(now + RefreshTTL, sessions[s].started + MaxLifetime)]]
        /\ tx' = [tx EXCEPT ![i] = Idle]
        /\ UNCHANGED <<status, requests, now, ended>>

-------------------------------------------------------------------------------
(* A password reset, once its code is consumed, and the administrator's    *)
(* decisions.                                                              *)

ConfirmPasswordReset(i) ==
    /\ status \notin {"absent", "erased"}
    /\ Becomes(i, [Idle EXCEPT !.pc = "setPassword", !.op = "reset"])

(* The hash itself is not modelled.                                        *)
UpdatePassword(i) ==
    /\ tx[i].pc = "setPassword"
    /\ CanLock(i, <<"user">>)
    /\ Becomes(i, [tx[i] EXCEPT !.pc = "sweep"])

(* Deactivate: users_contact_check again.                                  *)
SetStatus(i) ==
    /\ tx[i].pc = "setStatus"
    /\ CanLock(i, <<"user">>)
    /\ IF status = "erased"
       THEN Rollback(i)
       ELSE /\ status' = "deactivated"
            /\ tx' = [tx EXCEPT ![i].pc = "sweep"]
            /\ UNCHANGED <<sessions, requests, now, ended>>

SuspendUser(i) ==
    /\ CanLock(i, <<"user">>)
    /\ status \notin {"absent", "erased"}
    /\ Becomes(i, [Idle EXCEPT !.pc = "sweep", !.op = "suspend",
                               !.status = "suspended", !.x = {<<"user">>}])

ReinstateUser(i) ==
    /\ CanLock(i, <<"user">>)
    /\ status \notin {"absent", "erased"}
    /\ status' = "active"
    /\ UNCHANGED <<sessions, requests, now, ended, tx>>

-------------------------------------------------------------------------------
(* Erasure.                                                                *)

(* The unique index on active requests makes the INSERT wait for requests  *)
(* being written.                                                          *)
CreateRequest(i, q) ==
    /\ tx[i].pc = "insert"
    /\ requests[q] = None
    /\ CanLock(i, <<"key">>)
    /\ \A j \in Tx \ {i} : tx[j].outcome = None
    /\ IF \E r \in Req : Scheduled(r)
       THEN Rollback(i)
       ELSE Becomes(i, [tx[i] EXCEPT !.pc = "lockAccount", !.rid = q,
                                     !.outcome = "scheduled"])

(* UPDATE users ... AND status = 'active'.                                 *)
LockAccount(i) ==
    /\ tx[i].pc = "lockAccount"
    /\ IF status = "active"
       THEN /\ CanLock(i, <<"user">>)
            /\ Becomes(i, [tx[i] EXCEPT !.pc = "sweep", !.status = "deactivated",
                                        !.x = {<<"user">>}])
       ELSE Becomes(i, [tx[i] EXCEPT !.pc = "sweep"])

(* RunDueErasures lists what is due, then takes each under its lock.       *)
RunDueErasures(i, q) ==
    /\ Scheduled(q)
    /\ requests[q].due <= now
    /\ Becomes(i, [Idle EXCEPT !.pc = "recheck", !.op = "erase", !.rid = q])

(* Mutant: the request is not looked at again.                             *)
RecheckNothing(i) ==
    LET q == tx[i].rid
    IN  /\ tx[i].pc = "recheck"
        /\ CanLock(i, <<"request", q>>)
        /\ Becomes(i, [tx[i] EXCEPT !.pc = "sweep", !.x = {<<"request", q>>}])

Recheck(i) ==
    LET q == tx[i].rid
    IN  /\ tx[i].pc = "recheck"
        /\ CanLock(i, <<"request", q>>)
        /\ IF Scheduled(q)
           THEN Becomes(i, [tx[i] EXCEPT !.pc = "sweep", !.x = {<<"request", q>>}])
           ELSE Rollback(i)

(* Mutant: the request is not completed.                                   *)
eraseAccountUnmarked(i) ==
    /\ tx[i].pc = "eraseUser"
    /\ CanLock(i, <<"user">>)
    /\ Becomes(i, [tx[i] EXCEPT !.pc = "commit", !.status = "erased",
                                !.x = @ \cup {<<"user">>, <<"key">>}])

eraseAccount(i) ==
    /\ tx[i].pc = "eraseUser"
    /\ CanLock(i, <<"user">>)
    /\ Becomes(i, [tx[i] EXCEPT !.pc = "commit", !.status = "erased", !.outcome = "completed",
                                !.x = @ \cup {<<"user">>, <<"key">>}])

-------------------------------------------------------------------------------
(* UPDATE auth_sessions SET revoked_at ..., or DELETE FROM auth_sessions.  *)

InScope(t, s) ==
    CASE t.op \in {"revokeSession", "reuse"} ->
             Stored(t.sid) /\ sessions[s].family = sessions[t.sid].family
      [] t.op = "changePassword" ->
             Stored(t.sid) /\ sessions[s].family # sessions[t.sid].family
      [] OTHER -> TRUE

Matches(t, s) == IF t.op = "erase" THEN Stored(s) ELSE Unrevoked(s)

AfterSweep(t) == IF t.op = "erase" THEN "eraseUser" ELSE "commit"

FindSessions(i) ==
    LET t == tx[i]
        found == {s \in Sid : Matches(t, s) /\ InScope(t, s)}
    IN  /\ t.pc = "sweep"
        /\ Becomes(i, [t EXCEPT
               !.pc = IF found = {} THEN AfterSweep(t) ELSE "sweepRow",
               !.todo = found,
               !.fams = {sessions[s].family : s \in {r \in Sid : Stored(r) /\ InScope(t, r)}}])

SweepRow(i, s) ==
    LET t == tx[i]
    IN  /\ t.pc = "sweepRow"
        /\ s \in t.todo
        /\ CanLock(i, <<"session", s>>)
        /\ Becomes(i, [t EXCEPT
               !.pc = IF t.todo = {s} THEN AfterSweep(t) ELSE "sweepRow",
               !.todo = @ \ {s},
               !.swept = IF Matches(t, s) THEN @ \cup {s} ELSE @,
               !.x = @ \cup {<<"session", s>>}])

-------------------------------------------------------------------------------
(* Lock cycles: a sweep waits for one of the rows it has still to lock.    *)

Requested(i) ==
    CASE tx[i].pc \in {"reactivate", "eraseUser"} -> {<<"user">>}
      [] tx[i].pc \in {"cancelRow", "recheck"} -> {<<"request", tx[i].rid>>}
      [] tx[i].pc = "rotate" -> {<<"key">>}
      [] tx[i].pc = "sweepRow" -> {<<"session", s>> : s \in tx[i].todo}
      [] OTHER -> {}

WaitsFor(i, j) == i # j /\ Requested(i) \cap tx[j].x # {}

DeadlockAbort(i) ==
    /\ \E D \in SUBSET Tx :
           /\ i \in D
           /\ \A j \in D : /\ \E k \in D : WaitsFor(j, k)
                           /\ \E k \in D : WaitsFor(k, j)
    /\ Rollback(i)

-------------------------------------------------------------------------------
(* The endpoints: a handler authenticates its caller, then calls a service *)
(* (web.RequireAuth, VerifyAccess).                                        *)

Calls(i, op) == op \in Ops /\ tx[i].pc = "idle"

Starts(i, op, pc, s) == Becomes(i, [Idle EXCEPT !.pc = pc, !.op = op, !.sid = s])

register(i) == Calls(i, "register") /\ RoomForSession /\ Register(i)

login(i) == Calls(i, "login") /\ RoomForSession /\ LoginRead(i)

refresh(i) == Calls(i, "refresh") /\ RoomForSession /\ \E s \in Sid : FindSession(i, s)

(* Logout and RevokeSession run the same statement.                        *)
logout(i) ==
    /\ Calls(i, "logout")
    /\ \E s \in Sid : VerifyAccess(s) /\ Starts(i, "revokeSession", "sweep", s)

revokeSession(i) ==
    /\ Calls(i, "revokeSession")
    /\ \E s \in Sid : VerifyAccess(s)
    /\ \E s \in Sid : Stored(s) /\ Starts(i, "revokeSession", "sweep", s)

logoutAll(i) ==
    /\ Calls(i, "logoutAll")
    /\ \E s \in Sid : VerifyAccess(s) /\ Starts(i, "logoutAll", "sweep", s)

passwordResetConfirm(i) == Calls(i, "reset") /\ ConfirmPasswordReset(i)

changePassword(i) ==
    /\ Calls(i, "changePassword")
    /\ \E s \in Sid : VerifyAccess(s) /\ Starts(i, "changePassword", "setPassword", s)

deactivate(i) ==
    /\ Calls(i, "deactivate")
    /\ \E s \in Sid : VerifyAccess(s) /\ Starts(i, "deactivate", "setStatus", s)

createRequest(i) ==
    /\ Calls(i, "request")
    /\ RoomForRequest
    /\ \E s \in Sid : VerifyAccess(s) /\ Starts(i, "request", "insert", s)

(* CancelRequest names a request its user was shown, and locks its row as  *)
(* CancelOnSignIn does.                                                    *)
cancelRequest(i) ==
    /\ Calls(i, "cancelRequest")
    /\ \E s \in Sid : VerifyAccess(s)
    /\ \E q \in Req :
           /\ requests[q] # None
           /\ Becomes(i, [Idle EXCEPT !.pc = "cancelRow", !.op = "cancelRequest", !.rid = q])

suspend(i) == Calls(i, "suspend") /\ SuspendUser(i)

reinstate(i) == Calls(i, "reinstate") /\ ReinstateUser(i)

(* The loop of cmd/api that carries out what is due.                       *)
runErasures(i) == Calls(i, "erase") /\ \E q \in Req : RunDueErasures(i, q)

-------------------------------------------------------------------------------
(* A handler lasts far less than a tick.                                   *)
Tick ==
    /\ now < MaxNow
    /\ \A i \in Tx : tx[i].pc = "idle"
    /\ now' = now + 1
    /\ UNCHANGED <<status, sessions, requests, ended, tx>>

Arrive(i) ==
    \/ register(i) \/ login(i) \/ refresh(i)
    \/ logout(i) \/ revokeSession(i) \/ logoutAll(i)
    \/ passwordResetConfirm(i) \/ changePassword(i) \/ deactivate(i)
    \/ createRequest(i) \/ cancelRequest(i)
    \/ suspend(i) \/ reinstate(i)

Proceed(i) ==
    \/ Reactivate(i)
    \/ FindScheduled(i)
    \/ CancelOnSignIn(i)
    \/ \E s \in Sid : insertSession(i, s)
    \/ Refresh(i)
    \/ \E s \in Sid : Rotate(i, s)
    \/ UpdatePassword(i)
    \/ SetStatus(i)
    \/ \E q \in Req : CreateRequest(i, q)
    \/ LockAccount(i)
    \/ runErasures(i)
    \/ Recheck(i)
    \/ eraseAccount(i)
    \/ FindSessions(i)
    \/ \E s \in Sid : SweepRow(i, s)
    \/ Commit(i)

Next ==
    \/ \E i \in Tx : \/ Arrive(i)
                     \/ Proceed(i)
                     \/ ConnectionLost(i)
                     \/ DeadlockAbort(i)
    \/ Tick

Spec == Init /\ [][Next]_vars

(* PostgreSQL grants a lock to the waiting in turn and its deadlock        *)
(* detector runs; cmd/api keeps listing what is due; from some time on a   *)
(* handler gives up only by its own code or as the victim of a lock cycle. *)
Fairness ==
    /\ SF_vars(\E i \in Tx : runErasures(i))
    /\ \A i \in Tx : /\ WF_vars(Proceed(i))
                     /\ SF_vars(CancelOnSignIn(i))
                     /\ SF_vars(Recheck(i))
                     /\ SF_vars(eraseAccount(i))
                     /\ WF_vars(DeadlockAbort(i))
    /\ <>[][\A i \in Tx : ConnectionLost(i) => Proceed(i) \/ DeadlockAbort(i)]_vars

FairSpec == Spec /\ Fairness

-------------------------------------------------------------------------------
(* Properties.                                                             *)

(* Rotation never forks a family: concurrent refreshes of one token leave  *)
(* at most one row that can be refreshed again (Refresh).                  *)
OneHead ==
    \A s, r \in Sid :
        /\ Unrevoked(s) /\ ~sessions[s].replaced
        /\ Unrevoked(r) /\ ~sessions[r].replaced
        /\ sessions[s].family = sessions[r].family
        => s = r

(* However often a family is refreshed, none of its rows lets anyone in    *)
(* once MaxLifetime has passed since its sign-in (Refresh, family_created_at). *)
LifetimeKept ==
    \A s \in Sid :
        VerifyAccess(s) /\ Stored(sessions[s].family)
            => now < sessions[sessions[s].family].started + MaxLifetime

(* The account is a tombstone exactly when an erasure was carried out:     *)
(* neither half is committed alone, and nothing brings the account back    *)
(* (RunDueErasures, Login, Deactivate, SuspendUser, ReinstateUser).        *)
Tombstone ==
    status = "erased" <=> \E q \in Req : requests[q] # None /\ requests[q].status = "completed"

(* An erasure is carried out only from a request still scheduled and due:  *)
(* one cancelled between the loop's list and its lock is skipped           *)
(* (RunDueErasures, CancelOnSignIn).                                       *)
OnlyWhenDue ==
    [][\A q \in Req :
        requests'[q] # requests[q] /\ requests'[q].status = "completed"
            => Scheduled(q) /\ requests[q].due <= now]_vars

(* Signing in cancels a scheduled erasure: no session lets its owner in    *)
(* while an erasure of the account is scheduled (Login).                   *)
SignInWins ==
    \A s \in Sid, q \in Req : VerifyAccess(s) => ~Scheduled(q)

(* A family that was to end has no usable row left once the handler that   *)
(* ends it has committed (Logout, RevokeSession, LogoutAll, Refresh).      *)
LogoutFinal ==
    \A s \in Sid : Unrevoked(s) => sessions[s].family \notin ended

(* A suspended account becomes active only by ReinstateUser.               *)
SuspensionHolds ==
    [][status = "suspended" /\ status' = "active" => \E i \in Tx : reinstate(i)]_vars

(* A due erasure is cancelled or carried out in the end, whatever lock     *)
(* cycles, sign-ins and lost connections come in between (RunDueErasures). *)
ErasureHappens ==
    \A q \in Req : Scheduled(q) /\ requests[q].due <= now ~> ~Scheduled(q)
===============================================================================
