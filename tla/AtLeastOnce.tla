------------------------------ MODULE AtLeastOnce ------------------------------
(***************************************************************************)
(* What the notification outbox promises (internal/notifications): every   *)
(* event it accepts is passed to the push service until a send succeeds,   *)
(* or until MaxAttempts sends have failed; it may be sent more than once.  *)
(***************************************************************************)
EXTENDS Naturals

CONSTANTS Event, MaxAttempts

VARIABLES
    state,          \* of each event
    failures,       \* sends of each event that failed, counted to MaxAttempts
    reached         \* events of which a send succeeded

vars == <<state, failures, reached>>

Init ==
    /\ state = [e \in Event |-> "absent"]
    /\ failures = [e \in Event |-> 0]
    /\ reached = {}

Accept(e) ==
    /\ state[e] = "absent"
    /\ state' = [state EXCEPT ![e] = "pending"]
    /\ UNCHANGED <<failures, reached>>

Succeed(e) ==
    /\ state[e] # "absent"
    /\ reached' = reached \cup {e}
    /\ UNCHANGED <<state, failures>>

Fail(e) ==
    /\ state[e] # "absent"
    /\ failures[e] < MaxAttempts
    /\ failures' = [failures EXCEPT ![e] = @ + 1]
    /\ UNCHANGED <<state, reached>>

Settle(e) ==
    /\ state[e] = "pending"
    /\ e \in reached \/ failures[e] = MaxAttempts
    /\ state' = [state EXCEPT ![e] = "done"]
    /\ UNCHANGED <<failures, reached>>

(* The account is erased, its notifications with it.                        *)
Withdraw(E) ==
    /\ state' = [e \in Event |-> IF e \in E THEN "withdrawn" ELSE state[e]]
    /\ UNCHANGED <<failures, reached>>

Next ==
    \/ \E e \in Event : Accept(e) \/ Succeed(e) \/ Fail(e) \/ Settle(e)
    \/ \E E \in SUBSET Event : Withdraw(E)

Spec == Init /\ [][Next]_vars
===============================================================================
