-------------------------------- MODULE Catalog --------------------------------
(***************************************************************************)
(* The targets people review (internal/targets), what moderators decide    *)
(* about them and about reports on them (internal/moderation) and the      *)
(* merge of duplicates (internal/admin). Every request is one transaction  *)
(* under READ COMMITTED that locks the rows it decides about; what it      *)
(* wrote is seen when it commits, and it may be given up between any two   *)
(* statements. Of a target the place, the moderation status and the target *)
(* it was merged into are modelled; identifiers are numbers, which stand   *)
(* for the order of the uuids. Cities and areas are fixed.                 *)
(***************************************************************************)
EXTENDS Integers, Sequences, FiniteSets

CONSTANTS
    Target,
    User,           \* users who report
    City, Area,
    CityOf,         \* the city of each area
    Request,        \* requests in flight
    None,
    InitialTargets, \* the targets at the beginning
    MaxReports,     \* bound: reports filed
    MaxCalls        \* bound: requests received

VARIABLES
    targets,        \* review_targets: None until created
    reports,        \* reports on targets, and the decisions about each
    call,           \* the requests in flight
    calls

vars == <<targets, reports, call, calls>>

TargetStatus == {"pending", "published", "hidden", "removed", "merged"}
Decision == {"in_review", "resolved", "dismissed"}
Waiting == {"open", "in_review"}

TargetRow == [status: TargetStatus, into: Target \cup {None},
              city: City \cup {None}, area: Area \cup {None}]

ReportId == 1..MaxReports

Report == [by: User, target: Target, status: {"open"} \cup Decision,
           log: Seq(Decision)]      \* moderation_actions, and a notice each

Call == [pc: {"idle", "update", "decide", "file", "lockSecond", "moveReports", "merge",
              "resolve"},
         locked: SUBSET Target,     \* FOR UPDATE
         row: TargetRow \cup {None},        \* what the target becomes
         source: Target \cup {None}, destination: Target \cup {None},
         taken: SUBSET ReportId,    \* reports locked, or inserted
         by: User \cup {None},      \* who files
         decision: Decision \cup {None}]

Idle == [pc |-> "idle", locked |-> {}, row |-> None, source |-> None, destination |-> None,
         taken |-> {}, by |-> None, decision |-> None]

Places == {p \in (City \cup {None}) \X (Area \cup {None}) :
              p[2] # None => p[1] = CityOf[p[2]]}

ASSUME CatalogAssumption ==
    /\ Target \subseteq Int
    /\ CityOf \in [Area -> City]
    /\ None \notin City \cup Area \cup Target \cup TargetRow \cup Report
    /\ MaxReports \in Nat /\ MaxCalls \in Nat

(* Before the first request no target has been merged.                     *)
ASSUME InitialAssumption ==
    \A f \in InitialTargets :
        /\ f \in [Target -> TargetRow \cup {None}]
        /\ \A t \in Target : f[t] # None =>
              /\ f[t].status # "merged" /\ f[t].into = None
              /\ <<f[t].city, f[t].area>> \in Places

----------------------------------------------------------------------------
(* Rows, locks and calls.                                                  *)

Exists(t) == targets[t] # None
At(q, pc) == call[q].pc = pc

Locked(t) == \E q \in Request : t \in call[q].locked
Taken(i) == \E q \in Request : i \in call[q].taken

Becomes(q, state) == call' = [call EXCEPT ![q] = state]

Begin(q) ==
    /\ At(q, "idle")
    /\ calls < MaxCalls
    /\ calls' = calls + 1

ReadOnly == UNCHANGED <<targets, reports>>

(* An error or a lost connection rolls back.                               *)
GiveUp(q) ==
    /\ ~At(q, "idle")
    /\ Becomes(q, Idle)
    /\ UNCHANGED <<targets, reports, calls>>

----------------------------------------------------------------------------
(* Targets: create and move.                                               *)

(* What a moderator adds is published at once.                             *)
Create(q, t, p, autoPublish) ==
    /\ Begin(q)
    /\ ~Exists(t)
    /\ targets' = [targets EXCEPT ![t] =
          [status |-> IF autoPublish THEN "published" ELSE "pending", into |-> None,
           city |-> p[1], area |-> p[2]]]
    /\ UNCHANGED <<reports, call>>

(* The place after a change: what is not given stays.                      *)
Moved(row, city, area) ==
    [row EXCEPT !.city = IF city = None THEN @ ELSE city,
                !.area = IF area = None THEN @ ELSE area]

validateLocationRefs(row) == <<row.city, row.area>> \in Places

(* A mutant: the current place is read without locking the row.            *)
StartUpdateUnlocked(q, t, city, area) ==
    /\ Begin(q)
    /\ Exists(t) /\ <<city, area>> # <<None, None>>
    /\ ~Locked(t)
    /\ validateLocationRefs(Moved(targets[t], city, area))
    /\ Becomes(q, [Idle EXCEPT !.pc = "update", !.source = t,
                               !.row = Moved([targets[t] EXCEPT !.city = None, !.area = None], city, area)])
    /\ ReadOnly

(* A change of place locks the target and checks the place it would have.  *)
StartUpdate(q, t, city, area) ==
    /\ Begin(q)
    /\ Exists(t) /\ <<city, area>> # <<None, None>>
    /\ ~Locked(t)
    /\ validateLocationRefs(Moved(targets[t], city, area))
    /\ Becomes(q, [Idle EXCEPT !.pc = "update", !.source = t, !.locked = {t},
                               !.row = Moved([targets[t] EXCEPT !.city = None, !.area = None], city, area)])
    /\ ReadOnly

(* UPDATE sets the columns that were given.                                *)
CommitUpdate(q) ==
    LET t == call[q].source IN
    /\ At(q, "update")
    /\ \A o \in Request \ {q} : t \notin call[o].locked
    /\ targets' = [targets EXCEPT ![t] = Moved(@, call[q].row.city, call[q].row.area)]
    /\ Becomes(q, Idle)
    /\ UNCHANGED <<reports, calls>>

----------------------------------------------------------------------------
(* Moderation of targets and of reports.                                   *)

(* Any target may be decided about, a merged one too.                      *)
StartDecide(q, t, status) ==
    /\ Begin(q)
    /\ Exists(t) /\ ~Locked(t)
    /\ targets[t].status # status
    /\ Becomes(q, [Idle EXCEPT !.pc = "decide", !.source = t, !.locked = {t},
                               !.row = [targets[t] EXCEPT !.status = status, !.into = None]])
    /\ ReadOnly

(* The status is set, and merged_into_id to what is given with it.         *)
SetModerationStatusTx(t, status, into) ==
    targets' = [targets EXCEPT ![t].status = status, ![t].into = into]

(* A mutant: the target keeps pointing where it was merged.                *)
CommitDecideKeepingTheLink(q) ==
    LET t == call[q].source IN
    /\ At(q, "decide")
    /\ targets' = [targets EXCEPT ![t].status = call[q].row.status]
    /\ Becomes(q, Idle)
    /\ UNCHANGED <<reports, calls>>

(* Whatever the decision, the target points nowhere any more.              *)
CommitDecide(q) ==
    /\ At(q, "decide")
    /\ SetModerationStatusTx(call[q].source, call[q].row.status, None)
    /\ Becomes(q, Idle)
    /\ UNCHANGED <<reports, calls>>

(* What reports_open_target_unique holds for a user and a target: an open   *)
(* report, one being inserted, or one that a merge has moved there. By the  *)
(* first the insert is refused; for the others it waits, and sees again.    *)
Entered(u, t) ==
    \/ \E j \in ReportId : /\ reports[j] # None
                          /\ reports[j].by = u /\ reports[j].target = t
                          /\ reports[j].status = "open"
    \/ \E o \in Request : At(o, "file") /\ call[o].by = u /\ call[o].source = t
    \/ \E o \in Request : /\ At(o, "merge") /\ call[o].destination = t
                         /\ \E j \in call[o].taken : /\ reports[j].by = u
                                                     /\ reports[j].status = "open"

(* A report is on any target that exists, a merged one too. FileReport      *)
(* inserts it; its entry in the index is there before the foreign key is    *)
(* checked.                                                                 *)
StartFile(q, i, u, t) ==
    /\ Begin(q)
    /\ reports[i] = None /\ ~Taken(i)
    /\ \A j \in ReportId : j < i => reports[j] # None \/ Taken(j)
    /\ Exists(t) /\ ~Entered(u, t)
    /\ Becomes(q, [Idle EXCEPT !.pc = "file", !.source = t, !.taken = {i}, !.by = u])
    /\ ReadOnly

(* The foreign key takes a share of the target's row, and waits for those   *)
(* who hold the row.                                                        *)
CommitFile(q) ==
    LET c == call[q] IN
    /\ At(q, "file")
    /\ ~Locked(c.source)
    /\ reports' = [i \in ReportId |->
          IF i \in c.taken
          THEN [by |-> c.by, target |-> c.source, status |-> "open", log |-> <<>>]
          ELSE reports[i]]
    /\ Becomes(q, Idle)
    /\ UNCHANGED <<targets, calls>>

(* ResolveReport locks the report; the status it has already is a no-op.   *)
StartResolve(q, i, status) ==
    /\ Begin(q)
    /\ reports[i] # None /\ ~Taken(i)
    /\ reports[i].status # status
    /\ Becomes(q, [Idle EXCEPT !.pc = "resolve", !.taken = {i}, !.decision = status])
    /\ ReadOnly

CommitResolve(q) ==
    /\ At(q, "resolve")
    /\ reports' = [i \in ReportId |->
          IF i \in call[q].taken
          THEN [reports[i] EXCEPT !.status = call[q].decision,
                                  !.log = Append(@, call[q].decision)]
          ELSE reports[i]]
    /\ Becomes(q, Idle)
    /\ UNCHANGED <<targets, calls>>

----------------------------------------------------------------------------
(* The merge of a duplicate.                                               *)

(* A mutant: the source first.                                              *)
FirstTheSource(s, d) == s

(* The stable order: the smaller one first.                                 *)
First(s, d) == IF d < s THEN d ELSE s

(* What is asked of a target once it is locked. A merged source cannot be  *)
(* merged again; the destination must be published.                        *)
Mergeable(t, s, d) ==
    /\ t = s => targets[t].status # "merged"
    /\ t = d => targets[t].status = "published"

LockFirst(q, s, d) ==
    LET t == First(s, d) IN
    /\ Begin(q)
    /\ s # d
    /\ Exists(s) /\ Exists(d)
    /\ ~Locked(t) /\ Mergeable(t, s, d)
    /\ Becomes(q, [Idle EXCEPT !.pc = "lockSecond", !.locked = {t},
                               !.source = s, !.destination = d])
    /\ ReadOnly

(* The row the merge still has to lock.                                    *)
Other(c) == CHOOSE t \in {c.source, c.destination} : t \notin c.locked

LockSecond(q) ==
    LET c == call[q] t == Other(c) IN
    /\ At(q, "lockSecond")
    /\ ~Locked(t)
    /\ IF Mergeable(t, c.source, c.destination)
       THEN Becomes(q, [c EXCEPT !.pc = "moveReports", !.locked = @ \cup {t}])
       ELSE Becomes(q, Idle)
    /\ UNCHANGED <<targets, reports, calls>>

(* A mutant: only those a moderator has taken up move.                     *)
ToMoveTakenUp(c) == {i \in ReportId : /\ reports[i] # None
                                      /\ reports[i].target = c.source
                                      /\ reports[i].status = "in_review"}

(* Reports that wait for a decision move.                                  *)
ToMove(c) == {i \in ReportId : /\ reports[i] # None
                               /\ reports[i].target = c.source
                               /\ reports[i].status \in Waiting}

(* The unique index on open reports: a user has one on both targets.       *)
Collide(c) ==
    \E i \in ToMove(c), j \in ReportId :
        /\ reports[i].status = "open"
        /\ reports[j] # None /\ reports[j].target = c.destination
        /\ reports[j].by = reports[i].by /\ reports[j].status = "open"

(* A report being inserted has an entry that one of those to move needs.    *)
InTheWay(c, o) ==
    /\ At(o, "file") /\ call[o].source = c.destination
    /\ \E i \in ToMove(c) : reports[i].status = "open" /\ reports[i].by = call[o].by

(* The update waits for reports that are being decided and for those being  *)
(* inserted where one of its own belongs; a collision fails the whole merge.*)
MoveReports(q) ==
    LET c == call[q] IN
    /\ At(q, "moveReports")
    /\ \A i \in ToMove(c) : ~Taken(i)
    /\ \A o \in Request : ~InTheWay(c, o)
    /\ IF Collide(c)
       THEN Becomes(q, Idle)
       ELSE Becomes(q, [c EXCEPT !.pc = "merge", !.taken = ToMove(c)])
    /\ UNCHANGED <<targets, reports, calls>>

CommitMerge(q) ==
    LET c == call[q] IN
    /\ At(q, "merge")
    /\ reports' = [i \in ReportId |->
          IF i \in c.taken THEN [reports[i] EXCEPT !.target = c.destination] ELSE reports[i]]
    /\ targets' = [targets EXCEPT ![c.source].status = "merged",
                                  ![c.source].into = c.destination]
    /\ Becomes(q, Idle)
    /\ UNCHANGED calls

----------------------------------------------------------------------------
Init ==
    /\ targets \in InitialTargets
    /\ reports = [i \in ReportId |-> None]
    /\ call = [q \in Request |-> Idle]
    /\ calls = 0

(* The handlers, each with the steps of its transaction.                   *)
create(q) ==
    \E t \in Target, p \in Places, auto \in BOOLEAN : Create(q, t, p, auto)

update(q) ==
    \/ \E t \in Target, city \in City \cup {None}, area \in Area \cup {None} :
          StartUpdate(q, t, city, area)
    \/ CommitUpdate(q)

decideTarget(q) ==
    \/ \E t \in Target, status \in {"published", "hidden", "removed"} : StartDecide(q, t, status)
    \/ CommitDecide(q)

fileReport(q) ==
    \/ \E i \in ReportId, u \in User, t \in Target : StartFile(q, i, u, t)
    \/ CommitFile(q)

resolveReport(q) ==
    \/ \E i \in ReportId, status \in Decision : StartResolve(q, i, status)
    \/ CommitResolve(q)

mergeTargets(q) ==
    \/ \E s, d \in Target : LockFirst(q, s, d)
    \/ LockSecond(q)
    \/ MoveReports(q)
    \/ CommitMerge(q)

Handle(q) ==
    \/ create(q)
    \/ update(q)
    \/ decideTarget(q)
    \/ fileReport(q)
    \/ resolveReport(q)
    \/ mergeTargets(q)
    \/ GiveUp(q)

Next == \E q \in Request : Handle(q)

Spec == Init /\ [][Next]_vars

----------------------------------------------------------------------------
(* Properties.                                                             *)

(* Types of the rows and of the requests.                                  *)
TypeOK ==
    /\ targets \in [Target -> TargetRow \cup {None}]
    /\ reports \in [ReportId -> Report \cup {None}]
    /\ call \in [Request -> Call]
    /\ calls \in 0..MaxCalls

(* A target's area lies in its city, though one request may change the     *)
(* city while another changes the area (repo.go:277-318).                  *)
AreaInCity ==
    \A t \in Target : Exists(t) => <<targets[t].city, targets[t].area>> \in Places

Points(t) == Exists(t) /\ targets[t].into # None

(* A merged target leads somewhere, and from there on to one that is not   *)
(* merged: no merge, decision or restoration, in any order, closes a ring  *)
(* of targets that were merged into each other (admin.go:264-293,          *)
(* moderation.go:297-318).                                                 *)
MergesLeadSomewhere ==
    /\ \A t \in Target : Exists(t) => (targets[t].status = "merged" <=> Points(t))
    /\ \A S \in (SUBSET Target) \ {{}} :
          \E t \in S : ~(Points(t) /\ targets[t].into \in S)

(* Two moderators never record the same decision on a report twice in a    *)
(* row, with two notices to its author (moderation.go:203-212).            *)
DecisionsDiffer ==
    \A i \in ReportId : reports[i] # None =>
        \A k \in 1..(Len(reports[i].log) - 1) : reports[i].log[k] # reports[i].log[k + 1]

WaitsFor(p, q) ==
    \/ At(p, "lockSecond") /\ Other(call[p]) \in call[q].locked
    \/ At(p, "moveReports") /\ ToMove(call[p]) \cap call[q].taken # {}
    \/ At(p, "moveReports") /\ InTheWay(call[p], q)
    \/ At(p, "file") /\ call[p].source \in call[q].locked

(* Requests that file no report wait in one direction: a merge that has one *)
(* of its rows waits for requests that wait for nobody, for merges that     *)
(* have both, or for one that holds a greater target than its own. Thus     *)
(* they never wait in a circle, of any length, whatever two targets are     *)
(* merged in either direction: "lock both targets in a stable order to      *)
(* avoid deadlocks" (admin.go:272-276).                                     *)
WaitInOrder ==
    \A p, q \in Request :
        WaitsFor(p, q) /\ ~At(p, "file") /\ ~At(q, "file") =>
            \/ ~At(q, "lockSecond") /\ ~At(q, "moveReports")
            \/ At(p, "lockSecond") /\ At(q, "moveReports")
            \/ /\ At(p, "lockSecond") /\ At(q, "lockSecond")
               /\ \A s \in call[p].locked, t \in call[q].locked : s < t

(* No two requests wait for each other. This does not hold: a user with an  *)
(* open report on the source files one on the destination; the insert has   *)
(* its entry in the index and waits for the merge's row, the merge waits    *)
(* for the entry, and the database fails one of them (moderation.go:127,    *)
(* admin.go:313).                                                           *)
NoDeadlock == \A p, q \in Request : ~(p # q /\ WaitsFor(p, q) /\ WaitsFor(q, p))

(* A merge leaves no open report behind on the target it folds away        *)
(* (admin.go:313-317), however it interleaves with reports being filed and *)
(* decided.                                                                *)
OpenReportsMove ==
    [][\A t \in Target :
          Exists(t) /\ targets[t].status # "merged" /\ targets'[t].status = "merged"
          => \A i \in ReportId : reports'[i] # None /\ reports'[i].target = t
                                 => reports'[i].status # "open"]_vars

MergedInto(t) == IF targets[t].status = "merged" THEN targets[t].into ELSE None

(* What anyone may see of a target; to the others it is not found.         *)
get(t) == IF Exists(t) /\ targets[t].status = "published" THEN t ELSE None

(* The page of a merged target: redirectMerged follows one link.           *)
Redirect(t) == IF MergedInto(t) = None THEN None ELSE get(MergedInto(t))

Survivor(t) ==
    LET f[n \in 0..Cardinality(Target)] ==
            IF n = 0 THEN t ELSE IF Points(f[n - 1]) THEN targets[f[n - 1]].into ELSE f[n - 1]
    IN  f[Cardinality(Target)]

(* "MergedInto returns the surviving target a merged target now points to, *)
(* so old links can redirect instead of 404ing" (repo.go:193-194): a link  *)
(* to a merged target redirects while the target its content went to is    *)
(* published. This does not hold: the destination may be merged in turn,   *)
(* and only one link is followed.                                          *)
OldLinksRedirect ==
    \A t \in Target : Points(t) /\ targets[Survivor(t)].status = "published" => Redirect(t) # None

================================================================================
