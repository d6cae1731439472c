----------------------------- MODULE CatalogProofs -----------------------------
(***************************************************************************)
(* Theorems about Catalog: areas stay in their cities, merges never close  *)
(* a ring, never wait for each other in a circle and leave no open report  *)
(* behind, and a report's record never repeats itself, for any number of   *)
(* targets, requests and reports.                                          *)
(***************************************************************************)
EXTENDS Catalog, TLAPS

----------------------------------------------------------------------------
(* Types.                                                                  *)

LEMMA RowType ==
  ASSUME TypeOK, NEW t \in Target, Exists(t)
  PROVE  targets[t] \in TargetRow
  BY DEF TypeOK, Exists

LEMMA MovedType ==
  ASSUME NEW row \in TargetRow, NEW city \in City \cup {None}, NEW area \in Area \cup {None}
  PROVE  /\ Moved(row, city, area) \in TargetRow
         /\ Moved(row, city, area).status = row.status
         /\ Moved(row, city, area).into = row.into
  BY DEF Moved, TargetRow

LEMMA BecomesType ==
  ASSUME TypeOK, NEW q \in Request, NEW state \in Call, Becomes(q, state)
  PROVE  call' \in [Request -> Call]
  BY DEF TypeOK, Becomes

LEMMA IdleType == Idle \in Call
  BY DEF Idle, Call

LEMMA BeginType ==
  ASSUME TypeOK, NEW q \in Request, Begin(q)
  PROVE  calls' \in 0..MaxCalls
  BY CatalogAssumption DEF TypeOK, Begin

----------------------------------------------------------------------------
(* What a request knows about the rows it holds.                           *)

Merging(c) == c.pc \in {"lockSecond", "moveReports", "merge"}

Held(q) ==
    LET c == call[q] IN
    /\ \A t \in c.locked : Exists(t)
    /\ c.pc # "file" => \A i \in c.taken : reports[i] # None
    /\ c.pc = "file" => c.source \in Target /\ c.by \in User
    /\ c.pc \in {"update", "decide"} =>
          c.source \in Target /\ c.locked = {c.source} /\ c.row \in TargetRow
    /\ c.pc = "update" =>
          validateLocationRefs(Moved(targets[c.source], c.row.city, c.row.area))
    /\ c.pc = "decide" => c.row.status # "merged"
    /\ Merging(c) =>
          /\ c.source \in Target /\ c.destination \in Target /\ c.source # c.destination
          /\ Exists(c.source) /\ Exists(c.destination)
    /\ c.pc = "lockSecond" =>
          \E t \in {c.source, c.destination} :
             c.locked = {t} /\ Mergeable(t, c.source, c.destination)
    /\ c.pc \in {"moveReports", "merge"} =>
          /\ c.locked = {c.source, c.destination}
          /\ \A t \in c.locked : Mergeable(t, c.source, c.destination)
    /\ c.pc = "resolve" => c.decision \in Decision

Exclusive == \A p, q \in Request : p # q => call[p].locked \cap call[q].locked = {}

LockInv == TypeOK /\ Exclusive /\ \A q \in Request : Held(q)

(* A step of q that leaves alone what the others hold.                     *)
Step(q) ==
    /\ \E state \in Call : Becomes(q, state)
    /\ \A t \in call'[q].locked : t \in call[q].locked \/ ~Locked(t)
    /\ targets' \in [Target -> TargetRow \cup {None}]
    /\ \A t \in Target : Exists(t) => Exists(t)'
    /\ \A t \in Target : targets'[t] = targets[t] \/ t \in call[q].locked \/ ~Exists(t)
    /\ reports' \in [ReportId -> Report \cup {None}]
    /\ \A i \in ReportId : reports[i] # None => reports'[i] # None
    /\ calls' \in 0..MaxCalls

LEMMA StepInv ==
  ASSUME LockInv, NEW q \in Request, Step(q), Held(q)'
  PROVE  LockInv'
  <1>1. PICK state \in Call : call' = [call EXCEPT ![q] = state]
    BY DEF Step, Becomes
  <1>2. \A o \in Request \ {q} : call'[o] = call[o]
    BY <1>1 DEF LockInv, TypeOK
  <1>3. TypeOK'
    BY <1>1 DEF Step, LockInv, TypeOK
  <1>4. Exclusive'
    <2>1. SUFFICES ASSUME NEW o \in Request, o # q
                   PROVE  (call[o].locked \cap call[q].locked = {})'
      BY <1>2 DEF LockInv, Exclusive
    <2>2. call[o].locked \cap call[q].locked = {}
      BY <2>1 DEF LockInv, Exclusive
    <2>3. \A t \in call'[q].locked : t \notin call[o].locked
      BY <2>1, <2>2 DEF Step, Locked
    <2> QED BY <1>2, <2>1, <2>3
  <1>5. ASSUME NEW o \in Request \ {q} PROVE Held(o)'
    <2> DEFINE c == call[o]
    <2>1. Held(o) /\ call[o] \in Call /\ call'[o] = call[o]
      BY <1>2 DEF LockInv, TypeOK
    <2>2. c.locked \subseteq Target /\ c.taken \subseteq ReportId
      BY <2>1 DEF Call
    <2>3. \A t \in c.locked : targets'[t] = targets[t]
      BY <2>1, <2>2, <1>5 DEF Step, LockInv, Exclusive, Held
    <2>4. \A t \in c.locked : Exists(t)'
      BY <2>1, <2>3 DEF Held, Exists
    <2>5. c.pc # "file" => \A i \in c.taken : reports'[i] # None
      BY <2>1, <2>2 DEF Held, Step
    <2>6. Merging(c) => Exists(c.source)' /\ Exists(c.destination)'
      BY <2>1 DEF Held, Step
    <2>7. c.pc = "update" =>
            validateLocationRefs(Moved(targets[c.source], c.row.city, c.row.area))'
      BY <2>1, <2>3 DEF Held, validateLocationRefs, Moved
    <2>8. \A t \in c.locked : Mergeable(t, c.source, c.destination) =>
                              Mergeable(t, c.source, c.destination)'
      BY <2>1, <2>3 DEF Mergeable
    <2> QED BY <2>1, <2>4, <2>5, <2>6, <2>7, <2>8 DEF Held, Merging
  <1> QED BY <1>3, <1>4, <1>5 DEF LockInv

LEMMA ReadStep ==
  ASSUME LockInv, NEW q \in Request, NEW state \in Call, Becomes(q, state), ReadOnly,
         calls' \in 0..MaxCalls,
         \A t \in state.locked : t \in call[q].locked \/ ~Locked(t)
  PROVE  Step(q) /\ call'[q] = state
  BY DEF Step, ReadOnly, LockInv, TypeOK, Becomes, Exists

LEMMA EndsIdle ==
  ASSUME LockInv, NEW q \in Request, Becomes(q, Idle)
  PROVE  /\ Held(q)'
         /\ \E state \in Call : Becomes(q, state)
         /\ \A t \in call'[q].locked : t \in call[q].locked \/ ~Locked(t)
  <1>1. call'[q] = Idle
    BY DEF Becomes, LockInv, TypeOK
  <1> QED BY <1>1, IdleType DEF Held, Idle, Merging

----------------------------------------------------------------------------
(* One lemma per action.                                                   *)

LEMMA CreateStep ==
  ASSUME LockInv, NEW q \in Request, NEW t \in Target, NEW p \in Places, NEW auto \in BOOLEAN,
         Create(q, t, p, auto)
  PROVE  Step(q) /\ Held(q)'
  <1>1. [status |-> IF auto THEN "published" ELSE "pending", into |-> None,
         city |-> p[1], area |-> p[2]] \in TargetRow
    BY DEF TargetRow, TargetStatus, Places
  <1>2. /\ call[q] \in Call /\ call' = [call EXCEPT ![q] = call[q]] /\ call'[q] = call[q]
        /\ At(q, "idle") /\ call[q].locked \subseteq Target
    BY DEF Create, Begin, LockInv, TypeOK, Call
  <1>3. targets' = [targets EXCEPT ![t] =
          [status |-> IF auto THEN "published" ELSE "pending", into |-> None,
           city |-> p[1], area |-> p[2]]]
    BY DEF Create
  <1>4. None \notin TargetRow
    BY CatalogAssumption
  <1>5. targets' \in [Target -> TargetRow \cup {None}]
    BY <1>1, <1>3 DEF LockInv, TypeOK
  <1>6. \A x \in Target : (Exists(x) => Exists(x)') /\ (targets'[x] = targets[x] \/ ~Exists(x))
    BY <1>1, <1>3, <1>4 DEF Create, LockInv, TypeOK, Exists
  <1>7. calls' \in 0..MaxCalls
    BY BeginType DEF LockInv, Create
  <1>8. Step(q)
    BY <1>2, <1>5, <1>6, <1>7 DEF Step, Create, Becomes, LockInv, TypeOK
  <1>9. Held(q)'
    BY <1>2, <1>6 DEF Held, At, LockInv, Create, Merging
  <1> QED BY <1>8, <1>9

LEMMA StartUpdateStep ==
  ASSUME LockInv, NEW q \in Request, NEW t \in Target, NEW city \in City \cup {None},
         NEW area \in Area \cup {None}, StartUpdate(q, t, city, area)
  PROVE  Step(q) /\ Held(q)'
  <1> DEFINE blank == [targets[t] EXCEPT !.city = None, !.area = None]
             row == Moved(blank, city, area)
             state == [Idle EXCEPT !.pc = "update", !.source = t, !.locked = {t}, !.row = row]
  <1>1. targets[t] \in TargetRow
    BY RowType DEF StartUpdate, LockInv
  <1>2. row \in TargetRow /\ row.city = city /\ row.area = area
    BY <1>1, CatalogAssumption DEF Moved, TargetRow
  <1>3. state \in Call /\ state.pc = "update" /\ state.source = t /\ state.locked = {t}
        /\ state.row = row /\ state.taken = {}
    BY <1>2 DEF Idle, Call
  <1>4. Becomes(q, state) /\ ReadOnly /\ ~Locked(t) /\ Exists(t)
        /\ validateLocationRefs(Moved(targets[t], city, area))
    BY DEF StartUpdate
  <1>5. calls' \in 0..MaxCalls
    BY BeginType DEF LockInv, StartUpdate
  <1>6. Step(q) /\ call'[q] = state
    <2> HIDE DEF state
    <2> QED BY <1>3, <1>4, <1>5, ReadStep
  <1>7. Held(q)'
    <2> HIDE DEF state, row
    <2>1. targets' = targets /\ reports' = reports
      BY <1>4 DEF ReadOnly
    <2>2. call'[q].pc = "update" /\ call'[q].source = t /\ call'[q].locked = {t}
          /\ call'[q].taken = {} /\ call'[q].row \in TargetRow
          /\ call'[q].row.city = city /\ call'[q].row.area = area
      BY <1>2, <1>3, <1>6
    <2>3. validateLocationRefs(Moved(targets'[t], call'[q].row.city, call'[q].row.area))
      BY <1>4, <2>1, <2>2
    <2>4. targets'[t] # None
      BY <1>4, <2>1 DEF Exists
    <2> QED BY <2>2, <2>3, <2>4 DEF Held, Merging, Exists, validateLocationRefs, Moved
  <1> QED BY <1>6, <1>7

LEMMA StartDecideStep ==
  ASSUME LockInv, NEW q \in Request, NEW t \in Target,
         NEW status \in {"published", "hidden", "removed"}, StartDecide(q, t, status)
  PROVE  Step(q) /\ Held(q)'
  <1> DEFINE row == [targets[t] EXCEPT !.status = status, !.into = None]
             state == [Idle EXCEPT !.pc = "decide", !.source = t, !.locked = {t}, !.row = row]
  <1>1. row \in TargetRow /\ row.status = status
    BY RowType DEF StartDecide, LockInv, TargetRow, TargetStatus
  <1>2. state \in Call /\ state.pc = "decide" /\ state.source = t /\ state.locked = {t}
        /\ state.row = row /\ state.taken = {} /\ row.status # "merged"
    BY <1>1 DEF Idle, Call, TargetRow
  <1>3. Becomes(q, state) /\ ReadOnly /\ ~Locked(t) /\ Exists(t)
    BY DEF StartDecide
  <1>4. calls' \in 0..MaxCalls
    BY BeginType DEF LockInv, StartDecide
  <1> HIDE DEF state, row
  <1>5. Step(q) /\ call'[q] = state
    BY <1>2, <1>3, <1>4, ReadStep
  <1>6. Held(q)'
    BY <1>1, <1>2, <1>3, <1>5 DEF Held, Merging, ReadOnly, Exists
  <1> QED BY <1>5, <1>6

LEMMA StartFileStep ==
  ASSUME LockInv, NEW q \in Request, NEW i \in ReportId, NEW u \in User, NEW t \in Target,
         StartFile(q, i, u, t)
  PROVE  Step(q) /\ Held(q)'
  <1> DEFINE state == [Idle EXCEPT !.pc = "file", !.source = t, !.taken = {i}, !.by = u]
  <1>1. /\ state \in Call /\ state.pc = "file" /\ state.source = t /\ state.by = u
        /\ state.locked = {}
    BY DEF Idle, Call
  <1>2. Becomes(q, state) /\ ReadOnly
    BY DEF StartFile
  <1>3. calls' \in 0..MaxCalls
    BY BeginType DEF LockInv, StartFile
  <1> HIDE DEF state
  <1>4. Step(q) /\ call'[q] = state
    BY <1>1, <1>2, <1>3, ReadStep
  <1>5. Held(q)'
    BY <1>1, <1>4 DEF Held, Merging
  <1> QED BY <1>4, <1>5

LEMMA CommitFileStep ==
  ASSUME LockInv, NEW q \in Request, CommitFile(q)
  PROVE  Step(q) /\ Held(q)'
  <1> DEFINE c == call[q]
             report == [by |-> c.by, target |-> c.source, status |-> "open", log |-> <<>>]
  <1>1. c.source \in Target /\ c.by \in User
    BY DEF LockInv, Held, CommitFile, At
  <1>2. report \in Report /\ None \notin Report
    BY <1>1, CatalogAssumption DEF Report
  <1>3. /\ reports' = [i \in ReportId |-> IF i \in c.taken THEN report ELSE reports[i]]
        /\ Becomes(q, Idle) /\ targets' = targets /\ calls' = calls
    BY DEF CommitFile
  <1> HIDE DEF report
  <1>4. reports' \in [ReportId -> Report \cup {None}]
    BY <1>2, <1>3 DEF LockInv, TypeOK
  <1>5. \A i \in ReportId : reports[i] # None => reports'[i] # None
    BY <1>2, <1>3
  <1>6. Held(q)' /\ (\E state \in Call : Becomes(q, state))
        /\ (\A x \in call'[q].locked : x \in call[q].locked \/ ~Locked(x))
    BY <1>3, EndsIdle
  <1> QED BY <1>3, <1>4, <1>5, <1>6 DEF Step, LockInv, TypeOK, Exists

LEMMA LockFirstStep ==
  ASSUME LockInv, NEW q \in Request, NEW s \in Target, NEW d \in Target, LockFirst(q, s, d)
  PROVE  Step(q) /\ Held(q)'
  <1> DEFINE t == First(s, d)
             state == [Idle EXCEPT !.pc = "lockSecond", !.locked = {t},
                                   !.source = s, !.destination = d]
  <1>1. t \in {s, d}
    BY DEF First
  <1> HIDE DEF t
  <1>2. state \in Call /\ state.pc = "lockSecond" /\ state.source = s /\ state.destination = d
        /\ state.locked = {t} /\ state.taken = {}
    BY <1>1 DEF Idle, Call
  <1>3. Becomes(q, state) /\ ReadOnly /\ ~Locked(t) /\ Exists(s) /\ Exists(d) /\ s # d
        /\ Mergeable(t, s, d)
    BY DEF LockFirst, t
  <1>4. calls' \in 0..MaxCalls
    BY BeginType DEF LockInv, LockFirst
  <1> HIDE DEF state
  <1>5. Step(q) /\ call'[q] = state
    BY <1>2, <1>3, <1>4, ReadStep
  <1>6. targets' = targets /\ reports' = reports
    BY <1>3 DEF ReadOnly
  <1>7. Held(q)'
    BY <1>1, <1>2, <1>3, <1>5, <1>6 DEF Held, Merging, Exists, Mergeable
  <1> QED BY <1>5, <1>7

LEMMA StartResolveStep ==
  ASSUME LockInv, NEW q \in Request, NEW i \in ReportId, NEW status \in Decision,
         StartResolve(q, i, status)
  PROVE  Step(q) /\ Held(q)'
  <1> DEFINE state == [Idle EXCEPT !.pc = "resolve", !.taken = {i}, !.decision = status]
  <1>1. state \in Call /\ state.pc = "resolve" /\ state.taken = {i}
        /\ state.decision = status /\ state.locked = {}
    BY DEF Idle, Call
  <1>2. Becomes(q, state) /\ ReadOnly /\ reports[i] # None
    BY DEF StartResolve
  <1>3. calls' \in 0..MaxCalls
    BY BeginType DEF LockInv, StartResolve
  <1> HIDE DEF state
  <1>4. Step(q) /\ call'[q] = state
    BY <1>1, <1>2, <1>3, ReadStep
  <1>5. Held(q)'
    BY <1>1, <1>2, <1>4 DEF Held, Merging, ReadOnly, Exists
  <1> QED BY <1>4, <1>5

LEMMA CommitUpdateStep ==
  ASSUME LockInv, NEW q \in Request, CommitUpdate(q)
  PROVE  /\ Step(q) /\ Held(q)'
         /\ \E t \in Target, row \in TargetRow :
              /\ Exists(t) /\ row.status = targets[t].status /\ row.into = targets[t].into
              /\ <<row.city, row.area>> \in Places
              /\ targets' = [targets EXCEPT ![t] = row]
  <1> DEFINE t == call[q].source
             row == Moved(targets[t], call[q].row.city, call[q].row.area)
  <1>1. /\ t \in Target /\ call[q].locked = {t} /\ call[q].row \in TargetRow /\ Exists(t)
        /\ validateLocationRefs(row)
    BY DEF LockInv, Held, CommitUpdate, At
  <1>2. targets[t] \in TargetRow
    BY <1>1, RowType DEF LockInv
  <1>3. call[q].row.city \in City \cup {None} /\ call[q].row.area \in Area \cup {None}
    BY <1>1 DEF TargetRow
  <1>4. row \in TargetRow /\ row.status = targets[t].status /\ row.into = targets[t].into
    BY <1>2, <1>3, MovedType
  <1>5. /\ targets' = [targets EXCEPT ![t] = row] /\ Becomes(q, Idle)
        /\ reports' = reports /\ calls' = calls
    BY DEF CommitUpdate
  <1>6. <<row.city, row.area>> \in Places
    BY <1>1 DEF validateLocationRefs
  <1> HIDE DEF row, t
  <1>7. Held(q)' /\ (\E state \in Call : Becomes(q, state))
        /\ (\A x \in call'[q].locked : x \in call[q].locked \/ ~Locked(x))
    BY <1>5, EndsIdle
  <1>8. None \notin TargetRow
    BY CatalogAssumption
  <1>9. Step(q)
    BY <1>1, <1>4, <1>5, <1>7, <1>8 DEF Step, LockInv, TypeOK, Exists
  <1> QED BY <1>1, <1>4, <1>5, <1>6, <1>7, <1>9

LEMMA CommitDecideStep ==
  ASSUME LockInv, NEW q \in Request, CommitDecide(q)
  PROVE  /\ Step(q) /\ Held(q)'
         /\ \E t \in Target, row \in TargetRow :
              /\ Exists(t) /\ row.into = None /\ row.status # "merged"
              /\ row.city = targets[t].city /\ row.area = targets[t].area
              /\ targets' = [targets EXCEPT ![t] = row]
  <1> DEFINE t == call[q].source
             row == [targets[t] EXCEPT !.status = call[q].row.status, !.into = None]
  <1>1. /\ t \in Target /\ call[q].locked = {t} /\ call[q].row \in TargetRow /\ Exists(t)
        /\ call[q].row.status # "merged"
    BY DEF LockInv, Held, CommitDecide, SetModerationStatusTx, At
  <1>2. targets[t] \in TargetRow
    BY <1>1, RowType DEF LockInv
  <1>3. /\ row \in TargetRow /\ row.into = None /\ row.status # "merged"
        /\ row.city = targets[t].city /\ row.area = targets[t].area
    BY <1>1, <1>2 DEF TargetRow
  <1>4. /\ targets' = [targets EXCEPT ![t] = row] /\ Becomes(q, Idle)
        /\ reports' = reports /\ calls' = calls
    BY <1>1, <1>2 DEF CommitDecide, SetModerationStatusTx, LockInv, TypeOK, TargetRow
  <1> HIDE DEF row, t
  <1>5. Held(q)' /\ (\E state \in Call : Becomes(q, state))
        /\ (\A x \in call'[q].locked : x \in call[q].locked \/ ~Locked(x))
    BY <1>4, EndsIdle
  <1>6. None \notin TargetRow
    BY CatalogAssumption
  <1>7. Step(q)
    BY <1>1, <1>3, <1>4, <1>5, <1>6 DEF Step, LockInv, TypeOK, Exists
  <1> QED BY <1>1, <1>3, <1>4, <1>5, <1>7

LEMMA CommitResolveStep ==
  ASSUME LockInv, NEW q \in Request, CommitResolve(q)
  PROVE  Step(q) /\ Held(q)'
  <1> DEFINE decided(i) == [reports[i] EXCEPT !.status = call[q].decision,
                                              !.log = Append(@, call[q].decision)]
  <1>1. call[q].decision \in Decision /\ \A i \in call[q].taken : reports[i] # None
    BY DEF LockInv, Held, CommitResolve, At
  <1>2. ASSUME NEW i \in ReportId, i \in call[q].taken
        PROVE  decided(i) \in Report
    <2>1. reports[i] \in Report
      BY <1>1, <1>2 DEF LockInv, TypeOK
    <2>2. Append(reports[i].log, call[q].decision) \in Seq(Decision)
      BY <1>1, <2>1 DEF Report
    <2> QED BY <1>1, <2>1, <2>2 DEF Report
  <1>3. reports' = [i \in ReportId |-> IF i \in call[q].taken THEN decided(i) ELSE reports[i]]
    BY DEF CommitResolve
  <1>4. Becomes(q, Idle) /\ targets' = targets /\ calls' = calls
    BY DEF CommitResolve
  <1> HIDE DEF decided
  <1>5. reports' \in [ReportId -> Report \cup {None}]
    BY <1>2, <1>3 DEF LockInv, TypeOK
  <1>6. None \notin Report
    BY CatalogAssumption
  <1>7. \A i \in ReportId : reports[i] # None => reports'[i] # None
    BY <1>2, <1>3, <1>6
  <1>8. Held(q)' /\ (\E state \in Call : Becomes(q, state))
        /\ (\A x \in call'[q].locked : x \in call[q].locked \/ ~Locked(x))
    BY <1>4, EndsIdle
  <1> QED BY <1>4, <1>5, <1>7, <1>8 DEF Step, LockInv, TypeOK, Exists

LEMMA LockSecondStep ==
  ASSUME LockInv, NEW q \in Request, LockSecond(q)
  PROVE  Step(q) /\ Held(q)'
  <1> DEFINE c == call[q]
             t == Other(c)
             state == [c EXCEPT !.pc = "moveReports", !.locked = @ \cup {t}]
  <1>1. Held(q) /\ c \in Call /\ c.pc = "lockSecond"
    BY DEF LockInv, TypeOK, LockSecond, At
  <1>2. PICK x \in {c.source, c.destination} : c.locked = {x} /\ Mergeable(x, c.source, c.destination)
    BY <1>1 DEF Held
  <1>3. /\ c.source \in Target /\ c.destination \in Target /\ c.source # c.destination
        /\ Exists(c.source) /\ Exists(c.destination)
    BY <1>1 DEF Held, Merging
  <1>4. t \in {c.source, c.destination} /\ t \notin c.locked
    BY <1>2, <1>3 DEF Other
  <1>5. {x, t} = {c.source, c.destination}
    BY <1>2, <1>4
  <1>6. calls' \in 0..MaxCalls /\ ReadOnly
    BY DEF LockSecond, LockInv, TypeOK, ReadOnly
  <1>7. CASE Mergeable(t, c.source, c.destination)
    <2>1. /\ state \in Call /\ state.pc = "moveReports" /\ state.locked = {x, t}
          /\ state.source = c.source /\ state.destination = c.destination
          /\ state.taken = c.taken
      BY <1>1, <1>2, <1>3, <1>4 DEF Call
    <2>2. Becomes(q, state) /\ ~Locked(t)
      BY <1>7 DEF LockSecond
    <2> HIDE DEF state, t
    <2>3. Step(q) /\ call'[q] = state
      BY <1>2, <1>6, <2>1, <2>2, ReadStep
    <2>4. targets' = targets /\ reports' = reports
      BY <1>6 DEF ReadOnly
    <2>5. \A y \in {c.source, c.destination} : Mergeable(y, c.source, c.destination)
      BY <1>2, <1>5, <1>7
    <2>6. Held(q)'
      <3> DEFINE d == call'[q]
      <3>1. /\ d.pc = "moveReports" /\ d.locked = {c.source, c.destination}
            /\ d.source = c.source /\ d.destination = c.destination /\ d.taken = c.taken
        BY <1>5, <2>1, <2>3
      <3> QED BY <1>1, <1>3, <2>4, <2>5, <3>1 DEF Held, Merging, Exists, Mergeable
    <2> QED BY <2>3, <2>6
  <1>8. CASE ~Mergeable(t, c.source, c.destination)
    <2>1. Becomes(q, Idle)
      BY <1>8 DEF LockSecond
    <2>2. Held(q)'
      BY <2>1, EndsIdle
    <2>3. \A y \in Idle.locked : FALSE
      BY DEF Idle
    <2>4. Step(q)
      BY <1>6, <2>1, <2>3, IdleType, ReadStep
    <2> QED BY <2>2, <2>4
  <1> QED BY <1>7, <1>8

LEMMA MoveReportsStep ==
  ASSUME LockInv, NEW q \in Request, MoveReports(q)
  PROVE  Step(q) /\ Held(q)'
  <1> DEFINE c == call[q]
             state == [c EXCEPT !.pc = "merge", !.taken = ToMove(c)]
  <1>1. Held(q) /\ c \in Call /\ c.pc = "moveReports"
    BY DEF LockInv, TypeOK, MoveReports, At
  <1>2. calls' \in 0..MaxCalls /\ ReadOnly
    BY DEF MoveReports, LockInv, TypeOK, ReadOnly
  <1>3. ToMove(c) \subseteq ReportId /\ \A i \in ToMove(c) : reports[i] # None
    BY DEF ToMove
  <1>4. CASE ~Collide(c)
    <2>1. /\ state \in Call /\ state.pc = "merge" /\ state.locked = c.locked
          /\ state.source = c.source /\ state.destination = c.destination
          /\ state.taken = ToMove(c)
      BY <1>1, <1>3 DEF Call
    <2>2. Becomes(q, state)
      BY <1>4 DEF MoveReports
    <2> HIDE DEF state
    <2>3. Step(q) /\ call'[q] = state
      BY <1>2, <2>1, <2>2, ReadStep
    <2>4. targets' = targets /\ reports' = reports
      BY <1>2 DEF ReadOnly
    <2>5. Held(q)'
      <3> DEFINE d == call'[q]
      <3>1. /\ d.pc = "merge" /\ d.locked = c.locked
            /\ d.source = c.source /\ d.destination = c.destination /\ d.taken = ToMove(c)
        BY <2>1, <2>3
      <3> QED BY <1>1, <1>3, <2>4, <3>1 DEF Held, Merging, Exists, Mergeable
    <2> QED BY <2>3, <2>5
  <1>5. CASE Collide(c)
    <2>1. Becomes(q, Idle)
      BY <1>5 DEF MoveReports
    <2>2. Held(q)'
      BY <2>1, EndsIdle
    <2>3. \A y \in Idle.locked : FALSE
      BY DEF Idle
    <2>4. Step(q)
      BY <1>2, <2>1, <2>3, IdleType, ReadStep
    <2> QED BY <2>2, <2>4
  <1> QED BY <1>4, <1>5

(* The destination is still published when the source starts to point at   *)
(* it: both rows are locked.                                               *)
LEMMA CommitMergeStep ==
  ASSUME LockInv, NEW q \in Request, CommitMerge(q)
  PROVE  /\ Step(q) /\ Held(q)'
         /\ \E s \in Target, d \in Target, row \in TargetRow :
              /\ s # d /\ Exists(s) /\ Exists(d) /\ targets[d].status = "published"
              /\ row.status = "merged" /\ row.into = d
              /\ row.city = targets[s].city /\ row.area = targets[s].area
              /\ targets' = [targets EXCEPT ![s] = row]
  <1> DEFINE s == call[q].source
             d == call[q].destination
             row == [targets[s] EXCEPT !.status = "merged", !.into = d]
             moved(i) == [reports[i] EXCEPT !.target = d]
  <1>1. /\ s \in Target /\ d \in Target /\ s # d /\ Exists(s) /\ Exists(d)
        /\ call[q].locked = {s, d} /\ targets[d].status = "published"
        /\ \A i \in call[q].taken : reports[i] # None
    BY DEF LockInv, Held, Merging, Mergeable, CommitMerge, At
  <1>2. targets[s] \in TargetRow
    BY <1>1, RowType DEF LockInv
  <1>3. /\ row \in TargetRow /\ row.status = "merged" /\ row.into = d
        /\ row.city = targets[s].city /\ row.area = targets[s].area
    BY <1>1, <1>2 DEF TargetRow, TargetStatus
  <1>4. /\ targets' = [targets EXCEPT ![s] = row] /\ Becomes(q, Idle) /\ calls' = calls
        /\ reports' = [i \in ReportId |-> IF i \in call[q].taken THEN moved(i) ELSE reports[i]]
    BY <1>1, <1>2 DEF CommitMerge, LockInv, TypeOK, TargetRow
  <1>5. ASSUME NEW i \in ReportId, i \in call[q].taken
        PROVE  moved(i) \in Report
    BY <1>1, <1>5 DEF Report, LockInv, TypeOK
  <1> HIDE DEF row, moved, s, d
  <1>6. None \notin TargetRow /\ None \notin Report
    BY CatalogAssumption
  <1>7. reports' \in [ReportId -> Report \cup {None}]
    BY <1>4, <1>5 DEF LockInv, TypeOK
  <1>8. \A i \in ReportId : reports[i] # None => reports'[i] # None
    BY <1>4, <1>5, <1>6
  <1>9. Held(q)' /\ (\E state \in Call : Becomes(q, state))
        /\ (\A x \in call'[q].locked : x \in call[q].locked \/ ~Locked(x))
    BY <1>4, EndsIdle
  <1>10. Step(q)
    BY <1>1, <1>3, <1>4, <1>6, <1>7, <1>8, <1>9 DEF Step, LockInv, TypeOK, Exists
  <1> QED BY <1>1, <1>3, <1>4, <1>9, <1>10

LEMMA GiveUpStep ==
  ASSUME LockInv, NEW q \in Request, GiveUp(q)
  PROVE  Step(q) /\ Held(q)'
  <1>1. Becomes(q, Idle) /\ ReadOnly /\ calls' \in 0..MaxCalls
    BY DEF GiveUp, ReadOnly, LockInv, TypeOK
  <1>2. \A y \in Idle.locked : FALSE
    BY DEF Idle
  <1> QED BY <1>1, <1>2, IdleType, ReadStep, EndsIdle

----------------------------------------------------------------------------
(* What a step may do to the targets.                                      *)

(* A step adds a target, moves it to another place, decides about it or    *)
(* merges it into a published one.                                         *)
Added(t, row) == ~Exists(t) /\ row.into = None /\ row.status # "merged"
                 /\ <<row.city, row.area>> \in Places
Relocated(t, row) == Exists(t) /\ row.status = targets[t].status /\ row.into = targets[t].into
                     /\ <<row.city, row.area>> \in Places
Kept(t, row) == Exists(t) /\ row.city = targets[t].city /\ row.area = targets[t].area
Decided(t, row) == Kept(t, row) /\ row.into = None /\ row.status # "merged"
Merged(t, row) == \E d \in Target :
                     /\ Kept(t, row) /\ row.status = "merged" /\ row.into = d
                     /\ d # t /\ Exists(d) /\ targets[d].status = "published"

Written(t, row) ==
    /\ targets' = [targets EXCEPT ![t] = row]
    /\ Added(t, row) \/ Relocated(t, row) \/ Decided(t, row) \/ Merged(t, row)

LEMMA HandleStep ==
  ASSUME LockInv, NEW q \in Request, Handle(q)
  PROVE  /\ Step(q) /\ Held(q)'
         /\ targets' = targets \/ \E t \in Target, row \in TargetRow : Written(t, row)
  <1>1. CASE \E t \in Target, p \in Places, auto \in BOOLEAN : Create(q, t, p, auto)
    <2>1. PICK t \in Target, p \in Places, auto \in BOOLEAN : Create(q, t, p, auto)
      BY <1>1
    <2> DEFINE row == [status |-> IF auto THEN "published" ELSE "pending", into |-> None,
                       city |-> p[1], area |-> p[2]]
    <2>2. row \in TargetRow /\ row.into = None /\ row.status # "merged"
          /\ <<row.city, row.area>> = p
      BY DEF TargetRow, TargetStatus, Places
    <2>3. ~Exists(t) /\ targets' = [targets EXCEPT ![t] = row]
      BY <2>1 DEF Create
    <2> HIDE DEF row
    <2>4. Written(t, row)
      BY <2>2, <2>3 DEF Written, Added
    <2> QED BY <2>1, <2>2, <2>4, CreateStep
  <1>2. CASE \E t \in Target, city \in City \cup {None}, area \in Area \cup {None} :
               StartUpdate(q, t, city, area)
    BY <1>2, StartUpdateStep DEF StartUpdate, ReadOnly
  <1>3. CASE \E t \in Target, status \in {"published", "hidden", "removed"} :
               StartDecide(q, t, status)
    BY <1>3, StartDecideStep DEF StartDecide, ReadOnly
  <1>4. CASE \E i \in ReportId, u \in User, t \in Target : StartFile(q, i, u, t)
    BY <1>4, StartFileStep DEF StartFile, ReadOnly
  <1>5. CASE \E s, d \in Target : LockFirst(q, s, d)
    BY <1>5, LockFirstStep DEF LockFirst, ReadOnly
  <1>6. CASE \E i \in ReportId, status \in Decision : StartResolve(q, i, status)
    BY <1>6, StartResolveStep DEF StartResolve, ReadOnly
  <1>7. CASE CommitUpdate(q)
    BY <1>7, CommitUpdateStep DEF Written, Relocated
  <1>8. CASE CommitDecide(q)
    BY <1>8, CommitDecideStep DEF Written, Decided, Kept
  <1>9. CASE CommitResolve(q)
    BY <1>9, CommitResolveStep DEF CommitResolve
  <1>10. CASE LockSecond(q)
    BY <1>10, LockSecondStep DEF LockSecond
  <1>11. CASE MoveReports(q)
    BY <1>11, MoveReportsStep DEF MoveReports
  <1>12. CASE CommitMerge(q)
    <2>1. PICK s \in Target, d \in Target, row \in TargetRow :
              /\ s # d /\ Exists(s) /\ Exists(d) /\ targets[d].status = "published"
              /\ row.status = "merged" /\ row.into = d
              /\ row.city = targets[s].city /\ row.area = targets[s].area
              /\ targets' = [targets EXCEPT ![s] = row]
      BY <1>12, CommitMergeStep
    <2>2. Written(s, row)
      BY <2>1 DEF Written, Merged, Kept
    <2> QED BY <1>12, <2>2, CommitMergeStep
  <1>13. CASE GiveUp(q)
    BY <1>13, GiveUpStep DEF GiveUp
  <1>14. CASE CommitFile(q)
    BY <1>14, CommitFileStep DEF CommitFile
  <1> QED
    BY <1>1, <1>2, <1>3, <1>4, <1>5, <1>6, <1>7, <1>8, <1>9, <1>10, <1>11, <1>12, <1>13, <1>14
    DEF Handle, create, update, decideTarget, fileReport, resolveReport, mergeTargets

----------------------------------------------------------------------------
(* Locks.                                                                  *)

LEMMA InitLock == Init => LockInv
  <1> SUFFICES ASSUME Init PROVE LockInv
    OBVIOUS
  <1>1. targets \in [Target -> TargetRow \cup {None}]
    BY InitialAssumption DEF Init
  <1>2. /\ call = [q \in Request |-> Idle] /\ reports = [i \in ReportId |-> None] /\ calls = 0
    BY DEF Init
  <1>3. TypeOK
    BY <1>1, <1>2, IdleType, CatalogAssumption DEF TypeOK
  <1>4. Idle.locked = {} /\ Idle.taken = {} /\ Idle.pc = "idle"
    BY DEF Idle
  <1>5. \A q \in Request : call[q].locked = {} /\ call[q].taken = {} /\ call[q].pc = "idle"
    BY <1>2, <1>4
  <1> QED BY <1>3, <1>5 DEF LockInv, Exclusive, Held, Merging

LEMMA NextLock == LockInv /\ [Next]_vars => LockInv'
  <1> SUFFICES ASSUME LockInv, [Next]_vars PROVE LockInv'
    OBVIOUS
  <1>1. CASE UNCHANGED vars
    BY <1>1 DEF vars, LockInv, TypeOK, Exclusive, Held, Merging, Mergeable, Exists,
                validateLocationRefs, Moved
  <1>2. CASE Next
    BY <1>2, HandleStep, StepInv DEF Next
  <1> QED BY <1>1, <1>2

LEMMA Locking == Spec => []LockInv
  BY InitLock, NextLock, PTL DEF Spec

(* Every write of a step is one of four.                                   *)
LEMMA NextWrites ==
  ASSUME LockInv, [Next]_vars
  PROVE  targets' = targets \/ \E t \in Target, row \in TargetRow : Written(t, row)
  BY HandleStep DEF Next, vars

----------------------------------------------------------------------------
(* The theorems.                                                           *)

(* Rows and requests keep their types for any number of targets, requests  *)
(* and reports (targets/repo.go, moderation.go, admin.go).                 *)
THEOREM TypeCorrect == Spec => []TypeOK
  BY Locking, PTL DEF LockInv

(* An area always lies in its target's city: the row is locked from the    *)
(* check to the update (repo.go:277-318).                                  *)
THEOREM AreasAgree == Spec => []AreaInCity
  <1>1. Init => AreaInCity
    BY InitialAssumption DEF Init, AreaInCity, Exists
  <1>2. AreaInCity /\ LockInv /\ [Next]_vars => AreaInCity'
    <2> SUFFICES ASSUME AreaInCity, LockInv, [Next]_vars PROVE AreaInCity'
      OBVIOUS
    <2>1. CASE targets' = targets
      BY <2>1 DEF AreaInCity, Exists
    <2>2. CASE \E t \in Target, row \in TargetRow : Written(t, row)
      <3>1. PICK t \in Target, row \in TargetRow : Written(t, row)
        BY <2>2
      <3>2. targets' = [targets EXCEPT ![t] = row]
        BY <3>1 DEF Written
      <3>3. <<row.city, row.area>> \in Places
        BY <3>1 DEF Written, Added, Relocated, Decided, Merged, Kept, AreaInCity
      <3> QED BY <3>2, <3>3 DEF AreaInCity, Exists, LockInv, TypeOK
    <2> QED BY <2>1, <2>2, NextWrites
  <1> QED BY <1>1, <1>2, Locking, PTL DEF Spec

(* No merge, decision or restoration closes a ring of targets merged into  *)
(* each other: what a merge points to is published, so it points nowhere.  *)
THEOREM LinksEnd == Spec => []MergesLeadSomewhere
  <1>1. Init => MergesLeadSomewhere
    <2> SUFFICES ASSUME Init PROVE MergesLeadSomewhere
      OBVIOUS
    <2>1. \A t \in Target : Exists(t) => targets[t].status # "merged" /\ ~Points(t)
      BY InitialAssumption DEF Init, Exists, Points
    <2>2. \A t \in Target : ~Points(t)
      BY <2>1 DEF Points
    <2> QED BY <2>1, <2>2 DEF MergesLeadSomewhere
  <1>2. MergesLeadSomewhere /\ LockInv /\ [Next]_vars => MergesLeadSomewhere'
    <2> SUFFICES ASSUME MergesLeadSomewhere, LockInv, [Next]_vars
                 PROVE  MergesLeadSomewhere'
      OBVIOUS
    <2>1. CASE targets' = targets
      BY <2>1 DEF MergesLeadSomewhere, Points, Exists
    <2>2. CASE \E t \in Target, row \in TargetRow : Written(t, row)
      <3>1. PICK t \in Target, row \in TargetRow : Written(t, row)
        BY <2>2
      <3>2. /\ targets' = [targets EXCEPT ![t] = row] /\ None \notin TargetRow
            /\ targets'[t] = row /\ row # None
            /\ \A x \in Target \ {t} : targets'[x] = targets[x]
        BY <3>1, CatalogAssumption DEF Written, LockInv, TypeOK
      <3>3. \A x \in Target \ {t} : (Exists(x)' <=> Exists(x)) /\ (Points(x)' <=> Points(x))
        BY <3>2 DEF Exists, Points
      <3>4. Points(t)' <=> row.into # None
        BY <3>2 DEF Exists, Points
      <3>5. row.status = "merged" <=> row.into # None
        BY <3>1, CatalogAssumption
        DEF Written, Added, Relocated, Decided, Merged, MergesLeadSomewhere, Points
      <3>6. \A x \in Target : Exists(x)' => (targets'[x].status = "merged" <=> Points(x)')
        BY <3>2, <3>3, <3>4, <3>5 DEF MergesLeadSomewhere
      <3>7. ASSUME NEW S \in (SUBSET Target) \ {{}}
            PROVE  \E x \in S : ~(Points(x)' /\ targets'[x].into \in S)
        <4>1. PICK x \in S : ~(Points(x) /\ targets[x].into \in S)
          BY <3>7 DEF MergesLeadSomewhere
        <4>2. CASE x # t
          BY <3>2, <3>3, <4>1, <4>2
        <4>3. CASE x = t /\ row.into = None
          BY <3>4, <4>1, <4>3
        <4>4. CASE x = t /\ row.into # None /\ row.into = targets[t].into /\ Points(t)
          BY <3>2, <4>1, <4>4
        <4>5. CASE x = t /\ Merged(t, row)
          <5>1. PICK d \in Target : row.into = d /\ d # t /\ Exists(d)
                                    /\ targets[d].status = "published"
            BY <4>5 DEF Merged
          <5>2. ~Points(d)'
            BY <3>3, <5>1 DEF MergesLeadSomewhere
          <5> QED BY <3>2, <4>1, <4>5, <5>1, <5>2
        <4> QED
          BY <3>1, <4>2, <4>3, <4>4, <4>5
          DEF Written, Added, Relocated, Decided, Points
      <3> QED BY <3>6, <3>7 DEF MergesLeadSomewhere
    <2> QED BY <2>1, <2>2, NextWrites
  <1> QED BY <1>1, <1>2, Locking, PTL DEF Spec

----------------------------------------------------------------------------
(* Waiting and deciding: what a request that waits for a row holds, and    *)
(* what a report tells while one decides about it.                         *)

Tells(r) ==
    /\ r.log # <<>> => r.log[Len(r.log)] = r.status
    /\ \A k \in 1..(Len(r.log) - 1) : r.log[k] # r.log[k + 1]

Waits(q) ==
    LET c == call[q] IN
    /\ c.pc \notin {"file", "merge", "resolve"} => c.taken = {}
    /\ c.pc = "lockSecond" => c.locked = {First(c.source, c.destination)}
    /\ c.pc = "resolve" => \A i \in c.taken : reports[i].status # c.decision

TakenByOne == \A p, q \in Request : p # q => call[p].taken \cap call[q].taken = {}

WaitInv ==
    /\ TakenByOne
    /\ \A q \in Request : Waits(q)
    /\ \A i \in ReportId : reports[i] # None => Tells(reports[i])

(* A step of q that leaves alone the reports the others have taken.        *)
Apart(q) ==
    /\ \E state : Becomes(q, state)
    /\ \A i \in call'[q].taken : i \in call[q].taken \/ ~Taken(i)
    /\ \A i \in ReportId :
          \/ reports'[i] = reports[i]
          \/ i \in call[q].taken
    /\ \A i \in ReportId : reports'[i] # None => Tells(reports'[i])

LEMMA WaitStep ==
  ASSUME LockInv, WaitInv, NEW q \in Request, Apart(q), Waits(q)'
  PROVE  WaitInv'
  <1>1. \A o \in Request \ {q} : call'[o] = call[o]
    BY DEF Apart, Becomes, LockInv, TypeOK
  <1>2. TakenByOne'
    <2>1. SUFFICES ASSUME NEW o \in Request, o # q
                   PROVE  (call[o].taken \cap call[q].taken = {})'
      BY <1>1 DEF WaitInv, TakenByOne
    <2>2. call[o].taken \cap call[q].taken = {}
      BY <2>1 DEF WaitInv, TakenByOne
    <2>3. \A i \in call'[q].taken : i \notin call[o].taken
      BY <2>1, <2>2 DEF Apart, Taken
    <2> QED BY <1>1, <2>1, <2>3
  <1>3. ASSUME NEW o \in Request \ {q} PROVE Waits(o)'
    <2>1. Waits(o) /\ Held(o) /\ call[o] \in Call /\ call'[o] = call[o]
      BY <1>1 DEF WaitInv, LockInv, TypeOK
    <2>2. call[o].taken \subseteq ReportId
      BY <2>1 DEF Call
    <2>3. \A i \in call[o].taken : reports'[i] = reports[i]
      BY <1>3, <2>1, <2>2 DEF Apart, WaitInv, TakenByOne, Held
    <2> QED BY <2>1, <2>3 DEF Waits
  <1> QED BY <1>2, <1>3 DEF WaitInv, Apart

LEMMA RestStep ==
  ASSUME LockInv, WaitInv, NEW q \in Request, Becomes(q, Idle), UNCHANGED reports
  PROVE  Apart(q) /\ Waits(q)'
  <1>1. call'[q] = Idle
    BY DEF Becomes, LockInv, TypeOK
  <1> QED BY <1>1 DEF Apart, Waits, Idle, WaitInv

(* A request that goes on without taking a report.                         *)
LEMMA HoldStep ==
  ASSUME LockInv, WaitInv, NEW q \in Request, NEW state \in Call, Becomes(q, state),
         UNCHANGED reports, state.taken = {},
         state.pc = "lockSecond" => state.locked = {First(state.source, state.destination)}
  PROVE  Apart(q) /\ Waits(q)'
  <1>1. call'[q] = state
    BY DEF Becomes, LockInv, TypeOK
  <1> QED BY <1>1 DEF Apart, Waits, WaitInv

LEMMA NextWait == LockInv /\ WaitInv /\ [Next]_vars => WaitInv'
  <1> SUFFICES ASSUME LockInv, WaitInv, [Next]_vars PROVE WaitInv'
    OBVIOUS
  <1>1. CASE UNCHANGED vars
    BY <1>1 DEF vars, WaitInv, TakenByOne, Waits
  <1>2. ASSUME NEW q \in Request, Handle(q) PROVE Apart(q) /\ Waits(q)'
    <2> DEFINE c == call[q]
    <2>0. c \in Call /\ Held(q) /\ Waits(q)
      BY DEF LockInv, TypeOK, WaitInv
    <2>1. ASSUME UNCHANGED <<reports, call>> PROVE Apart(q) /\ Waits(q)'
      BY <2>0, <2>1 DEF Apart, Becomes, Waits, WaitInv, LockInv, TypeOK
    <2>2. CASE create(q)
      BY <2>1, <2>2 DEF create, Create
    <2>3. CASE update(q)
      <3>1. ASSUME NEW t \in Target, NEW city \in City \cup {None}, NEW area \in Area \cup {None},
                   StartUpdate(q, t, city, area)
            PROVE  Apart(q) /\ Waits(q)'
        <4> DEFINE row == Moved([targets[t] EXCEPT !.city = None, !.area = None], city, area)
                   state == [Idle EXCEPT !.pc = "update", !.source = t, !.locked = {t},
                                         !.row = row]
        <4>1. row \in TargetRow
          BY <3>1, RowType, CatalogAssumption DEF StartUpdate, LockInv, Moved, TargetRow
        <4>2. state \in Call /\ state.taken = {} /\ state.pc = "update"
          BY <4>1 DEF Idle, Call
        <4>3. Becomes(q, state) /\ UNCHANGED reports
          BY <3>1 DEF StartUpdate, ReadOnly
        <4> HIDE DEF state
        <4> QED BY <4>2, <4>3, HoldStep
      <3>2. ASSUME CommitUpdate(q) PROVE Apart(q) /\ Waits(q)'
        BY <3>2, RestStep DEF CommitUpdate
      <3> QED BY <2>3, <3>1, <3>2 DEF update
    <2>4. CASE decideTarget(q)
      <3>1. ASSUME NEW t \in Target, NEW status \in {"published", "hidden", "removed"},
                   StartDecide(q, t, status)
            PROVE  Apart(q) /\ Waits(q)'
        <4> DEFINE row == [targets[t] EXCEPT !.status = status, !.into = None]
                   state == [Idle EXCEPT !.pc = "decide", !.source = t, !.locked = {t},
                                         !.row = row]
        <4>1. row \in TargetRow
          BY <3>1, RowType DEF StartDecide, LockInv, TargetRow, TargetStatus
        <4>2. state \in Call /\ state.taken = {} /\ state.pc = "decide"
          BY <4>1 DEF Idle, Call
        <4>3. Becomes(q, state) /\ UNCHANGED reports
          BY <3>1 DEF StartDecide, ReadOnly
        <4> HIDE DEF state
        <4> QED BY <4>2, <4>3, HoldStep
      <3>2. ASSUME CommitDecide(q) PROVE Apart(q) /\ Waits(q)'
        BY <3>2, RestStep DEF CommitDecide
      <3> QED BY <2>4, <3>1, <3>2 DEF decideTarget
    <2>5. CASE fileReport(q)
      <3>1. ASSUME NEW i \in ReportId, NEW u \in User, NEW t \in Target, StartFile(q, i, u, t)
            PROVE  Apart(q) /\ Waits(q)'
        <4> DEFINE state == [Idle EXCEPT !.pc = "file", !.source = t, !.taken = {i}, !.by = u]
        <4>1. state \in Call /\ state.pc = "file" /\ state.taken = {i}
          BY DEF Idle, Call
        <4>2. Becomes(q, state) /\ UNCHANGED reports /\ ~Taken(i)
          BY <3>1 DEF StartFile, ReadOnly
        <4> HIDE DEF state
        <4>3. call'[q] = state
          BY <4>2 DEF Becomes, LockInv, TypeOK
        <4> QED BY <4>1, <4>2, <4>3 DEF Apart, Waits, WaitInv
      <3>2. ASSUME CommitFile(q) PROVE Apart(q) /\ Waits(q)'
        <4> DEFINE report == [by |-> c.by, target |-> c.source, status |-> "open", log |-> <<>>]
        <4>1. Tells(report)
          BY DEF Tells
        <4>2. /\ reports' = [i \in ReportId |-> IF i \in c.taken THEN report ELSE reports[i]]
              /\ Becomes(q, Idle)
          BY <3>2 DEF CommitFile
        <4> HIDE DEF report
        <4>3. \A i \in ReportId : /\ reports'[i] = reports[i] \/ i \in c.taken
                                  /\ reports'[i] # None => Tells(reports'[i])
          BY <4>1, <4>2 DEF WaitInv
        <4>4. call'[q] = Idle
          BY <4>2 DEF Becomes, LockInv, TypeOK
        <4>5. Waits(q)' /\ call'[q].taken = {}
          BY <4>4 DEF Waits, Idle
        <4> QED BY <4>2, <4>3, <4>5 DEF Apart
      <3> QED BY <2>5, <3>1, <3>2 DEF fileReport
    <2>6. CASE resolveReport(q)
      <3>1. ASSUME NEW i \in ReportId, NEW status \in Decision, StartResolve(q, i, status)
            PROVE  Apart(q) /\ Waits(q)'
        <4> DEFINE state == [Idle EXCEPT !.pc = "resolve", !.taken = {i}, !.decision = status]
        <4>1. state \in Call /\ state.pc = "resolve" /\ state.taken = {i}
              /\ state.decision = status
          BY DEF Idle, Call
        <4>2. Becomes(q, state) /\ UNCHANGED reports /\ ~Taken(i) /\ reports[i].status # status
          BY <3>1 DEF StartResolve, ReadOnly
        <4> HIDE DEF state
        <4>3. call'[q] = state
          BY <4>2 DEF Becomes, LockInv, TypeOK
        <4> QED BY <4>1, <4>2, <4>3 DEF Apart, Waits, WaitInv
      <3>2. ASSUME CommitResolve(q) PROVE Apart(q) /\ Waits(q)'
        <4>1. /\ c.pc = "resolve" /\ Becomes(q, Idle) /\ c.decision \in Decision
              /\ \A i \in c.taken : reports[i].status # c.decision /\ reports[i] # None
          BY <2>0, <3>2 DEF CommitResolve, At, Waits, Held
        <4>2. ASSUME NEW i \in ReportId, i \in c.taken
              PROVE  Tells([reports[i] EXCEPT !.status = c.decision,
                                              !.log = Append(@, c.decision)])
          <5> DEFINE r == reports[i]
                     n == Len(r.log)
          <5>1. r \in Report /\ Tells(r) /\ r.status # c.decision
            BY <4>1, <4>2 DEF LockInv, TypeOK, WaitInv
          <5>2. r.log \in Seq(Decision) /\ n \in Nat
            BY <5>1 DEF Report
          <5>3. /\ Len(Append(r.log, c.decision)) = n + 1
                /\ Append(r.log, c.decision)[n + 1] = c.decision
                /\ \A k \in 1..n : Append(r.log, c.decision)[k] = r.log[k]
            BY <4>1, <5>2
          <5>4. n # 0 => r.log[n] # c.decision
            BY <5>1, <5>2 DEF Tells
          <5>5. \A k \in 1..n : Append(r.log, c.decision)[k] # Append(r.log, c.decision)[k + 1]
            <6> SUFFICES ASSUME NEW k \in 1..n
                         PROVE  Append(r.log, c.decision)[k] # Append(r.log, c.decision)[k + 1]
              OBVIOUS
            <6>1. CASE k = n
              BY <5>2, <5>3, <5>4, <6>1
            <6>2. CASE k # n
              <7>1. k \in 1..(n - 1) /\ k + 1 \in 1..n
                BY <5>2, <6>2
              <7> QED BY <5>1, <5>3, <7>1 DEF Tells
            <6> QED BY <6>1, <6>2
          <5>6. /\ [r EXCEPT !.status = c.decision, !.log = Append(@, c.decision)].log
                     = Append(r.log, c.decision)
                /\ [r EXCEPT !.status = c.decision, !.log = Append(@, c.decision)].status
                     = c.decision
            BY <5>1 DEF Report
          <5> QED BY <5>2, <5>3, <5>5, <5>6 DEF Tells
        <4>3. \A i \in ReportId : reports'[i] = IF i \in c.taken
                THEN [reports[i] EXCEPT !.status = c.decision, !.log = Append(@, c.decision)]
                ELSE reports[i]
          BY <3>2 DEF CommitResolve
        <4>4. \A i \in ReportId : reports'[i] # None => Tells(reports'[i])
          BY <4>2, <4>3 DEF WaitInv
        <4>5. call'[q] = Idle
          BY <4>1 DEF Becomes, LockInv, TypeOK
        <4>6. Waits(q)'
          BY <4>5 DEF Waits, Idle
        <4>7. call'[q].taken = {}
          BY <4>5 DEF Idle
        <4>8. \A i \in ReportId : reports'[i] = reports[i] \/ i \in c.taken
          BY <4>3
        <4> QED BY <4>1, <4>4, <4>6, <4>7, <4>8 DEF Apart
      <3> QED BY <2>6, <3>1, <3>2 DEF resolveReport
    <2>7. CASE mergeTargets(q)
      <3>1. ASSUME NEW s \in Target, NEW d \in Target, LockFirst(q, s, d)
            PROVE  Apart(q) /\ Waits(q)'
        <4> DEFINE t == First(s, d)
                   state == [Idle EXCEPT !.pc = "lockSecond", !.locked = {t},
                                         !.source = s, !.destination = d]
        <4>1. t \in Target
          BY DEF First
        <4> HIDE DEF t
        <4>2. state \in Call /\ state.taken = {} /\ state.locked = {t} /\ state.source = s
              /\ state.destination = d
          BY <4>1 DEF Idle, Call
        <4>3. Becomes(q, state) /\ UNCHANGED reports
          BY <3>1 DEF LockFirst, ReadOnly, t
        <4>4. state.locked = {First(state.source, state.destination)}
          BY <4>2 DEF t
        <4> HIDE DEF state
        <4> QED BY <4>2, <4>3, <4>4, HoldStep
      <3>2. ASSUME LockSecond(q) PROVE Apart(q) /\ Waits(q)'
        <4> DEFINE t == Other(c)
                   state == [c EXCEPT !.pc = "moveReports", !.locked = @ \cup {t}]
        <4>1. UNCHANGED reports /\ c.pc = "lockSecond" /\ c.taken = {}
          BY <2>0, <3>2 DEF LockSecond, At, Waits
        <4>2. CASE Becomes(q, Idle)
          BY <4>1, <4>2, RestStep
        <4>3. CASE Becomes(q, state)
          <5>1. state.taken = {} /\ state.pc = "moveReports"
            BY <2>0, <4>1 DEF Call
          <5>2. call'[q] = state
            BY <4>3 DEF Becomes, LockInv, TypeOK
          <5> HIDE DEF state
          <5> QED BY <4>1, <4>3, <5>1, <5>2 DEF Apart, Waits, WaitInv
        <4> QED BY <3>2, <4>2, <4>3 DEF LockSecond
      <3>3. ASSUME MoveReports(q) PROVE Apart(q) /\ Waits(q)'
        <4> DEFINE state == [c EXCEPT !.pc = "merge", !.taken = ToMove(c)]
        <4>1. UNCHANGED reports /\ c.pc = "moveReports" /\ \A i \in ToMove(c) : ~Taken(i)
          BY <3>3 DEF MoveReports, At
        <4>2. CASE Becomes(q, Idle)
          BY <4>1, <4>2, RestStep
        <4>3. CASE Becomes(q, state)
          <5>1. state.taken = ToMove(c) /\ state.pc = "merge"
            BY <2>0 DEF Call
          <5>2. call'[q] = state
            BY <4>3 DEF Becomes, LockInv, TypeOK
          <5> HIDE DEF state
          <5> QED BY <4>1, <4>3, <5>1, <5>2 DEF Apart, Waits, WaitInv
        <4> QED BY <3>3, <4>2, <4>3 DEF MoveReports
      <3>4. ASSUME CommitMerge(q) PROVE Apart(q) /\ Waits(q)'
        <4>1. Becomes(q, Idle) /\ c.taken \subseteq ReportId
              /\ \A i \in c.taken : reports[i] # None
          BY <2>0, <3>4 DEF CommitMerge, Call, Held, At
        <4>2. \A i \in ReportId : reports'[i] =
                IF i \in c.taken THEN [reports[i] EXCEPT !.target = c.destination] ELSE reports[i]
          BY <3>4 DEF CommitMerge
        <4>3. ASSUME NEW i \in ReportId, i \in c.taken
              PROVE  Tells([reports[i] EXCEPT !.target = c.destination])
          <5>1. reports[i] \in Report /\ Tells(reports[i])
            BY <4>1, <4>3 DEF LockInv, TypeOK, WaitInv
          <5>2. /\ [reports[i] EXCEPT !.target = c.destination].log = reports[i].log
                /\ [reports[i] EXCEPT !.target = c.destination].status = reports[i].status
            BY <5>1 DEF Report
          <5> QED BY <5>1, <5>2 DEF Tells
        <4>4. \A i \in ReportId : reports'[i] # None => Tells(reports'[i])
          BY <4>2, <4>3 DEF WaitInv
        <4>5. call'[q] = Idle
          BY <4>1 DEF Becomes, LockInv, TypeOK
        <4>6. Waits(q)'
          BY <4>5 DEF Waits, Idle
        <4>7. call'[q].taken = {}
          BY <4>5 DEF Idle
        <4>8. \A i \in ReportId : reports'[i] = reports[i] \/ i \in c.taken
          BY <4>2
        <4> QED BY <4>1, <4>4, <4>6, <4>7, <4>8 DEF Apart
      <3> QED BY <2>7, <3>1, <3>2, <3>3, <3>4 DEF mergeTargets
    <2>8. CASE GiveUp(q)
      BY <2>8, RestStep DEF GiveUp
    <2> QED BY <1>2, <2>2, <2>3, <2>4, <2>5, <2>6, <2>7, <2>8 DEF Handle
  <1>3. CASE Next
    BY <1>2, <1>3, WaitStep DEF Next
  <1> QED BY <1>1, <1>3

LEMMA InitWait == Init => WaitInv
  <1> SUFFICES ASSUME Init PROVE WaitInv
    OBVIOUS
  <1>1. \A q \in Request : call[q].taken = {} /\ call[q].pc = "idle"
    BY DEF Init, Idle
  <1>2. \A i \in ReportId : reports[i] = None
    BY DEF Init
  <1> QED BY <1>1, <1>2 DEF WaitInv, TakenByOne, Waits

LEMMA WaitLocks == Spec => [](LockInv /\ WaitInv)
  BY InitWait, NextWait, Locking, PTL DEF Spec

(* Requests that file no report never wait in a circle: a merge with one of *)
(* its targets locked, the smaller, waits for a greater one, and a merge    *)
(* that waits for reports waits for requests that wait for nobody           *)
(* (admin.go:272-276, :313-317).                                           *)
THEOREM MergesQueueUp == Spec => []WaitInOrder
  <1>1. LockInv /\ WaitInv => WaitInOrder
    <2> SUFFICES ASSUME LockInv, WaitInv, NEW p \in Request, NEW q \in Request,
                        WaitsFor(p, q), ~At(p, "file"), ~At(q, "file"),
                        At(q, "lockSecond") \/ At(q, "moveReports")
                 PROVE  \/ At(p, "lockSecond") /\ At(q, "moveReports")
                        \/ /\ At(p, "lockSecond") /\ At(q, "lockSecond")
                           /\ \A s \in call[p].locked, t \in call[q].locked : s < t
      BY DEF WaitInOrder
    <2>1. call[q].taken = {}
      BY DEF WaitInv, Waits, At
    <2>2. At(p, "lockSecond") /\ Other(call[p]) \in call[q].locked
      BY <2>1 DEF WaitsFor, InTheWay
    <2>3. CASE At(q, "lockSecond")
      <3> DEFINE c == call[p]
                 first == First(c.source, c.destination)
      <3>1. Held(p) /\ Waits(p) /\ Waits(q) /\ c.pc = "lockSecond"
        BY <2>2 DEF LockInv, WaitInv, At
      <3>2. /\ c.source \in Int /\ c.destination \in Int /\ c.source # c.destination
            /\ c.locked = {first}
        BY <3>1, CatalogAssumption DEF Held, Merging, Waits
      <3>3. Other(c) \in {c.source, c.destination} /\ Other(c) \notin c.locked
        BY <3>2 DEF Other, First
      <3>4. first < Other(c)
        BY <3>2, <3>3 DEF First
      <3>5. call[q].locked = {First(call[q].source, call[q].destination)}
        BY <2>3, <3>1 DEF Waits, At
      <3>6. call[q].locked = {Other(c)}
        BY <2>2, <3>5
      <3> HIDE DEF first
      <3> QED BY <2>2, <2>3, <3>2, <3>4, <3>6
    <2> QED BY <2>2, <2>3
  <1> QED BY <1>1, WaitLocks, PTL

(* Two moderators never record the same decision on a report twice in a    *)
(* row: the report is locked from the look at its status to the write      *)
(* (moderation.go:203-212).                                                *)
THEOREM Decisive == Spec => []DecisionsDiffer
  <1>1. LockInv /\ WaitInv => DecisionsDiffer
    BY DEF WaitInv, Tells, DecisionsDiffer
  <1> QED BY <1>1, WaitLocks, PTL

----------------------------------------------------------------------------
(* What a merge moves.                                                     *)

(* Once a merge has taken the reports it moves, every open report on its   *)
(* source is among them: the source is locked, so none is filed.           *)
Drains(q) ==
    LET c == call[q] IN
    c.pc = "merge" =>
        \A i \in ReportId :
           reports[i] # None /\ reports[i].target = c.source /\ reports[i].status = "open"
           => i \in c.taken

DrainInv == \A q \in Request : Drains(q)

(* An open report was open before the step, on the same target or on one   *)
(* that came to lie on a row q holds, or it is new, on a row nobody holds. *)
OpenBefore(q, i) ==
    reports'[i] # None /\ reports'[i].status = "open" =>
        \/ /\ reports[i] # None /\ reports[i].status = "open"
           /\ \/ reports'[i].target = reports[i].target
              \/ reports'[i].target \in call[q].locked
        \/ ~Locked(reports'[i].target)

LEMMA OpensBefore ==
  ASSUME LockInv, NEW q \in Request, Handle(q), NEW i \in ReportId
  PROVE  OpenBefore(q, i)
  <1> DEFINE c == call[q]
  <1>0. Held(q) /\ c \in Call
    BY DEF LockInv, TypeOK
  <1>1. CASE reports' = reports
    BY <1>1 DEF OpenBefore
  <1>2. CASE CommitFile(q)
    <2>1. /\ ~Locked(c.source)
          /\ reports'[i] = IF i \in c.taken
                           THEN [by |-> c.by, target |-> c.source, status |-> "open", log |-> <<>>]
                           ELSE reports[i]
      BY <1>2 DEF CommitFile
    <2>2. CASE i \in c.taken
      BY <2>1, <2>2 DEF OpenBefore
    <2>3. CASE i \notin c.taken
      BY <2>1, <2>3 DEF OpenBefore
    <2> QED BY <2>2, <2>3
  <1>3. CASE CommitResolve(q)
    <2>1. /\ c.decision \in Decision /\ (i \in c.taken => reports[i] # None)
          /\ reports'[i] = IF i \in c.taken
                           THEN [reports[i] EXCEPT !.status = c.decision,
                                                   !.log = Append(@, c.decision)]
                           ELSE reports[i]
      BY <1>0, <1>3 DEF CommitResolve, Held, At
    <2>2. CASE i \in c.taken
      <3>1. reports[i] \in Report
        BY <2>1, <2>2 DEF LockInv, TypeOK
      <3>2. reports'[i].status = c.decision
        BY <2>1, <2>2, <3>1 DEF Report
      <3> QED BY <2>1, <3>2 DEF OpenBefore, Decision
    <2>3. CASE i \notin c.taken
      BY <2>1, <2>3 DEF OpenBefore
    <2> QED BY <2>2, <2>3
  <1>4. CASE CommitMerge(q)
    <2>1. /\ c.locked = {c.source, c.destination} /\ (i \in c.taken => reports[i] # None)
          /\ reports'[i] = IF i \in c.taken
                           THEN [reports[i] EXCEPT !.target = c.destination]
                           ELSE reports[i]
      BY <1>0, <1>4 DEF CommitMerge, Held, At
    <2>2. CASE i \in c.taken
      <3>1. reports[i] \in Report
        BY <2>1, <2>2 DEF LockInv, TypeOK
      <3>2. /\ reports'[i].target = c.destination /\ reports'[i].status = reports[i].status
        BY <2>1, <2>2, <3>1 DEF Report
      <3> QED BY <2>1, <2>2, <3>2 DEF OpenBefore
    <2>3. CASE i \notin c.taken
      BY <2>1, <2>3 DEF OpenBefore
    <2> QED BY <2>2, <2>3
  <1> QED
    BY <1>1, <1>2, <1>3, <1>4
    DEF Handle, create, update, decideTarget, fileReport, resolveReport, mergeTargets, Create,
        StartUpdate, CommitUpdate, StartDecide, CommitDecide, StartFile, StartResolve,
        LockFirst, LockSecond, MoveReports, GiveUp, ReadOnly

(* Only the last look at the reports brings a merge to its writes.         *)
LEMMA ComesToMerge ==
  ASSUME LockInv, NEW q \in Request, Handle(q), call'[q].pc = "merge"
  PROVE  \/ call' = call /\ call[q].pc = "idle"
         \/ /\ call'[q].taken = ToMove(call[q]) /\ call'[q].source = call[q].source
            /\ reports' = reports
  <1>0. call[q] \in Call /\ Idle \in Call /\ Idle.pc = "idle" /\ call \in [Request -> Call]
    BY IdleType DEF LockInv, TypeOK, Idle
  <1>1. ~Becomes(q, Idle)
    BY <1>0 DEF Becomes
  <1>2. ASSUME NEW s, NEW f \in {"update", "decide", "file", "lockSecond", "resolve"}, Becomes(q, s),
               s.pc = f
        PROVE  FALSE
    BY <1>0, <1>2 DEF Becomes
  <1>3. CASE create(q)
    BY <1>0, <1>3 DEF create, Create, Begin, At
  <1>4. CASE update(q)
    BY <1>0, <1>1, <1>2, <1>4 DEF update, StartUpdate, CommitUpdate, Idle
  <1>5. CASE decideTarget(q)
    BY <1>0, <1>1, <1>2, <1>5 DEF decideTarget, StartDecide, CommitDecide, Idle
  <1>6. CASE resolveReport(q)
    BY <1>0, <1>1, <1>2, <1>6 DEF resolveReport, StartResolve, CommitResolve, Idle
  <1>7. CASE mergeTargets(q)
    <2>1. CASE \E s, d \in Target : LockFirst(q, s, d)
      BY <1>0, <1>2, <2>1 DEF LockFirst, Idle
    <2>2. CASE LockSecond(q)
      <3> DEFINE both  == call[q].locked \cup {Other(call[q])}
                 state == [call[q] EXCEPT !.pc = "moveReports", !.locked = both]
      <3>1. Becomes(q, state)
        BY <1>1, <2>2 DEF LockSecond
      <3>2. state.pc = "moveReports"
        BY <1>0 DEF Call
      <3> HIDE DEF both, state
      <3>3. call'[q].pc = "moveReports"
        BY <1>0, <3>1, <3>2 DEF Becomes
      <3> QED BY <3>3
    <2>3. CASE MoveReports(q)
      <3> DEFINE c == call[q]
                 moves == ToMove(c)
                 state == [c EXCEPT !.pc = "merge", !.taken = moves]
      <3>1. state.taken = moves /\ state.source = c.source
        BY <1>0 DEF Call
      <3>2. Becomes(q, state) /\ reports' = reports
        BY <1>1, <2>3 DEF MoveReports
      <3> HIDE DEF moves, state
      <3>3. call'[q] = state
        BY <1>0, <3>2 DEF Becomes
      <3>4. call'[q].taken = moves /\ call'[q].source = c.source
        BY <3>1, <3>3
      <3> QED BY <3>2, <3>4 DEF moves
    <2>4. CASE CommitMerge(q)
      BY <1>1, <2>4 DEF CommitMerge
    <2> QED BY <1>7, <2>1, <2>2, <2>3, <2>4 DEF mergeTargets
  <1>8. CASE GiveUp(q)
    BY <1>1, <1>8 DEF GiveUp
  <1>9. CASE fileReport(q)
    BY <1>0, <1>1, <1>2, <1>9 DEF fileReport, StartFile, CommitFile, Idle
  <1> QED BY <1>3, <1>4, <1>5, <1>6, <1>7, <1>8, <1>9 DEF Handle

LEMMA NextDrain == DrainInv /\ LockInv /\ [Next]_vars => DrainInv'
  <1> SUFFICES ASSUME DrainInv, LockInv, [Next]_vars, NEW o \in Request PROVE Drains(o)'
    BY DEF DrainInv
  <1>1. CASE UNCHANGED vars
    BY <1>1 DEF vars, DrainInv, Drains
  <1>2. ASSUME NEW q \in Request, Handle(q) PROVE Drains(o)'
    <2>1. CASE o # q
      <3>1. call'[o] = call[o] /\ call[o] \in Call
        BY <1>2, <2>1, HandleStep DEF Step, Becomes, LockInv, TypeOK
      <3>2. SUFFICES ASSUME call[o].pc = "merge", NEW i \in ReportId, reports'[i] # None,
                            reports'[i].target = call[o].source, reports'[i].status = "open"
                     PROVE  i \in call[o].taken
        BY <3>1 DEF Drains
      <3>3. call[o].source \in call[o].locked
        BY <3>2 DEF LockInv, Held
      <3>4. Locked(call[o].source) /\ call[o].source \notin call[q].locked
        BY <2>1, <3>3 DEF Locked, LockInv, Exclusive
      <3>5. reports[i] # None /\ reports[i].status = "open" /\ reports[i].target = call[o].source
        BY <1>2, <3>2, <3>4, OpensBefore DEF OpenBefore
      <3> QED BY <3>2, <3>5 DEF DrainInv, Drains
    <2>2. CASE o = q
      <3>1. SUFFICES ASSUME call'[q].pc = "merge" PROVE Drains(q)'
        BY <2>2 DEF Drains
      <3>2. CASE /\ call'[q].taken = ToMove(call[q]) /\ call'[q].source = call[q].source
                 /\ reports' = reports
        BY <3>2 DEF Drains, ToMove, Waiting
      <3> QED BY <1>2, <3>1, <3>2, ComesToMerge
    <2> QED BY <2>1, <2>2
  <1> QED BY <1>1, <1>2 DEF Next

(* Only a merge marks a target merged, and it is the merge's source.       *)
LEMMA OnlyMerges ==
  ASSUME LockInv, NEW q \in Request, Handle(q), NEW t \in Target, Exists(t),
         targets[t].status # "merged", targets'[t].status = "merged"
  PROVE  CommitMerge(q) /\ call[q].source = t
  <1>1. targets' # targets
    OBVIOUS
  <1>2. ~create(q)
    BY DEF create, Create, LockInv, TypeOK
  <1>3. ~CommitUpdate(q)
    <2>1. SUFFICES ASSUME CommitUpdate(q) PROVE FALSE
      OBVIOUS
    <2>2. PICK s \in Target, row \in TargetRow :
             row.status = targets[s].status /\ targets' = [targets EXCEPT ![s] = row]
      BY <2>1, CommitUpdateStep
    <2> QED BY <2>2 DEF LockInv, TypeOK
  <1>4. ~CommitDecide(q)
    <2>1. SUFFICES ASSUME CommitDecide(q) PROVE FALSE
      OBVIOUS
    <2>2. PICK s \in Target, row \in TargetRow :
             row.status # "merged" /\ targets' = [targets EXCEPT ![s] = row]
      BY <2>1, CommitDecideStep
    <2> QED BY <2>2 DEF LockInv, TypeOK
  <1>5. CommitMerge(q)
    BY <1>1, <1>2, <1>3, <1>4
    DEF Handle, update, decideTarget, fileReport, resolveReport, mergeTargets, StartUpdate,
        StartDecide, StartFile, CommitFile, StartResolve, CommitResolve, LockFirst, LockSecond,
        MoveReports, GiveUp, ReadOnly
  <1>6. call[q].source = t
    BY <1>5 DEF CommitMerge, LockInv, TypeOK
  <1> QED BY <1>5, <1>6

(* A merge leaves no open report behind on the target it folds away: the   *)
(* source is locked from before its reports are looked at, and a report    *)
(* being decided is waited for (admin.go:264-317).                         *)
THEOREM NoReportLeft == Spec => OpenReportsMove
  <1>1. Init => DrainInv
    BY DEF Init, DrainInv, Drains, Idle
  <1>2. Spec => []DrainInv
    BY <1>1, NextDrain, Locking, PTL DEF Spec
  <1> DEFINE A == \A t \in Target :
                    Exists(t) /\ targets[t].status # "merged" /\ targets'[t].status = "merged"
                    => \A i \in ReportId : reports'[i] # None /\ reports'[i].target = t
                                           => reports'[i].status # "open"
  <1>3. LockInv /\ DrainInv /\ [Next]_vars => [A]_vars
    <2> SUFFICES ASSUME LockInv, DrainInv, Next,
                        NEW t \in Target, Exists(t), targets[t].status # "merged",
                        targets'[t].status = "merged",
                        NEW i \in ReportId, reports'[i] # None, reports'[i].target = t
                 PROVE  reports'[i].status # "open"
      OBVIOUS
    <2>1. PICK q \in Request : Handle(q)
      BY DEF Next
    <2> DEFINE c == call[q]
    <2>2. CommitMerge(q) /\ c.source = t
      BY <2>1, OnlyMerges
    <2>3. /\ Held(q) /\ Drains(q) /\ c.pc = "merge"
          /\ c.source # c.destination /\ (i \in c.taken => reports[i] # None)
          /\ reports'[i] = IF i \in c.taken
                           THEN [reports[i] EXCEPT !.target = c.destination]
                           ELSE reports[i]
      BY <2>2 DEF CommitMerge, LockInv, DrainInv, Held, Merging, At
    <2>4. CASE i \in c.taken
      <3>1. reports[i] \in Report
        BY <2>3, <2>4 DEF LockInv, TypeOK
      <3>2. reports'[i].target = c.destination
        BY <2>3, <2>4, <3>1 DEF Report
      <3> QED BY <2>2, <2>3, <3>2
    <2>5. CASE i \notin c.taken
      BY <2>2, <2>3, <2>5 DEF Drains
    <2> QED BY <2>4, <2>5
  <1> QED BY <1>2, <1>3, Locking, PTL DEF Spec, OpenReportsMove
================================================================================
