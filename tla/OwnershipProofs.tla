---------------------------- MODULE OwnershipProofs ----------------------------
(***************************************************************************)
(* Theorems about Ownership, for any number of users, businesses, reviews, *)
(* claims and requests: whoever manages a business does so by an approved  *)
(* claim, a claim's trail tells its history, no text of an answer is lost, *)
(* and only managers speak for a business.                                 *)
(***************************************************************************)
EXTENDS Ownership, TLAPS, SequenceTheorems

----------------------------------------------------------------------------
(* The inductive invariant.                                                *)

Deciding == {"grantMember", "grantRole", "removeMember", "stillOwner", "removeRole", "commit"}

(* A request that decides a claim.                                         *)
KnowsClaim(q) ==
    LET c == call[q] IN
    /\ c.pc \in Deciding <=> c.claim # None
    /\ c.claim = None => c.status = None /\ c.member = "kept"
    /\ c.claim # None =>
          /\ Of(c.claim, c.business, c.user)
          /\ c.status # None
          /\ claims[c.claim].status = IF c.status = "revoked" THEN "approved" ELSE "pending"
    /\ c.pc \in {"grantMember", "grantRole"} => c.status = "approved"
    /\ c.pc \in {"removeMember", "stillOwner", "removeRole"} => c.status = "revoked"
    /\ c.member = "added" => c.status = "approved"

(* A request that answers a review.                                        *)
KnowsAnswer(q) ==
    LET c == call[q] IN
    /\ c.pc \in {"mayEdit", "writeResponse"} <=> c.prev # None
    /\ c.prev # None => c.prev = response[c.review]
    /\ c.pc \in {"mayRespond", "insertResponse", "mayEdit", "writeResponse"} => c.review \in Review
    /\ c.pc \in {"mayRespond", "mayEdit"} /\ IsMember(c.business, c.user) => c.was
    /\ c.pc \in {"insertResponse", "writeResponse"} => c.was

Knows(q) ==
    /\ call[q].pc # "idle" => call[q].business \in Business /\ call[q].user \in User
    /\ KnowsClaim(q)
    /\ KnowsAnswer(q)

(* No two requests hold a row of a claim, or of an answer.                 *)
Exclusive ==
    \A p, q \in Request : p # q =>
        /\ call[p].claim # None => call[q].claim # call[p].claim
        /\ call[p].prev # None /\ call[q].prev # None => call[q].review # call[p].review

(* A revocation that found no membership to remove: its claim is about to  *)
(* go, and whatever membership there is rests on another.                  *)
Leaves(q) ==
    /\ call[q].status = "revoked" /\ call[q].member = "kept"
    /\ call[q].pc \in {"stillOwner", "removeRole", "commit"}

Backed(b, u) ==
    \E c \in ClaimId :
        /\ Of(c, b, u) /\ claims[c].status = "approved"
        /\ \A q \in Request : call[q].claim = c => ~Leaves(q)

MembersBacked == \A b \in Business, u \in User : IsMember(b, u) => Backed(b, u)

AnswersKept ==
    /\ EditsComplete
    /\ \A r \in Review : response[r] = None => edits[r] = <<>>

OwnershipInv ==
    /\ TypeOK
    /\ Exclusive
    /\ \A q \in Request : Knows(q)
    /\ MembersBacked
    /\ TrailTellsStatus
    /\ AnswersKept

----------------------------------------------------------------------------
(* Steps of one request.                                                   *)

LEMMA IdleCall == /\ Idle \in Call /\ Idle.pc = "idle" /\ Idle.claim = None /\ Idle.prev = None
                  /\ Idle.member = "kept" /\ Idle.status = None
  BY DEF Idle, Call

LEMMA IdleKnows ==
  ASSUME NEW q \in Request, call'[q] = Idle
  PROVE  Knows(q)' /\ ~Leaves(q)'
  <1>1. ~Leaves(q)'
    BY IdleCall DEF Leaves
  <1>2. KnowsClaim(q)' /\ KnowsAnswer(q)'
    BY IdleCall DEF KnowsClaim, KnowsAnswer, Deciding
  <1> QED BY <1>1, <1>2, IdleCall DEF Knows

(* A request knows what it knew, of rows that are left alone.              *)
LEMMA StillKnows ==
  ASSUME NEW o \in Request, Knows(o), call'[o] = call[o],
         call[o].claim # None => claims'[call[o].claim] = claims[call[o].claim],
         call[o].prev # None => response'[call[o].review] = response[call[o].review],
         UNCHANGED members
  PROVE  Knows(o)'
  <1>1. KnowsClaim(o)'
    BY DEF Knows, KnowsClaim, Of
  <1>2. KnowsAnswer(o)'
    BY DEF Knows, KnowsAnswer, IsMember
  <1> QED BY <1>1, <1>2 DEF Knows

(* A step of q that changes nothing but its own state.                     *)
LEMMA OwnStep ==
  ASSUME OwnershipInv, NEW q \in Request, NEW state \in Call,
         call' = [call EXCEPT ![q] = state], ReadOnly, Knows(q)',
         state.claim # None => state.claim = call[q].claim \/ ClaimFree(state.claim),
         state.prev # None =>
             \/ state.prev = call[q].prev /\ state.review = call[q].review
             \/ \A k \in Request : ~(call[k].review = state.review /\ call[k].prev # None),
         Leaves(q)' =>
             \/ state.claim = call[q].claim /\ Leaves(q)
             \/ ~IsMember(state.business, state.user)
  PROVE  OwnershipInv'
  <1>1. UNCHANGED <<claims, members, owners, business, profile, response, edits, trail, shown>>
    BY DEF ReadOnly, ClaimRows, Grants, Texts
  <1>2. call'[q] = state /\ \A o \in Request \ {q} : call'[o] = call[o]
    BY DEF OwnershipInv, TypeOK
  <1>3. TypeOK'
    BY <1>1 DEF OwnershipInv, TypeOK
  <1>4. \A o \in Request : Knows(o)'
    BY <1>1, <1>2, StillKnows DEF OwnershipInv
  <1>5. Exclusive'
    <2> SUFFICES ASSUME NEW o \in Request, NEW p \in Request, o # p
                 PROVE  (/\ call[o].claim # None => call[p].claim # call[o].claim
                         /\ call[o].prev # None /\ call[p].prev # None
                              => call[p].review # call[o].review)'
      BY DEF Exclusive
    <2>1. CASE o # q /\ p # q
      BY <1>2, <2>1 DEF OwnershipInv, Exclusive
    <2>2. CASE o = q /\ p # q
      BY <1>2, <2>2 DEF OwnershipInv, Exclusive, ClaimFree
    <2>3. CASE o # q /\ p = q
      BY <1>2, <2>3 DEF OwnershipInv, Exclusive, ClaimFree
    <2> QED BY <2>1, <2>2, <2>3
  <1>6. MembersBacked'
    <2> SUFFICES ASSUME NEW b \in Business, NEW u \in User, IsMember(b, u)'
                 PROVE  Backed(b, u)'
      BY DEF MembersBacked
    <2>1. PICK c \in ClaimId : /\ Of(c, b, u) /\ claims[c].status = "approved"
                               /\ \A o \in Request : call[o].claim = c => ~Leaves(o)
      BY <1>1 DEF OwnershipInv, MembersBacked, Backed, IsMember
    <2>2. \A o \in Request \ {q} : call'[o].claim = c => ~Leaves(o)'
      BY <1>2, <2>1 DEF Leaves
    <2>3. call'[q].claim = c => ~Leaves(q)'
      <3> SUFFICES ASSUME state.claim = c, Leaves(q)' PROVE FALSE
        BY <1>2
      <3>1. c # None
        BY OwnershipAssumption
      <3>2. Of(c, state.business, state.user)
        BY <1>1, <1>2, <3>1 DEF Knows, KnowsClaim, Of
      <3>3. state.business = b /\ state.user = u
        BY <2>1, <3>2 DEF Of
      <3> QED BY <1>1, <2>1, <3>3 DEF IsMember
    <2> QED BY <1>1, <2>1, <2>2, <2>3 DEF Backed, Of
  <1>7. TrailTellsStatus' /\ AnswersKept'
    BY <1>1 DEF OwnershipInv, TrailTellsStatus, AnswersKept, EditsComplete
  <1> QED BY <1>3, <1>4, <1>5, <1>6, <1>7 DEF OwnershipInv

LEMMA EndStep ==
  ASSUME OwnershipInv, NEW q \in Request, End(q)
  PROVE  OwnershipInv'
  <1>1. call' = [call EXCEPT ![q] = Idle] /\ ReadOnly /\ call'[q] = Idle
    BY DEF End, ReadOnly, OwnershipInv, TypeOK
  <1> QED BY <1>1, IdleCall, IdleKnows, OwnStep

(* A step from one state of a decision to the next.                        *)
LEMMA DecisionStep ==
  ASSUME OwnershipInv, NEW q \in Request, NEW pc \in Deciding,
         NEW member \in {"kept", "added", "removed"}, NEW role \in {"kept", "added", "removed"},
         call[q].pc \in Deciding,
         call' = [call EXCEPT ![q] = [call[q] EXCEPT !.pc = pc, !.member = member, !.role = role]],
         ReadOnly,
         pc \in {"grantMember", "grantRole"} \/ member = "added" => call[q].status = "approved",
         pc \in {"removeMember", "stillOwner", "removeRole"} => call[q].status = "revoked",
         member = "kept" /\ call[q].status = "revoked" =>
             \/ Leaves(q)
             \/ ~IsMember(call[q].business, call[q].user)
  PROVE  OwnershipInv'
  <1> DEFINE state == [call[q] EXCEPT !.pc = pc, !.member = member, !.role = role]
  <1>1. call[q] \in Call /\ Knows(q)
    BY DEF OwnershipInv, TypeOK
  <1>2. /\ state \in Call /\ state.pc = pc /\ state.member = member
        /\ state.claim = call[q].claim /\ state.status = call[q].status
        /\ state.business = call[q].business /\ state.user = call[q].user
        /\ state.prev = call[q].prev /\ state.review = call[q].review
        /\ call[q].pc \notin {"idle", "mayRespond", "insertResponse", "mayEdit", "writeResponse"}
        /\ pc \notin {"idle", "mayRespond", "insertResponse", "mayEdit", "writeResponse"}
    <2> DEFINE first == [call[q] EXCEPT !.pc = pc]
               second == [first EXCEPT !.member = member]
    <2>1. /\ first \in Call /\ first.pc = pc
          /\ first.claim = call[q].claim /\ first.status = call[q].status
          /\ first.business = call[q].business /\ first.user = call[q].user
          /\ first.prev = call[q].prev /\ first.review = call[q].review
      BY <1>1 DEF Call, Deciding
    <2> HIDE DEF first
    <2>2. /\ second \in Call /\ second.pc = pc /\ second.member = member
          /\ second.claim = call[q].claim /\ second.status = call[q].status
          /\ second.business = call[q].business /\ second.user = call[q].user
          /\ second.prev = call[q].prev /\ second.review = call[q].review
      BY <2>1 DEF Call
    <2>3. state = [second EXCEPT !.role = role]
      BY DEF first
    <2> HIDE DEF second, state
    <2>4. /\ state \in Call /\ state.pc = pc /\ state.member = member
          /\ state.claim = call[q].claim /\ state.status = call[q].status
          /\ state.business = call[q].business /\ state.user = call[q].user
          /\ state.prev = call[q].prev /\ state.review = call[q].review
      BY <2>2, <2>3 DEF Call
    <2> QED BY <2>4 DEF Deciding
  <1> HIDE DEF state
  <1>3. call' = [call EXCEPT ![q] = state] /\ call'[q] = state
    BY DEF OwnershipInv, TypeOK, state
  <1>4. UNCHANGED <<claims, response, members>>
    BY DEF ReadOnly, ClaimRows, Grants, Texts
  <1>5. KnowsClaim(q)'
    BY <1>1, <1>2, <1>3, <1>4 DEF Knows, KnowsClaim, Of
  <1>6. KnowsAnswer(q)'
    <2>1. call'[q].prev = None /\ call'[q].pc = pc
      BY <1>1, <1>2, <1>3 DEF Knows, KnowsAnswer
    <2> QED BY <1>2, <2>1 DEF KnowsAnswer
  <1>7. Knows(q)'
    BY <1>1, <1>2, <1>3, <1>5, <1>6 DEF Knows
  <1>8. Leaves(q)' => Leaves(q) \/ ~IsMember(state.business, state.user)
    BY <1>2, <1>3 DEF Leaves
  <1> QED BY <1>2, <1>3, <1>7, <1>8, OwnStep

(* A request that reads, and holds no row.                                 *)
LEMMA ReaderStep ==
  ASSUME OwnershipInv, NEW q \in Request, NEW state \in Call,
         call' = [call EXCEPT ![q] = state], ReadOnly,
         state.pc \in {"isMember", "insertClaim", "writeProfile", "mayRespond", "insertResponse"},
         state.claim = None, state.prev = None, state.member = "kept", state.status = None,
         state.business \in Business, state.user \in User,
         state.pc \in {"mayRespond", "insertResponse"} => state.review \in Review,
         state.pc = "mayRespond" /\ IsMember(state.business, state.user) => state.was,
         state.pc = "insertResponse" => state.was
  PROVE  OwnershipInv'
  <1>1. call'[q] = state
    BY DEF OwnershipInv, TypeOK
  <1>2. UNCHANGED members
    BY DEF ReadOnly, Grants
  <1>3. KnowsClaim(q)'
    BY <1>1 DEF KnowsClaim, Deciding
  <1>4. KnowsAnswer(q)'
    BY <1>1, <1>2 DEF KnowsAnswer, IsMember
  <1>5. Knows(q)' /\ ~Leaves(q)'
    BY <1>1, <1>3, <1>4 DEF Knows, Leaves
  <1> QED BY <1>5, OwnStep

LEMMA UpdateBusinessStep ==
  ASSUME OwnershipInv, NEW q \in Request, NEW b \in Business, NEW u \in User,
         UpdateBusiness(q, b, u)
  PROVE  OwnershipInv'
  <1> DEFINE state == [Idle EXCEPT !.pc = "writeProfile", !.business = b,
                                   !.user = u, !.was = IsMember(b, u)]
  <1>1. call' = [call EXCEPT ![q] = state] /\ ReadOnly
    BY DEF UpdateBusiness
  <1>2. IsMember(b, u) \in BOOLEAN
    BY DEF IsMember
  <1>3. /\ state \in Call /\ state.pc = "writeProfile" /\ state.claim = None
        /\ state.prev = None /\ state.member = "kept" /\ state.status = None
        /\ state.business = b /\ state.user = u
    BY <1>2 DEF Idle, Call
  <1> HIDE DEF state
  <1> QED BY <1>1, <1>3, ReaderStep

LEMMA SubmitStep ==
  ASSUME OwnershipInv, NEW q \in Request, NEW b \in Business, NEW u \in User, Submit(q, b, u)
  PROVE  OwnershipInv'
  <1> DEFINE state == [Idle EXCEPT !.pc = "isMember", !.business = b, !.user = u]
  <1>1. call' = [call EXCEPT ![q] = state] /\ ReadOnly
    BY DEF Submit
  <1>2. /\ state \in Call /\ state.pc = "isMember" /\ state.claim = None
        /\ state.prev = None /\ state.member = "kept" /\ state.status = None
        /\ state.business = b /\ state.user = u
    BY DEF Idle, Call
  <1> HIDE DEF state
  <1> QED BY <1>1, <1>2, ReaderStep

(* A reader goes on to its next statement.                                 *)
LEMMA GoesOn ==
  ASSUME OwnershipInv, NEW q \in Request, NEW pc \in {"insertClaim", "insertResponse"},
         Goto(q, pc), ReadOnly,
         pc = "insertClaim" => At(q, "isMember"),
         pc = "insertResponse" =>
             At(q, "mayRespond") /\ IsMember(call[q].business, call[q].user)
  PROVE  OwnershipInv'
  <1> DEFINE state == [call[q] EXCEPT !.pc = pc]
  <1>1. /\ call[q] \in Call /\ Knows(q) /\ call[q].pc \in {"isMember", "mayRespond"}
        /\ call' = [call EXCEPT ![q] = state]
    BY DEF OwnershipInv, TypeOK, Goto, At
  <1>2. /\ state \in Call /\ state.pc = pc /\ state.claim = call[q].claim
        /\ state.prev = call[q].prev /\ state.member = call[q].member
        /\ state.status = call[q].status /\ state.business = call[q].business
        /\ state.user = call[q].user /\ state.review = call[q].review
        /\ state.was = call[q].was
    BY <1>1 DEF Call
  <1> HIDE DEF state
  <1>3. call[q].claim = None /\ call[q].prev = None
    BY <1>1 DEF Knows, KnowsClaim, KnowsAnswer, Deciding
  <1>4. call[q].member = "kept" /\ call[q].status = None
    BY <1>1, <1>3 DEF Knows, KnowsClaim
  <1> QED BY <1>1, <1>2, <1>3, <1>4, ReaderStep DEF Knows, KnowsAnswer, At

LEMMA LockClaimStep ==
  ASSUME OwnershipInv, NEW q \in Request, NEW c \in ClaimId, NEW from, NEW to, NEW pc,
         \/ from = "pending" /\ to = "approved" /\ pc = "grantMember"
         \/ from = "pending" /\ to = "rejected" /\ pc = "commit"
         \/ from = "approved" /\ to = "revoked" /\ pc = "removeMember",
         LockClaim(q, c, from, to, pc)
  PROVE  OwnershipInv'
  <1> DEFINE state == [Idle EXCEPT !.pc = pc, !.claim = c, !.status = to,
                                   !.business = claims[c].business, !.user = claims[c].user]
  <1>1. /\ call' = [call EXCEPT ![q] = state] /\ ReadOnly /\ ClaimFree(c)
        /\ claims[c] # None /\ claims[c].status = from
    BY DEF LockClaim
  <1>2. claims[c] \in Claim /\ c # None
    BY <1>1, OwnershipAssumption DEF OwnershipInv, TypeOK
  <1>3. /\ pc \in {"grantMember", "commit", "removeMember"}
        /\ to \in {"approved", "rejected", "revoked"}
    OBVIOUS
  <1>4. /\ state \in Call /\ state.pc = pc /\ state.claim = c /\ state.status = to
        /\ state.business = claims[c].business /\ state.user = claims[c].user
        /\ state.prev = None /\ state.member = "kept"
        /\ state.business \in Business /\ state.user \in User
    BY <1>2, <1>3 DEF Idle, Call, Claim
  <1> HIDE DEF state
  <1>5. call'[q] = state /\ UNCHANGED claims
    BY <1>1 DEF OwnershipInv, TypeOK, ReadOnly, ClaimRows
  <1>6. KnowsClaim(q)'
    <2>1. claims'[c] # None /\ to # None /\ call'[q] = state
      BY <1>1, <1>3, <1>5, OwnershipAssumption
    <2>2. from = (IF to = "revoked" THEN "approved" ELSE "pending")
      OBVIOUS
    <2> QED BY <1>1, <1>2, <1>3, <1>4, <1>5, <2>1, <2>2 DEF KnowsClaim, Deciding, Of
  <1>7. KnowsAnswer(q)'
    BY <1>3, <1>4, <1>5 DEF KnowsAnswer
  <1>8. Knows(q)'
    BY <1>4, <1>5, <1>6, <1>7 DEF Knows
  <1>9. ~Leaves(q)'
    BY <1>4, <1>5 DEF Leaves
  <1> QED BY <1>1, <1>4, <1>8, <1>9, OwnStep

LEMMA RespondStep ==
  ASSUME OwnershipInv, NEW q \in Request, NEW r \in Review, NEW u \in User, Respond(q, r, u)
  PROVE  OwnershipInv'
  <1> DEFINE b == BusinessOf[r]
             state == [Idle EXCEPT !.pc = "mayRespond", !.review = r, !.user = u,
                                   !.business = b, !.was = IsMember(b, u)]
  <1>1. call' = [call EXCEPT ![q] = state] /\ ReadOnly
    BY DEF Respond
  <1>2. IsMember(b, u) \in BOOLEAN /\ b \in Business
    BY OwnershipAssumption DEF IsMember
  <1>3. /\ state \in Call /\ state.pc = "mayRespond" /\ state.claim = None
        /\ state.prev = None /\ state.member = "kept" /\ state.status = None
        /\ state.business = b /\ state.user = u /\ state.review = r
        /\ state.was = IsMember(b, u)
    BY <1>2 DEF Idle, Call
  <1> HIDE DEF state
  <1> QED BY <1>1, <1>2, <1>3, ReaderStep

LEMMA UpdateResponseStep ==
  ASSUME OwnershipInv, NEW q \in Request, NEW r \in Review, NEW u \in User,
         UpdateResponse(q, r, u)
  PROVE  OwnershipInv'
  <1> DEFINE b == BusinessOf[r]
             state == [Idle EXCEPT !.pc = "mayEdit", !.review = r, !.user = u,
                                   !.prev = response[r], !.business = b,
                                   !.was = IsMember(b, u)]
  <1>1. /\ call' = [call EXCEPT ![q] = state] /\ ReadOnly /\ response[r] # None
        /\ \A k \in Request : ~(call[k].review = r /\ call[k].prev # None)
    BY DEF UpdateResponse
  <1>2. IsMember(b, u) \in BOOLEAN /\ b \in Business /\ response[r] \in User
    BY <1>1, OwnershipAssumption DEF IsMember, OwnershipInv, TypeOK
  <1>3. /\ state \in Call /\ state.pc = "mayEdit" /\ state.claim = None
        /\ state.prev = response[r] /\ state.member = "kept" /\ state.status = None
        /\ state.business = b /\ state.user = u /\ state.review = r
        /\ state.was = IsMember(b, u)
    BY <1>2 DEF Idle, Call
  <1> HIDE DEF state, b
  <1>4. call'[q] = state /\ UNCHANGED <<response, members>>
    BY <1>1 DEF OwnershipInv, TypeOK, ReadOnly, Texts, Grants
  <1>5. KnowsClaim(q)' /\ ~Leaves(q)'
    BY <1>3, <1>4 DEF KnowsClaim, Deciding, Leaves
  <1>6. KnowsAnswer(q)'
    BY <1>1, <1>3, <1>4 DEF KnowsAnswer, IsMember
  <1>7. Knows(q)'
    BY <1>2, <1>3, <1>4, <1>5, <1>6 DEF Knows
  <1> QED BY <1>1, <1>3, <1>5, <1>7, OwnStep

LEMMA MayEditStep ==
  ASSUME OwnershipInv, NEW q \in Request, MayEdit(q)
  PROVE  OwnershipInv'
  <1>1. CASE ~IsMember(call[q].business, call[q].user)
    BY <1>1, EndStep DEF MayEdit
  <1>2. CASE IsMember(call[q].business, call[q].user)
    <2> DEFINE state == [call[q] EXCEPT !.pc = "writeResponse"]
    <2>1. /\ call[q] \in Call /\ Knows(q) /\ At(q, "mayEdit")
          /\ call' = [call EXCEPT ![q] = state] /\ ReadOnly
      BY <1>2 DEF OwnershipInv, TypeOK, MayEdit, Goto
    <2>2. /\ state \in Call /\ state.pc = "writeResponse" /\ state.claim = call[q].claim
          /\ state.prev = call[q].prev /\ state.member = call[q].member
          /\ state.status = call[q].status /\ state.business = call[q].business
          /\ state.user = call[q].user /\ state.review = call[q].review
          /\ state.was = call[q].was
      BY <2>1 DEF Call
    <2> HIDE DEF state
    <2>3. call'[q] = state /\ UNCHANGED <<response, members>>
      BY <2>1 DEF OwnershipInv, TypeOK, ReadOnly, Texts, Grants
    <2>4. KnowsClaim(q)' /\ ~Leaves(q)'
      BY <2>1, <2>2, <2>3 DEF Knows, KnowsClaim, Deciding, At, Leaves
    <2>5. KnowsAnswer(q)'
      BY <1>2, <2>1, <2>2, <2>3 DEF Knows, KnowsAnswer, At
    <2>6. Knows(q)'
      BY <2>1, <2>2, <2>3, <2>4, <2>5 DEF Knows, At
    <2> QED BY <2>1, <2>2, <2>4, <2>6, OwnStep
  <1> QED BY <1>1, <1>2

----------------------------------------------------------------------------
(* Steps that change more than the state of a request.                     *)

LEMMA CreateBusinessStep ==
  ASSUME OwnershipInv, NEW b \in Business, NEW u \in User, CreateBusiness(b, u)
  PROVE  OwnershipInv'
  <1>1. /\ UNCHANGED <<claims, trail, members, owners, response, edits, shown, call>>
        /\ business' = [business EXCEPT ![b] = "unverified"]
        /\ profile' = [profile EXCEPT ![b] = u]
    BY DEF CreateBusiness, ClaimRows
  <1>2. TypeOK'
    BY <1>1 DEF OwnershipInv, TypeOK
  <1> QED BY <1>1, <1>2
      DEF OwnershipInv, Exclusive, Knows, KnowsClaim, KnowsAnswer, MembersBacked, Backed, Leaves,
          Of, IsMember, TrailTellsStatus, AnswersKept, EditsComplete

LEMMA GrantRoleStep ==
  ASSUME OwnershipInv, NEW u \in User, GrantRole(u)
  PROVE  OwnershipInv'
  <1>1. /\ UNCHANGED <<claims, trail, members, business, profile, response, edits, shown, call>>
        /\ owners' = owners \cup {u}
    BY DEF GrantRole, ClaimRows, Texts
  <1>2. TypeOK'
    BY <1>1 DEF OwnershipInv, TypeOK
  <1> QED BY <1>1, <1>2
      DEF OwnershipInv, Exclusive, Knows, KnowsClaim, KnowsAnswer, MembersBacked, Backed, Leaves,
          Of, IsMember, TrailTellsStatus, AnswersKept, EditsComplete

(* The end of q: the claims it did not hold and the answers it did not     *)
(* write are those the other requests know of.                             *)
LEMMA FinishStep ==
  ASSUME OwnershipInv, NEW q \in Request, call' = [call EXCEPT ![q] = Idle], UNCHANGED members,
         \A o \in Request \ {q} : call[o].claim # None =>
             claims'[call[o].claim] = claims[call[o].claim],
         \A o \in Request \ {q} : call[o].prev # None =>
             response'[call[o].review] = response[call[o].review]
  PROVE  Exclusive' /\ \A o \in Request : Knows(o)'
  <1>1. call'[q] = Idle /\ \A o \in Request \ {q} : call'[o] = call[o]
    BY DEF OwnershipInv, TypeOK
  <1>2. Knows(q)'
    BY <1>1, IdleKnows
  <1>3. \A o \in Request \ {q} : Knows(o)'
    BY <1>1, StillKnows DEF OwnershipInv
  <1>4. Exclusive'
    BY <1>1, IdleCall DEF OwnershipInv, Exclusive
  <1> QED BY <1>2, <1>3, <1>4

(* What backs a membership is there as long as its claim is.               *)
LEMMA StillBacked ==
  ASSUME OwnershipInv, NEW q \in Request, call' = [call EXCEPT ![q] = Idle], UNCHANGED members,
         \A c \in ClaimId : claims[c] # None => claims'[c] = claims[c]
  PROVE  MembersBacked'
  <1>1. call'[q] = Idle /\ \A o \in Request \ {q} : call'[o] = call[o]
    BY DEF OwnershipInv, TypeOK
  <1>2. \A o \in Request : (Leaves(o)' => Leaves(o)) /\ (call'[o].claim # None =>
            call'[o].claim = call[o].claim)
    BY <1>1, IdleCall, IdleKnows DEF Leaves
  <1>3. \A c \in ClaimId : c # None
    BY OwnershipAssumption
  <1> QED BY <1>2, <1>3 DEF OwnershipInv, MembersBacked, Backed, Of, IsMember

LEMMA UpdateDescriptionStep ==
  ASSUME OwnershipInv, NEW q \in Request, UpdateDescription(q)
  PROVE  OwnershipInv'
  <1>1. /\ UNCHANGED <<claims, trail, members, owners, business, response, edits, shown>>
        /\ profile' = [profile EXCEPT ![call[q].business] = call[q].user]
        /\ call' = [call EXCEPT ![q] = Idle]
        /\ call[q].business \in Business /\ call[q].user \in User
    BY DEF UpdateDescription, ClaimRows, Grants, OwnershipInv, Knows, At
  <1>2. TypeOK'
    BY <1>1, IdleCall DEF OwnershipInv, TypeOK
  <1>3. TrailTellsStatus' /\ AnswersKept'
    BY <1>1 DEF OwnershipInv, TrailTellsStatus, AnswersKept, EditsComplete
  <1> QED BY <1>1, <1>2, <1>3, FinishStep, StillBacked DEF OwnershipInv

LEMMA SubmitInsertStep ==
  ASSUME OwnershipInv, NEW q \in Request, SubmitInsert(q)
  PROVE  OwnershipInv'
  <1> DEFINE b == call[q].business
             u == call[q].user
             twin == {c \in ClaimId : Of(c, b, u) /\ claims[c].status = "pending"}
  <1>1. CASE twin # {}
    BY <1>1, EndStep DEF SubmitInsert
  <1>2. CASE twin = {}
    <2> DEFINE row == [business |-> b, user |-> u, status |-> "pending"]
    <2>1. PICK c \in ClaimId : claims[c] = None /\ claims' = [claims EXCEPT ![c] = row]
      BY <1>2 DEF SubmitInsert
    <2>2. /\ UNCHANGED <<trail, members, owners, business, profile, response, edits, shown>>
          /\ call' = [call EXCEPT ![q] = Idle]
      BY <1>2 DEF SubmitInsert, Grants, Texts
    <2>3. row \in Claim /\ row.status = "pending"
      BY DEF SubmitInsert, OwnershipInv, Knows, At, Claim
    <2> HIDE DEF row
    <2>4. TypeOK'
      BY <2>1, <2>2, <2>3, IdleCall DEF OwnershipInv, TypeOK
    <2>5. \A d \in ClaimId : d # c => claims'[d] = claims[d]
      BY <2>1 DEF OwnershipInv, TypeOK
    <2>6. \A o \in Request : call[o].claim # None => call[o].claim \in ClaimId /\ call[o].claim # c
      BY <2>1 DEF OwnershipInv, Knows, KnowsClaim, Of, TypeOK, Call
    <2>7. Exclusive' /\ \A o \in Request : Knows(o)'
      BY <2>2, <2>5, <2>6, FinishStep
    <2>8. MembersBacked'
      BY <2>1, <2>2, <2>5, StillBacked
    <2>9. TrailTellsStatus'
      <3>1. claims'[c] = row /\ claims'[c] # None
        BY <2>1, <2>3, OwnershipAssumption DEF OwnershipInv, TypeOK
      <3> QED BY <2>1, <2>2, <2>3, <2>5, <3>1 DEF OwnershipInv, TrailTellsStatus
    <2>10. AnswersKept'
      BY <2>2 DEF OwnershipInv, AnswersKept, EditsComplete
    <2> QED BY <2>4, <2>7, <2>8, <2>9, <2>10 DEF OwnershipInv
  <1> QED BY <1>1, <1>2

LEMMA InsertResponseStep ==
  ASSUME OwnershipInv, NEW q \in Request, InsertResponse(q)
  PROVE  OwnershipInv'
  <1> DEFINE r == call[q].review
             u == call[q].user
  <1>1. CASE response[r] # None
    BY <1>1, EndStep DEF InsertResponse
  <1>2. CASE response[r] = None
    <2>1. /\ UNCHANGED <<claims, trail, members, owners, business, profile, edits>>
          /\ response' = [response EXCEPT ![r] = u]
          /\ shown' = [shown EXCEPT ![r] = Append(@, u)]
          /\ call' = [call EXCEPT ![q] = Idle]
          /\ r \in Review /\ u \in User /\ u # None
      BY <1>2, OwnershipAssumption DEF InsertResponse, Published, ClaimRows, Grants,
         OwnershipInv, Knows, KnowsAnswer, At
    <2> HIDE DEF r, u
    <2>2. TypeOK'
      BY <2>1, IdleCall DEF OwnershipInv, TypeOK
    <2>3. \A x \in Review : x # r => response'[x] = response[x] /\ shown'[x] = shown[x]
      BY <2>1 DEF OwnershipInv, TypeOK
    <2>4. \A o \in Request : call[o].prev # None => call[o].review \in Review /\ call[o].review # r
      BY <1>2 DEF OwnershipInv, Knows, KnowsAnswer, r
    <2>5. Exclusive' /\ \A o \in Request : Knows(o)'
      BY <2>1, <2>3, <2>4, FinishStep
    <2>6. MembersBacked'
      BY <2>1, StillBacked
    <2>7. TrailTellsStatus'
      BY <2>1 DEF OwnershipInv, TrailTellsStatus
    <2>8. AnswersKept'
      <3>1. response'[r] = u /\ shown'[r] = Append(shown[r], u) /\ shown[r] = <<>> /\ edits[r] = <<>>
        BY <1>2, <2>1 DEF OwnershipInv, TypeOK, AnswersKept, EditsComplete
      <3> QED BY <2>1, <2>3, <3>1 DEF OwnershipInv, AnswersKept, EditsComplete
    <2> QED BY <2>2, <2>5, <2>6, <2>7, <2>8 DEF OwnershipInv
  <1> QED BY <1>1, <1>2

LEMMA WriteResponseStep ==
  ASSUME OwnershipInv, NEW q \in Request, WriteResponse(q)
  PROVE  OwnershipInv'
  <1> DEFINE r == call[q].review
             u == call[q].user
             prev == call[q].prev
  <1>1. /\ UNCHANGED <<claims, trail, members, owners, business, profile>>
        /\ response' = [response EXCEPT ![r] = u]
        /\ shown' = [shown EXCEPT ![r] = Append(@, u)]
        /\ edits' = [edits EXCEPT ![r] = Append(@, prev)]
        /\ call' = [call EXCEPT ![q] = Idle]
    BY DEF WriteResponse, Published, ClaimRows, Grants
  <1>2. /\ r \in Review /\ u \in User /\ u # None /\ prev # None /\ prev = response[r]
    BY OwnershipAssumption DEF WriteResponse, OwnershipInv, Knows, KnowsAnswer, At
  <1>3. \A o \in Request \ {q} : call[o].prev # None => call[o].review \in Review /\ call[o].review # r
    BY <1>2 DEF OwnershipInv, Exclusive, Knows, KnowsAnswer
  <1> HIDE DEF r, u, prev
  <1>4. TypeOK'
    BY <1>1, <1>2, IdleCall DEF OwnershipInv, TypeOK
  <1>5. \A x \in Review : x # r => /\ response'[x] = response[x] /\ shown'[x] = shown[x]
                                   /\ edits'[x] = edits[x]
    BY <1>1 DEF OwnershipInv, TypeOK
  <1>6. Exclusive' /\ \A o \in Request : Knows(o)'
    BY <1>1, <1>3, <1>5, FinishStep
  <1>7. MembersBacked'
    BY <1>1, StillBacked
  <1>8. TrailTellsStatus'
    BY <1>1 DEF OwnershipInv, TrailTellsStatus
  <1>9. AnswersKept'
    <2>1. response'[r] = u /\ shown'[r] = Append(shown[r], u) /\ edits'[r] = Append(edits[r], prev)
      BY <1>1, <1>2 DEF OwnershipInv, TypeOK
    <2>2. shown[r] = Append(edits[r], response[r])
      BY <1>2 DEF OwnershipInv, AnswersKept, EditsComplete
    <2> QED BY <1>2, <1>5, <2>1, <2>2 DEF OwnershipInv, AnswersKept, EditsComplete
  <1> QED BY <1>4, <1>6, <1>7, <1>8, <1>9 DEF OwnershipInv

----------------------------------------------------------------------------
(* The commit of a decision.                                               *)

LEMMA AppendToOne ==
  ASSUME NEW x, NEW y
  PROVE  Append(<<x>>, y) = <<x, y>>
  <1> DEFINE S == {x, y}
             s == Append(<<x>>, y)
  <1>1. <<x>> \in Seq(S) /\ <<x, y>> \in Seq(S)
    OBVIOUS
  <1>2. s \in Seq(S) /\ Len(s) = 2 /\ Len(<<x, y>>) = 2
    BY <1>1
  <1>3. s[1] = x /\ s[2] = y
    BY <1>1
  <1>4. \A i \in 1..2 : s[i] = <<x, y>>[i]
    BY <1>1, <1>2, <1>3
  <1> HIDE DEF s, S
  <1>5. s = <<x, y>>
    BY <1>1, <1>2, <1>4, SeqEqual
  <1> QED BY <1>5 DEF s

LEMMA WitnessedType ==
  ASSUME TypeOK, NEW q \in Request, NEW now, call' = Witnessed(q, now)
  PROVE  /\ call' \in [Request -> Call] /\ call'[q] = Idle
         /\ \A o \in Request \ {q} :
              LET c == call[o] IN
              /\ call'[o].pc = c.pc /\ call'[o].claim = c.claim /\ call'[o].status = c.status
              /\ call'[o].business = c.business /\ call'[o].user = c.user
              /\ call'[o].review = c.review /\ call'[o].prev = c.prev
              /\ call'[o].member = c.member /\ call'[o].role = c.role
              /\ call'[o].was = (c.was \/ <<c.business, c.user>> \in now)
  <1> DEFINE seen(o) == call[o].was \/ <<call[o].business, call[o].user>> \in now
             next(o) == [call[o] EXCEPT !.was = @ \/ <<call[o].business, call[o].user>> \in now]
  <1>1. \A o \in Request : call'[o] = IF o = q THEN Idle ELSE next(o)
    BY DEF Witnessed
  <1>2. ASSUME NEW o \in Request
        PROVE  /\ next(o) \in Call
               /\ next(o).pc = call[o].pc /\ next(o).claim = call[o].claim
               /\ next(o).status = call[o].status
               /\ next(o).business = call[o].business /\ next(o).user = call[o].user
               /\ next(o).review = call[o].review /\ next(o).prev = call[o].prev
               /\ next(o).member = call[o].member /\ next(o).role = call[o].role
               /\ next(o).was = seen(o)
    <2>1. call[o] \in Call /\ seen(o) \in BOOLEAN
      BY DEF TypeOK
    <2>2. next(o) = [call[o] EXCEPT !.was = seen(o)]
      BY <2>1 DEF Call
    <2> HIDE DEF next, seen
    <2> QED BY <2>1, <2>2 DEF Call
  <1> HIDE DEF next, seen
  <1>3. DOMAIN call' = Request /\ call' = [o \in Request |-> call'[o]]
    BY DEF Witnessed
  <1>4. call' \in [Request -> Call]
    BY <1>1, <1>2, <1>3, IdleCall
  <1> QED BY <1>1, <1>2, <1>4 DEF seen

LEMMA CommitStep ==
  ASSUME OwnershipInv, NEW q \in Request, Commit(q)
  PROVE  OwnershipInv'
  <1>0. PICK d : d = call[q]
    OBVIOUS
  <1> DEFINE c == d.claim
             pair == <<d.business, d.user>>
  <1>1. /\ d \in Call /\ Knows(q) /\ d.pc = "commit"
        /\ claims' = [claims EXCEPT ![c].status = d.status]
        /\ trail' = [trail EXCEPT ![c] = Append(@, d.status)]
        /\ members' = Applied(members, pair, d.member)
        /\ owners' = Applied(owners, d.user, d.role)
        /\ business' = IF d.status = "approved"
                       THEN [business EXCEPT ![d.business] = "claimed"] ELSE business
        /\ call' = Witnessed(q, members')
        /\ UNCHANGED <<profile, response, edits, shown>>
    BY <1>0 DEF OwnershipInv, TypeOK, Commit, Texts, At
  <1>2. /\ c \in ClaimId /\ c # None /\ d.business \in Business /\ d.user \in User
        /\ pair \in Business \X User /\ Of(c, d.business, d.user)
        /\ d.status \in {"approved", "rejected", "revoked"}
        /\ claims[c].status = IF d.status = "revoked" THEN "approved" ELSE "pending"
        /\ d.member \in {"kept", "added", "removed"} /\ d.role \in {"kept", "added", "removed"}
        /\ d.member = "added" => d.status = "approved"
    BY <1>0, <1>1 DEF Knows, KnowsClaim, Deciding, Call
  <1>3. /\ call' \in [Request -> Call] /\ call'[q] = Idle
        /\ \A o \in Request \ {q} :
              /\ call'[o].pc = call[o].pc /\ call'[o].claim = call[o].claim
              /\ call'[o].status = call[o].status /\ call'[o].business = call[o].business
              /\ call'[o].user = call[o].user /\ call'[o].review = call[o].review
              /\ call'[o].prev = call[o].prev /\ call'[o].member = call[o].member
              /\ call'[o].was = (call[o].was \/ <<call[o].business, call[o].user>> \in members')
    BY <1>1, WitnessedType DEF OwnershipInv
  <1>4. /\ members' \subseteq Business \X User
        /\ \A y : y # pair => (y \in members' <=> y \in members)
        /\ pair \in members' <=> d.member = "added" \/ (d.member = "kept" /\ pair \in members)
    <2> DEFINE S == Business \X User
    <2>1. members \subseteq S
      BY DEF OwnershipInv, TypeOK
    <2> HIDE DEF c, pair, S
    <2>2. /\ pair \in S /\ members' = Applied(members, pair, d.member)
          /\ d.member \in {"kept", "added", "removed"}
      BY <1>1, <1>2 DEF S
    <2>3. /\ members' \subseteq S
          /\ \A y : y # pair => (y \in members' <=> y \in members)
          /\ pair \in members' <=>
                d.member = "added" \/ (d.member = "kept" /\ pair \in members)
      BY <2>1, <2>2 DEF Applied
    <2> QED BY <2>3 DEF S
  <1>5. owners' \subseteq User
    <2>1. owners \subseteq User
      BY DEF OwnershipInv, TypeOK
    <2>2. /\ owners' = Applied(owners, d.user, d.role)
          /\ d.user \in User /\ d.role \in {"kept", "added", "removed"}
      BY <1>1, <1>2
    <2> QED BY <2>1, <2>2 DEF Applied
  <1>6. /\ claims[c] \in Claim /\ claims[c] # None
        /\ claims'[c] \in Claim /\ claims'[c] # None /\ claims'[c].status = d.status
        /\ claims'[c].business = claims[c].business /\ claims'[c].user = claims[c].user
        /\ \A x \in ClaimId : x # c => claims'[x] = claims[x]
    <2>1. claims[c] \in Claim /\ claims[c] # None
      BY <1>2 DEF Of, OwnershipInv, TypeOK
    <2> DEFINE new == [claims[c] EXCEPT !.status = d.status]
    <2>2. claims' = [claims EXCEPT ![c] = new]
      BY <1>1
    <2>3. /\ new \in Claim /\ new.status = d.status
          /\ new.business = claims[c].business /\ new.user = claims[c].user
      BY <1>2, <2>1 DEF Claim
    <2> HIDE DEF c, new
    <2>4. claims'[c] = new /\ \A x \in ClaimId : x # c => claims'[x] = claims[x]
      BY <1>2, <2>2 DEF OwnershipInv, TypeOK
    <2> QED BY <2>1, <2>3, <2>4, OwnershipAssumption
  <1>7. \A o \in Request \ {q} : call[o].claim # None =>
            call[o].claim # c /\ call[o].claim \in ClaimId
    BY <1>0, <1>2 DEF OwnershipInv, Exclusive, TypeOK, Call
  <1> HIDE DEF c, pair
  <1>8. TypeOK'
    <2>1. claims' \in [ClaimId -> Claim \cup {None}]
      BY <1>1, <1>6 DEF OwnershipInv, TypeOK
    <2>2. trail' \in [ClaimId -> Seq({"approved", "rejected", "revoked"})]
      BY <1>1, <1>2 DEF OwnershipInv, TypeOK
    <2>3. business' \in [Business -> {None, "unverified", "claimed"}]
      BY <1>1, <1>2 DEF OwnershipInv, TypeOK
    <2> QED BY <1>1, <1>3, <1>4, <1>5, <2>1, <2>2, <2>3 DEF OwnershipInv, TypeOK
  <1>9. Exclusive'
    <2>1. \A o \in Request : /\ call'[o].claim # None => call'[o].claim = call[o].claim
                             /\ call'[o].prev # None => /\ call'[o].prev = call[o].prev
                                                        /\ call'[o].review = call[o].review
      BY <1>3, IdleCall
    <2> QED BY <2>1 DEF OwnershipInv, Exclusive
  <1>10. ASSUME NEW o \in Request PROVE Knows(o)'
    <2>1. CASE o = q
      BY <1>3, <2>1, IdleKnows
    <2>2. CASE o # q
      <3>1. Knows(o) /\ call[o] \in Call
        BY DEF OwnershipInv, TypeOK
      <3> DEFINE new == call'[o]
                 old == call[o]
      <3>2. KnowsClaim(o)'
        <4>1. /\ new.pc = old.pc /\ new.claim = old.claim /\ new.status = old.status
              /\ new.business = old.business /\ new.user = old.user /\ new.member = old.member
          BY <1>3, <2>2
        <4>2. old.claim # None => claims'[old.claim] = claims[old.claim]
          BY <1>6, <1>7, <2>2
        <4> QED BY <3>1, <4>1, <4>2 DEF Knows, KnowsClaim, Of
      <3>3. KnowsAnswer(o)'
        BY <1>1, <1>3, <2>2, <3>1 DEF Knows, KnowsAnswer, IsMember
      <3> QED BY <1>3, <2>2, <3>1, <3>2, <3>3 DEF Knows
    <2> QED BY <2>1, <2>2
  <1>11. ASSUME NEW b \in Business, NEW u \in User, IsMember(b, u)' PROVE Backed(b, u)'
    <2>1. \A o \in Request, x \in ClaimId :
             call'[o].claim = x => call[o].claim = x /\ o # q /\ (Leaves(o)' => Leaves(o))
      <3>1. \A x \in ClaimId : x # None
        BY OwnershipAssumption
      <3> QED BY <1>3, <3>1, IdleCall DEF Leaves
    <2>2. CASE <<b, u>> = pair /\ d.member = "added"
      <3>1. Of(c, b, u)' /\ claims'[c].status = "approved"
        BY <1>2, <1>6, <2>2 DEF Of, pair
      <3>2. \A o \in Request : call'[o].claim # c
        BY <1>2, <1>3, <1>7, IdleCall
      <3> QED BY <1>2, <3>1, <3>2 DEF Backed
    <2>3. CASE ~(<<b, u>> = pair /\ d.member = "added")
      <3>1. IsMember(b, u) /\ (<<b, u>> = pair => d.member = "kept")
        BY <1>4, <2>3, <1>11 DEF IsMember
      <3>2. PICK x \in ClaimId : /\ Of(x, b, u) /\ claims[x].status = "approved"
                                 /\ \A o \in Request : call[o].claim = x => ~Leaves(o)
        BY <3>1 DEF OwnershipInv, MembersBacked, Backed
      <3>3. x # c
        <4> SUFFICES ASSUME x = c PROVE FALSE
          OBVIOUS
        <4>1. d.business = b /\ d.user = u
          BY <1>2, <3>2 DEF Of
        <4>2. d.status = "revoked"
          BY <1>2, <3>2
        <4>3. Leaves(q)
          BY <1>0, <1>1, <3>1, <4>1, <4>2 DEF Leaves, pair
        <4> QED BY <1>0, <3>2, <4>3 DEF c
      <3>4. Of(x, b, u)' /\ claims'[x].status = "approved"
        BY <1>6, <3>2, <3>3 DEF Of
      <3> QED BY <2>1, <3>2, <3>4 DEF Backed
    <2> QED BY <2>2, <2>3
  <1>12. TrailTellsStatus'
    <2>1. trail'[c] = Append(trail[c], d.status)
      BY <1>1, <1>2 DEF OwnershipInv, TypeOK
    <2>2. \A x \in ClaimId : x # c => trail'[x] = trail[x]
      BY <1>1 DEF OwnershipInv, TypeOK
    <2>3. CASE d.status = "revoked"
      <3>1. trail[c] = <<"approved">>
        BY <1>2, <1>6, <2>3 DEF OwnershipInv, TrailTellsStatus
      <3>2. trail'[c] = <<"approved", "revoked">>
        BY <2>1, <2>3, <3>1, AppendToOne
      <3> QED BY <1>6, <2>2, <2>3, <3>2 DEF OwnershipInv, TrailTellsStatus
    <2>4. CASE d.status # "revoked"
      <3>1. trail[c] = <<>>
        BY <1>2, <1>6, <2>4 DEF OwnershipInv, TrailTellsStatus
      <3>2. trail'[c] = <<d.status>>
        BY <2>1, <3>1
      <3> QED BY <1>2, <1>6, <2>2, <2>4, <3>2 DEF OwnershipInv, TrailTellsStatus
    <2> QED BY <2>3, <2>4
  <1>13. AnswersKept'
    BY <1>1 DEF OwnershipInv, AnswersKept, EditsComplete
  <1> QED BY <1>8, <1>9, <1>10, <1>11, <1>12, <1>13 DEF OwnershipInv, MembersBacked

----------------------------------------------------------------------------
LEMMA InitOwnership == Init => OwnershipInv
  <1> SUFFICES ASSUME Init PROVE OwnershipInv
    OBVIOUS
  <1>1. TypeOK
    BY IdleCall DEF Init, TypeOK
  <1>2. \A q \in Request : call[q] = Idle
    BY DEF Init
  <1>3. Exclusive /\ \A q \in Request : Knows(q)
    BY <1>2, IdleCall DEF Exclusive, Knows, KnowsClaim, KnowsAnswer, Deciding
  <1>4. MembersBacked
    BY DEF Init, MembersBacked, IsMember
  <1>5. TrailTellsStatus
    BY DEF Init, TrailTellsStatus
  <1>6. AnswersKept
    BY DEF Init, AnswersKept, EditsComplete
  <1> QED BY <1>1, <1>3, <1>4, <1>5, <1>6 DEF OwnershipInv

LEMMA ClaimsStep ==
  ASSUME OwnershipInv, NEW q \in Request, Claims(q)
  PROVE  OwnershipInv'
  <1> DEFINE c == call[q]
  <1>0. c \in Call /\ Knows(q)
    BY DEF OwnershipInv, TypeOK
  <1>1. CASE \E b \in Business, u \in User : Submit(q, b, u)
    BY <1>1, SubmitStep
  <1>2. CASE SubmitCheck(q)
    BY <1>2, EndStep, GoesOn DEF SubmitCheck
  <1>3. CASE SubmitInsert(q)
    BY <1>3, SubmitInsertStep
  <1>4. CASE \E d \in ClaimId : Decide(q, d)
    BY <1>4, LockClaimStep DEF Decide
  <1>5. CASE \E d \in ClaimId : Revoke(q, d)
    BY <1>5, LockClaimStep DEF Revoke
  <1>6. CASE GrantMember(q)
    <2> DEFINE member == IF IsMember(c.business, c.user) THEN "kept" ELSE "added"
    <2>1. /\ c.pc \in Deciding /\ c.status = "approved" /\ ReadOnly
          /\ call' = [call EXCEPT ![q].pc = "grantRole", ![q].member = member]
      BY <1>0, <1>6 DEF GrantMember, At, Knows, KnowsClaim, Deciding
    <2>2. call' = [call EXCEPT ![q] = [c EXCEPT !.pc = "grantRole", !.member = member,
                                                 !.role = c.role]]
      BY <1>0, <2>1 DEF Call, OwnershipInv, TypeOK
    <2>3. member \in {"kept", "added", "removed"} /\ c.role \in {"kept", "added", "removed"}
          /\ "grantRole" \in Deciding
      BY <1>0 DEF Call, Deciding
    <2> HIDE DEF member
    <2>4. /\ "grantRole" \notin {"removeMember", "stillOwner", "removeRole"}
          /\ c.status # "revoked"
      BY <2>1
    <2> QED BY <2>1, <2>2, <2>3, <2>4, DecisionStep
  <1>7. CASE GrantOwnerRole(q)
    <2> DEFINE role == IF c.user \in owners THEN "kept" ELSE "added"
    <2>1. /\ c.pc \in Deciding /\ c.status = "approved" /\ ReadOnly
          /\ call' = [call EXCEPT ![q].pc = "commit", ![q].role = role]
      BY <1>0, <1>7 DEF GrantOwnerRole, At, Knows, KnowsClaim, Deciding
    <2>2. call' = [call EXCEPT ![q] = [c EXCEPT !.pc = "commit", !.member = c.member,
                                                 !.role = role]]
      BY <1>0, <2>1 DEF Call, OwnershipInv, TypeOK
    <2>3. role \in {"kept", "added", "removed"} /\ c.member \in {"kept", "added", "removed"}
          /\ "commit" \in Deciding
      BY <1>0 DEF Call, Deciding
    <2> HIDE DEF role
    <2>4. /\ "commit" \notin {"removeMember", "stillOwner", "removeRole"}
          /\ c.status # "revoked"
      BY <2>1
    <2> QED BY <2>1, <2>2, <2>3, <2>4, DecisionStep
  <1>8. CASE RemoveMember(q)
    <2> DEFINE member == IF IsMember(c.business, c.user) THEN "removed" ELSE "kept"
    <2>1. /\ c.pc \in Deciding /\ c.status = "revoked" /\ ReadOnly
          /\ call' = [call EXCEPT ![q].pc = "stillOwner", ![q].member = member]
      BY <1>0, <1>8 DEF RemoveMember, At, Knows, KnowsClaim, Deciding
    <2>2. call' = [call EXCEPT ![q] = [c EXCEPT !.pc = "stillOwner", !.member = member,
                                                 !.role = c.role]]
      BY <1>0, <2>1 DEF Call, OwnershipInv, TypeOK
    <2>3. member \in {"kept", "added", "removed"} /\ c.role \in {"kept", "added", "removed"}
          /\ "stillOwner" \in Deciding /\ member # "added"
          /\ (member = "kept" => ~IsMember(c.business, c.user))
      BY <1>0 DEF Call, Deciding
    <2> HIDE DEF member
    <2> QED BY <2>1, <2>2, <2>3, DecisionStep
  <1>9. CASE StillOwner(q)
    <2>1. PICK pc \in {"removeRole", "commit"} : Goto(q, pc)
      BY <1>9 DEF StillOwner
    <2>2. /\ c.pc \in Deciding /\ c.pc = "stillOwner" /\ c.status = "revoked" /\ ReadOnly
          /\ c.member # "added"
      BY <1>0, <1>9 DEF StillOwner, At, Knows, KnowsClaim, Deciding
    <2>3. call' = [call EXCEPT ![q] = [c EXCEPT !.pc = pc, !.member = c.member,
                                                 !.role = c.role]]
      BY <1>0, <2>1 DEF Goto, Call, OwnershipInv, TypeOK
    <2>4. c.member \in {"kept", "added", "removed"} /\ c.role \in {"kept", "added", "removed"}
          /\ pc \in Deciding /\ (c.member = "kept" => Leaves(q))
      BY <1>0, <2>2 DEF Call, Deciding, Leaves
    <2> QED BY <2>2, <2>3, <2>4, DecisionStep
  <1>10. CASE RemoveRole(q)
    <2> DEFINE role == IF c.user \in owners THEN "removed" ELSE "kept"
    <2>1. /\ c.pc \in Deciding /\ c.pc = "removeRole" /\ c.status = "revoked" /\ ReadOnly
          /\ call' = [call EXCEPT ![q].pc = "commit", ![q].role = role] /\ c.member # "added"
      BY <1>0, <1>10 DEF RemoveRole, At, Knows, KnowsClaim, Deciding
    <2>2. call' = [call EXCEPT ![q] = [c EXCEPT !.pc = "commit", !.member = c.member,
                                                 !.role = role]]
      BY <1>0, <2>1 DEF Call, OwnershipInv, TypeOK
    <2>3. role \in {"kept", "added", "removed"} /\ c.member \in {"kept", "added", "removed"}
          /\ "commit" \in Deciding /\ (c.member = "kept" => Leaves(q))
      BY <1>0, <2>1 DEF Call, Deciding, Leaves
    <2> HIDE DEF role
    <2> QED BY <2>1, <2>2, <2>3, DecisionStep
  <1>11. CASE Commit(q)
    BY <1>11, CommitStep
  <1> QED BY <1>1, <1>2, <1>3, <1>4, <1>5, <1>6, <1>7, <1>8, <1>9, <1>10, <1>11 DEF Claims

LEMMA ResponsesStep ==
  ASSUME OwnershipInv, NEW q \in Request, Responses(q)
  PROVE  OwnershipInv'
  <1>1. CASE MayRespond(q)
    BY <1>1, EndStep, GoesOn DEF MayRespond
  <1> QED BY <1>1, RespondStep, UpdateResponseStep, InsertResponseStep, MayEditStep,
             WriteResponseStep DEF Responses

LEMMA NextOwnership == OwnershipInv /\ [Next]_vars => OwnershipInv'
  <1> SUFFICES ASSUME OwnershipInv, [Next]_vars PROVE OwnershipInv'
    OBVIOUS
  <1>1. CASE UNCHANGED vars
    BY <1>1 DEF vars, OwnershipInv, TypeOK, Exclusive, Knows, KnowsClaim, KnowsAnswer,
       MembersBacked, Backed, Leaves, Of, IsMember, TrailTellsStatus, AnswersKept, EditsComplete
  <1>2. CASE create
    BY <1>2, CreateBusinessStep DEF create
  <1>3. CASE grantRole
    BY <1>3, GrantRoleStep DEF grantRole
  <1>4. ASSUME NEW q \in Request, Claims(q) \/ Responses(q) PROVE OwnershipInv'
    BY <1>4, ClaimsStep, ResponsesStep
  <1>5. ASSUME NEW q \in Request, Businesses(q) PROVE OwnershipInv'
    BY <1>5, UpdateBusinessStep, UpdateDescriptionStep DEF Businesses
  <1>6. ASSUME NEW q \in Request, GiveUp(q) PROVE OwnershipInv'
    BY <1>6, EndStep DEF GiveUp
  <1> QED BY <1>1, <1>2, <1>3, <1>4, <1>5, <1>6 DEF Next

(* The inductive invariant holds.                                          *)
THEOREM OwnershipIsKept == Spec => []OwnershipInv
  BY InitOwnership, NextOwnership, PTL DEF Spec

(* Every variable keeps its type.                                          *)
THEOREM TypeCorrect == Spec => []TypeOK
  <1>1. OwnershipInv => TypeOK
    BY DEF OwnershipInv
  <1> QED BY <1>1, OwnershipIsKept, PTL

(* Whoever manages a business has an approved claim for it, however the    *)
(* decisions and revocations of any number of claims interleave            *)
(* (businesses.go:58).                                                     *)
THEOREM ManagedByClaim == Spec => []MembersApproved
  <1>1. OwnershipInv => MembersApproved
    BY DEF OwnershipInv, MembersBacked, Backed, MembersApproved
  <1> QED BY <1>1, OwnershipIsKept, PTL

(* The records of a claim tell its whole history: it is decided once and   *)
(* revoked at most once after that (claims.go:149-156, 222-224).           *)
THEOREM TrailTells == Spec => []TrailTellsStatus
  <1>1. OwnershipInv => TrailTellsStatus
    BY DEF OwnershipInv
  <1> QED BY <1>1, OwnershipIsKept, PTL

(* No text of an answer is lost, whoever edits it at the same time         *)
(* (responses.go:93-95).                                                   *)
THEOREM NoTextLost == Spec => []EditsComplete
  <1>1. OwnershipInv => EditsComplete
    BY DEF OwnershipInv, AnswersKept
  <1> QED BY <1>1, OwnershipIsKept, PTL

(* Nobody answers for a business, or rewrites an answer, who did not       *)
(* manage it at some time during the call (responses.go:57-63, 113-121).   *)
THEOREM SpokenByManagers == Spec => OnlyManagersSpeak
  <1> DEFINE Spoken ==
        \A q \in Request, r \in Review :
            (shown'[r] # shown[r] /\ call[q].review = r
             /\ call[q].pc \in {"insertResponse", "writeResponse"} /\ call'[q] = Idle)
            => call[q].was
  <1>1. OwnershipInv => Spoken
    BY DEF OwnershipInv, Knows, KnowsAnswer
  <1> QED BY <1>1, OwnershipIsKept, PTL DEF OnlyManagersSpeak
================================================================================
