------------------------------- MODULE Ownership -------------------------------
(***************************************************************************)
(* Who speaks for a business (internal/claims, internal/businesses and the *)
(* role grants of internal/admin): claims, the memberships and the         *)
(* business_owner role that their approval grants, and the public answers  *)
(* and the profile that members write. Every request is a sequence of      *)
(* statements under READ COMMITTED: what a transaction wrote is seen by    *)
(* the others when it commits, a row it wrote or locked makes them wait,   *)
(* and a request may be given up between any two statements. A text is     *)
(* represented by the user who wrote it. Reviews are published and linked  *)
(* to their business throughout.                                           *)
(***************************************************************************)
EXTENDS Naturals, Sequences

CONSTANTS
    User,
    Moderator,      \* users who may decide claims
    Business,
    Review,
    BusinessOf,     \* the business of each review's target
    Request,        \* requests in flight
    None,
    MaxClaims,      \* bound: claims filed
    MaxTexts        \* bound: texts an answer goes through

VARIABLES
    claims,         \* business_claims
    members,        \* business_members: pairs of a business and a user
    owners,         \* user_roles: who has the role business_owner
    business,       \* businesses: None until created, then the verification status
    profile,        \* businesses.description
    response,       \* business_responses: the text that answers each review
    edits,          \* business_response_edits: the texts it replaced
    trail,          \* moderation_actions and the notices of each claim
    call,           \* the requests in flight
    shown           \* history: the texts each review's answer had

vars == <<claims, members, owners, business, profile, response, edits, trail, call, shown>>

ClaimId == 1..MaxClaims

Claim == [business: Business, user: User,
          status: {"pending", "approved", "rejected", "revoked"}]

Call == [pc: {"idle", "isMember", "insertClaim", "grantMember", "grantRole", "removeMember",
              "stillOwner", "removeRole", "commit", "mayRespond", "insertResponse",
              "mayEdit", "writeResponse", "writeProfile"},
         claim: ClaimId \cup {None},        \* its row is locked
         status: {"approved", "rejected", "revoked", None},  \* and set to this
         business: Business \cup {None},
         user: User \cup {None},            \* the claimant, or the writer
         review: Review \cup {None},
         prev: User \cup {None},            \* the text an edit replaces
         member: {"kept", "added", "removed"},      \* done to <<business, user>>
         role: {"kept", "added", "removed"},        \* done to the user's role
         was: BOOLEAN]  \* history: the user managed the business during the call

Idle == [pc |-> "idle", claim |-> None, status |-> None, business |-> None, user |-> None,
         review |-> None, prev |-> None, member |-> "kept", role |-> "kept", was |-> FALSE]

TypeOK ==
    /\ claims \in [ClaimId -> Claim \cup {None}]
    /\ members \subseteq Business \X User
    /\ owners \subseteq User
    /\ business \in [Business -> {None, "unverified", "claimed"}]
    /\ profile \in [Business -> User \cup {None}]
    /\ response \in [Review -> User \cup {None}]
    /\ edits \in [Review -> Seq(User)]
    /\ trail \in [ClaimId -> Seq({"approved", "rejected", "revoked"})]
    /\ call \in [Request -> Call]
    /\ shown \in [Review -> Seq(User)]

ASSUME OwnershipAssumption ==
    /\ Moderator \subseteq User /\ BusinessOf \in [Review -> Business]
    /\ MaxClaims \in Nat /\ MaxTexts \in Nat
    /\ None \notin User \cup Business \cup Review \cup ClaimId
    /\ None \notin {"unverified", "claimed", "approved", "rejected", "revoked"}
    /\ None \notin Claim

Init ==
    /\ claims = [c \in ClaimId |-> None]
    /\ members = {}
    /\ owners = {}
    /\ business = [b \in Business |-> None]
    /\ profile = [b \in Business |-> None]
    /\ response = [r \in Review |-> None]
    /\ edits = [r \in Review |-> <<>>]
    /\ trail = [c \in ClaimId |-> <<>>]
    /\ call = [q \in Request |-> Idle]
    /\ shown = [r \in Review |-> <<>>]

ClaimRows == <<claims, trail>>

Grants == <<members, owners, business>>

Texts == <<profile, response, edits, shown>>

At(q, pc) == call[q].pc = pc

Goto(q, pc) == call' = [call EXCEPT ![q].pc = pc]

(* A failed request, a refusal and an abandoned one leave nothing behind.   *)
End(q) ==
    /\ call' = [call EXCEPT ![q] = Idle]
    /\ UNCHANGED <<ClaimRows, Grants, Texts>>

ReadOnly == UNCHANGED <<ClaimRows, Grants, Texts>>

IsMember(b, u) == <<b, u>> \in members

-------------------------------------------------------------------------------
(* Businesses. Creating one gives no control over it.                       *)
CreateBusiness(b, u) ==
    /\ business[b] = None
    /\ business' = [business EXCEPT ![b] = "unverified"]
    /\ profile' = [profile EXCEPT ![b] = u]
    /\ UNCHANGED <<ClaimRows, members, owners, response, edits, shown, call>>

(* requireMemberOrModerator, then the UPDATE in a statement of its own.     *)
UpdateBusiness(q, b, u) ==
    /\ At(q, "idle") /\ business[b] # None
    /\ u \in Moderator \/ IsMember(b, u)
    /\ call' = [call EXCEPT ![q] = [Idle EXCEPT !.pc = "writeProfile", !.business = b,
                                                 !.user = u, !.was = IsMember(b, u)]]
    /\ ReadOnly

UpdateDescription(q) ==
    /\ At(q, "writeProfile")
    /\ profile' = [profile EXCEPT ![call[q].business] = call[q].user]
    /\ call' = [call EXCEPT ![q] = Idle]
    /\ UNCHANGED <<ClaimRows, Grants, response, edits, shown>>

-------------------------------------------------------------------------------
(* Filing a claim: three statements, no transaction.                        *)
Submit(q, b, u) ==
    /\ At(q, "idle") /\ business[b] # None
    /\ call' = [call EXCEPT ![q] = [Idle EXCEPT !.pc = "isMember", !.business = b, !.user = u]]
    /\ ReadOnly

SubmitCheck(q) ==
    /\ At(q, "isMember")
    /\ IF IsMember(call[q].business, call[q].user)
       THEN End(q)
       ELSE Goto(q, "insertClaim") /\ ReadOnly

Of(c, b, u) == claims[c] # None /\ claims[c].business = b /\ claims[c].user = u

(* business_claims_pending_unique; a claim being decided makes it wait.     *)
SubmitInsert(q) ==
    LET b == call[q].business
        u == call[q].user
        twin == {c \in ClaimId : Of(c, b, u) /\ claims[c].status = "pending"}
    IN  /\ At(q, "insertClaim")
        /\ \A k \in Request : call[k].claim \notin twin
        /\ IF twin # {}
           THEN End(q)
           ELSE /\ \E c \in ClaimId :
                       /\ claims[c] = None /\ \A d \in 1..(c - 1) : claims[d] # None
                       /\ claims' = [claims EXCEPT ![c] =
                                        [business |-> b, user |-> u, status |-> "pending"]]
                /\ call' = [call EXCEPT ![q] = Idle]
                /\ UNCHANGED <<trail, Grants, Texts>>

-------------------------------------------------------------------------------
(* Decisions. The claim's row is locked from the first statement on.        *)
ClaimFree(c) == \A k \in Request : call[k].claim # c

(* Mutant: the claim is read without FOR UPDATE.                            *)
LockClaimUnlocked(q, c, from, to, pc) ==
    /\ At(q, "idle")
    /\ claims[c] # None /\ claims[c].status = from
    /\ call' = [call EXCEPT ![q] = [Idle EXCEPT !.pc = pc, !.claim = c, !.status = to,
                                !.business = claims[c].business, !.user = claims[c].user]]
    /\ ReadOnly

LockClaim(q, c, from, to, pc) ==
    /\ At(q, "idle") /\ ClaimFree(c)
    /\ claims[c] # None /\ claims[c].status = from
    /\ call' = [call EXCEPT ![q] = [Idle EXCEPT !.pc = pc, !.claim = c, !.status = to,
                                !.business = claims[c].business, !.user = claims[c].user]]
    /\ ReadOnly

(* A moderator decides a pending claim that is not their own.               *)
Decide(q, c) ==
    /\ claims[c] # None /\ \E m \in Moderator : m # claims[c].user
    /\ \/ LockClaim(q, c, "pending", "approved", "grantMember")
       \/ LockClaim(q, c, "pending", "rejected", "commit")

Revoke(q, c) == LockClaim(q, c, "approved", "revoked", "removeMember")

(* Another transaction has written the row and not ended.                   *)
MemberRowHeld(q) ==
    \E k \in Request \ {q} : /\ call[k].member # "kept"
                             /\ call[k].business = call[q].business
                             /\ call[k].user = call[q].user

RoleRowHeld(q) ==
    \E k \in Request \ {q} : call[k].role # "kept" /\ call[k].user = call[q].user

MemberDeleting(q) ==
    \E k \in Request \ {q} : /\ call[k].member = "removed"
                             /\ call[k].business = call[q].business
                             /\ call[k].user = call[q].user

RoleDeleting(q) ==
    \E k \in Request \ {q} : call[k].role = "removed" /\ call[k].user = call[q].user

(* ON CONFLICT DO NOTHING, once whoever writes the row has ended.           *)
GrantMember(q) ==
    /\ At(q, "grantMember") /\ ~MemberRowHeld(q)
    /\ call' = [call EXCEPT ![q].pc = "grantRole",
           ![q].member = IF IsMember(call[q].business, call[q].user) THEN "kept" ELSE "added"]
    /\ ReadOnly

GrantOwnerRole(q) ==
    /\ At(q, "grantRole") /\ ~RoleRowHeld(q)
    /\ call' = [call EXCEPT ![q].pc = "commit",
                            ![q].role = IF call[q].user \in owners THEN "kept" ELSE "added"]
    /\ ReadOnly

(* A DELETE finds the committed row, and waits if it is being deleted.      *)
RemoveMember(q) ==
    /\ At(q, "removeMember") /\ ~MemberDeleting(q)
    /\ call' = [call EXCEPT ![q].pc = "stillOwner",
           ![q].member = IF IsMember(call[q].business, call[q].user) THEN "removed" ELSE "kept"]
    /\ ReadOnly

(* The memberships of others' transactions are not seen yet, nor their ends. *)
StillOwner(q) ==
    LET left == {b \in Business : IsMember(b, call[q].user)}
                    \ (IF call[q].member = "removed" THEN {call[q].business} ELSE {})
    IN  /\ At(q, "stillOwner")
        /\ Goto(q, IF left = {} THEN "removeRole" ELSE "commit")
        /\ ReadOnly

RemoveRole(q) ==
    /\ At(q, "removeRole") /\ ~RoleDeleting(q)
    /\ call' = [call EXCEPT ![q].pc = "commit",
                            ![q].role = IF call[q].user \in owners THEN "removed" ELSE "kept"]
    /\ ReadOnly

Applied(set, x, change) ==
    CASE change = "added" -> set \cup {x}
      [] change = "removed" -> set \ {x}
      [] OTHER -> set

(* A call of someone who manages the business at any time while it runs.    *)
Witnessed(q, now) ==
    [k \in Request |-> IF k = q THEN Idle
                       ELSE [call[k] EXCEPT !.was = @ \/ <<call[k].business, call[k].user>> \in now]]

(* Mutant: the decision is not looked at before the grant.                  *)
CommitAnyMember(q) ==
    LET d == call[q]
    IN  /\ At(q, "commit")
        /\ claims' = [claims EXCEPT ![d.claim].status = d.status]
        /\ trail' = [trail EXCEPT ![d.claim] = Append(@, d.status)]
        /\ members' = members \cup {<<d.business, d.user>>}
        /\ owners' = Applied(owners, d.user, d.role)
        /\ business' = [business EXCEPT ![d.business] = "claimed"]
        /\ call' = Witnessed(q, members')
        /\ UNCHANGED Texts

(* The claim's status, its audit record and its notice commit as one.       *)
Commit(q) ==
    LET d == call[q]
    IN  /\ At(q, "commit")
        /\ claims' = [claims EXCEPT ![d.claim].status = d.status]
        /\ trail' = [trail EXCEPT ![d.claim] = Append(@, d.status)]
        /\ members' = Applied(members, <<d.business, d.user>>, d.member)
        /\ owners' = Applied(owners, d.user, d.role)
        /\ business' = IF d.status = "approved"
                       THEN [business EXCEPT ![d.business] = "claimed"] ELSE business
        /\ call' = Witnessed(q, members')
        /\ UNCHANGED Texts

(* An administrator grants the role by itself.                              *)
GrantRole(u) ==
    /\ \A k \in Request : ~(call[k].role # "kept" /\ call[k].user = u)
    /\ owners' = owners \cup {u}
    /\ UNCHANGED <<ClaimRows, members, business, Texts, call>>

-------------------------------------------------------------------------------
(* Answers to reviews.                                                      *)

(* reviewBusiness.                                                          *)
Respond(q, r, u) ==
    /\ At(q, "idle") /\ business[BusinessOf[r]] # None
    /\ call' = [call EXCEPT ![q] = [Idle EXCEPT !.pc = "mayRespond", !.review = r, !.user = u,
                                                 !.business = BusinessOf[r],
                                                 !.was = IsMember(BusinessOf[r], u)]]
    /\ ReadOnly

(* Only members of the business may respond, as of a statement of its own.  *)
MayRespond(q) ==
    /\ At(q, "mayRespond")
    /\ IF IsMember(call[q].business, call[q].user)
       THEN Goto(q, "insertResponse") /\ ReadOnly
       ELSE End(q)

Published(q) ==
    LET r == call[q].review
        u == call[q].user
    IN  /\ response' = [response EXCEPT ![r] = u]
        /\ shown' = [shown EXCEPT ![r] = Append(@, u)]
        /\ call' = [call EXCEPT ![q] = Idle]

(* One response per review: a second INSERT is a conflict.                  *)
InsertResponse(q) ==
    /\ At(q, "insertResponse")
    /\ IF response[call[q].review] # None
       THEN End(q)
       ELSE Published(q) /\ UNCHANGED <<ClaimRows, Grants, profile, edits>>

(* Mutant: the response is read without FOR UPDATE.                         *)
UpdateResponseUnlocked(q, r, u) ==
    /\ At(q, "idle") /\ response[r] # None
    /\ Len(shown[r]) < MaxTexts
    /\ call' = [call EXCEPT ![q] = [Idle EXCEPT !.pc = "mayEdit", !.review = r, !.user = u,
                                    !.prev = response[r], !.business = BusinessOf[r],
                                    !.was = IsMember(BusinessOf[r], u)]]
    /\ ReadOnly

(* The response is locked, and its text read under the lock.                *)
UpdateResponse(q, r, u) ==
    /\ At(q, "idle") /\ response[r] # None
    /\ Len(shown[r]) < MaxTexts
    /\ \A k \in Request : ~(call[k].review = r /\ call[k].prev # None)
    /\ call' = [call EXCEPT ![q] = [Idle EXCEPT !.pc = "mayEdit", !.review = r, !.user = u,
                                    !.prev = response[r], !.business = BusinessOf[r],
                                    !.was = IsMember(BusinessOf[r], u)]]
    /\ ReadOnly

(* Mutant: whoever wrote the response may edit it.                          *)
MayEditOwn(q) ==
    /\ At(q, "mayEdit")
    /\ IF IsMember(call[q].business, call[q].user) \/ call[q].prev = call[q].user
       THEN Goto(q, "writeResponse") /\ ReadOnly
       ELSE End(q)

MayEdit(q) ==
    /\ At(q, "mayEdit")
    /\ IF IsMember(call[q].business, call[q].user)
       THEN Goto(q, "writeResponse") /\ ReadOnly
       ELSE End(q)

WriteResponse(q) ==
    /\ At(q, "writeResponse")
    /\ edits' = [edits EXCEPT ![call[q].review] = Append(@, call[q].prev)]
    /\ Published(q)
    /\ UNCHANGED <<ClaimRows, Grants, profile>>

-------------------------------------------------------------------------------
(* The request is cancelled or its connection lost: its transaction ends.   *)
GiveUp(q) == ~At(q, "idle") /\ End(q)

Claims(q) ==
    \/ \E b \in Business, u \in User : Submit(q, b, u)
    \/ SubmitCheck(q)
    \/ SubmitInsert(q)
    \/ \E c \in ClaimId : Decide(q, c) \/ Revoke(q, c)
    \/ GrantMember(q)
    \/ GrantOwnerRole(q)
    \/ RemoveMember(q)
    \/ StillOwner(q)
    \/ RemoveRole(q)
    \/ Commit(q)

Responses(q) ==
    \/ \E r \in Review, u \in User : Respond(q, r, u) \/ UpdateResponse(q, r, u)
    \/ MayRespond(q)
    \/ InsertResponse(q)
    \/ MayEdit(q)
    \/ WriteResponse(q)

Businesses(q) ==
    \/ \E b \in Business, u \in User : UpdateBusiness(q, b, u)
    \/ UpdateDescription(q)

create == \E b \in Business, u \in User : CreateBusiness(b, u)

grantRole == \E u \in User : GrantRole(u)

Next ==
    \/ create
    \/ grantRole
    \/ \E q \in Request : Claims(q) \/ Responses(q) \/ Businesses(q) \/ GiveUp(q)

Spec == Init /\ [][Next]_vars

-------------------------------------------------------------------------------
(* Whoever manages a business does so by an approved claim for it, however  *)
(* decisions and revocations of several claims interleave ("granted only by *)
(* an approved claim", businesses.go:58).                                   *)
MembersApproved ==
    \A b \in Business, u \in User :
        IsMember(b, u) => \E c \in ClaimId : Of(c, b, u) /\ claims[c].status = "approved"

(* A claim is decided once and revoked at most once after that: the audit   *)
(* records and notices of a claim tell its whole history, and the last one  *)
(* its status (claims.go:149-156, 222-224).                                 *)
TrailTellsStatus ==
    \A c \in ClaimId :
        LET s == IF claims[c] = None THEN "pending" ELSE claims[c].status
        IN  trail[c] = CASE s = "pending" -> <<>>
                         [] s = "revoked" -> <<"approved", "revoked">>
                         [] OTHER -> <<s>>

(* No text that a review's answer ever had is lost: the replaced ones are   *)
(* kept in order, whoever edits at the same time (responses.go:93-95).      *)
EditsComplete ==
    \A r \in Review :
        shown[r] = IF response[r] = None THEN <<>> ELSE Append(edits[r], response[r])

(* Nobody answers for a business, or rewrites an answer, who did not manage *)
(* it at some time during the call: a former member's answer can only be    *)
(* one that was under way as the claim was revoked (responses.go:57-63,     *)
(* 113-121).                                                                *)
OnlyManagersSpeak ==
    [][\A q \in Request, r \in Review :
            (shown'[r] # shown[r] /\ call[q].review = r
             /\ call[q].pc \in {"insertResponse", "writeResponse"} /\ call'[q] = Idle)
            => call[q].was]_vars

(* The business_owner role "is kept if the user still manages other         *)
(* businesses" (claims.go:208-210). Does not hold: see the README.          *)
RoleFollowsMembership == \A b \in Business, u \in User : IsMember(b, u) => u \in owners
===============================================================================
