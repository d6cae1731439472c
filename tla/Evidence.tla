-------------------------------- MODULE Evidence -------------------------------
(***************************************************************************)
(* The private evidence of one review (internal/media, PresignEvidence to  *)
(* ListEvidence; internal/moderation, DecideEvidence): the author's upload *)
(* tickets, the cleanup of those left to expire, the finalizing of an      *)
(* uploaded file, and the decision that raises the verification level of   *)
(* the review. The statements of a request are steps of their own, with    *)
(* the calls to the object store between them; the request may be given up *)
(* between any two. Time is whether the upload window of a ticket is over. *)
(* Names are kept apart from those of Media, whose package this is too, so *)
(* that MediaProofs can extend both.                                       *)
(***************************************************************************)
EXTENDS Naturals, FiniteSets, Sequences

CONSTANTS
    Ticket,         \* evidence rows, in the order they are issued
    LevelBy,        \* evidenceLevelByKind of each one's kind
    Request,        \* requests in flight
    Nil,            \* none
    MaxEvidence     \* MaxEvidencePerReview

VARIABLES
    row,            \* review_evidence: the status of each, or Nil
    ticketed,       \* history: tickets ever issued
    expired,        \* tickets older than FinalizeWindow
    file,           \* evidence objects in the private bucket
    level,          \* reviews.verification_level
    trail,          \* moderation_actions and notices of each evidence
    call,           \* the requests in flight
    marked,         \* history: times each was marked submitted
    overrun         \* history: window over between the check and the mark

evidenceVars == <<row, ticketed, expired, file, level, trail, call, marked, overrun>>

(* levelRank.                                                               *)
Rank == [none |-> 0, media_attached |-> 1, receipt_submitted |-> 2, location_verified |-> 3]

VerifiedLevels == {"receipt_submitted", "location_verified"}

Call == [pc: {"idle", "remove", "delete", "count", "insert", "gone", "get", "mark", "commit"},
         todo: SUBSET Ticket,               \* stale uploads still to remove
         next: {"count", "gone", Nil},     \* what follows the cleanup
         on: Ticket \cup {Nil},            \* finalized, decided, or being removed
         decision: {"accepted", "rejected", Nil}]

Idle == [pc |-> "idle", todo |-> {}, next |-> Nil, on |-> Nil, decision |-> Nil]

EvidenceTypeOK ==
    /\ row \in [Ticket -> {"staged", "submitted", "accepted", "rejected", Nil}]
    /\ ticketed \subseteq Ticket /\ expired \subseteq ticketed /\ file \subseteq ticketed
    /\ level \in DOMAIN Rank
    /\ trail \in [Ticket -> Seq({"accepted", "rejected"})]
    /\ call \in [Request -> Call]
    /\ marked \in [Ticket -> Nat]
    /\ overrun \subseteq Ticket

ASSUME EvidenceAssumption ==
    /\ LevelBy \in [Ticket -> VerifiedLevels]
    /\ Nil \notin Ticket \cup {"staged", "submitted", "accepted", "rejected", "count", "gone"}
    /\ MaxEvidence \in Nat

(* The review has a photo, which raised its level already (Media).          *)
EvidenceInit ==
    /\ row = [e \in Ticket |-> Nil]
    /\ ticketed = {} /\ expired = {} /\ file = {} /\ overrun = {}
    /\ level = "media_attached"
    /\ trail = [e \in Ticket |-> <<>>]
    /\ call = [q \in Request |-> Idle]
    /\ marked = [e \in Ticket |-> 0]

Doing(q, pc) == call[q].pc = pc

End(q) == call' = [call EXCEPT ![q] = Idle]

Rows == <<row, ticketed, expired, marked, overrun>>

Decisions == <<level, trail>>

StaleTicket(e) == row[e] = "staged" /\ e \in expired

(* A decision in progress has locked the row.                               *)
Free(e) == \A q \in Request : ~(Doing(q, "commit") /\ call[q].on = e)

-------------------------------------------------------------------------------
(* cleanupStaleUploads, the evidence it finds.                              *)
StartEvidenceCleanup(q, next) ==
    LET found == {e \in Ticket : StaleTicket(e)}
    IN  call' = [call EXCEPT ![q] =
            IF found = {} THEN [Idle EXCEPT !.pc = next]
            ELSE [Idle EXCEPT !.pc = "remove", !.todo = found, !.next = next]]

(* The object goes first; a store that fails ends the request.              *)
RemoveObject(q) ==
    /\ Doing(q, "remove")
    /\ \/ \E e \in call[q].todo :
              /\ file' = file \ {e}
              /\ call' = [call EXCEPT ![q].pc = "delete", ![q].on = e]
       \/ End(q) /\ UNCHANGED file
    /\ UNCHANGED <<Rows, Decisions>>

(* Then its row, if it is still stale.                                      *)
DeleteRow(q) ==
    LET e == call[q].on
        left == call[q].todo \ {e}
    IN  /\ Doing(q, "delete") /\ Free(e)
        /\ row' = IF StaleTicket(e) THEN [row EXCEPT ![e] = Nil] ELSE row
        /\ call' = [call EXCEPT ![q] =
               IF left = {} THEN [Idle EXCEPT !.pc = call[q].next]
               ELSE [call[q] EXCEPT !.pc = "remove", !.todo = left, !.on = Nil]]
        /\ UNCHANGED <<ticketed, expired, marked, overrun, file, Decisions>>

-------------------------------------------------------------------------------
(* PresignEvidence: cleanup, count and insert in statements of their own.   *)
PresignEvidence(q) ==
    /\ Doing(q, "idle")
    /\ StartEvidenceCleanup(q, "count")
    /\ UNCHANGED <<Rows, file, Decisions>>

CountEvidence(q) ==
    /\ Doing(q, "count")
    /\ IF Cardinality({e \in Ticket : row[e] \notin {Nil, "rejected"}}) >= MaxEvidence
       THEN End(q) ELSE call' = [call EXCEPT ![q].pc = "insert"]
    /\ UNCHANGED <<Rows, file, Decisions>>

InsertEvidence(q) ==
    /\ Doing(q, "insert") /\ ticketed # Ticket
    /\ LET e == CHOOSE e \in Ticket \ ticketed : TRUE
       IN  /\ row' = [row EXCEPT ![e] = "staged"]
           /\ ticketed' = ticketed \cup {e}
    /\ End(q)
    /\ UNCHANGED <<expired, marked, overrun, file, Decisions>>

(* The ticket lets the client post the file while its window is open.       *)
UploadEvidence(e) ==
    /\ e \in ticketed \ expired
    /\ file' = file \cup {e}
    /\ UNCHANGED <<Rows, Decisions, call>>

(* The window ends. A finalize that checked it in time may still be running. *)
Expire(e) ==
    /\ e \in ticketed \ expired
    /\ expired' = expired \cup {e}
    /\ overrun' = IF \E q \in Request : call[q].on = e /\ call[q].pc \in {"get", "mark"}
                  THEN overrun \cup {e} ELSE overrun
    /\ UNCHANGED <<row, ticketed, marked, file, Decisions, call>>

-------------------------------------------------------------------------------
(* FinalizeEvidence.                                                        *)

(* Mutant: the window is not looked at.                                     *)
FinalizeEvidenceAnyTime(q, e) ==
    /\ Doing(q, "idle") /\ row[e] = "staged"
    /\ call' = [call EXCEPT ![q] = [Idle EXCEPT !.pc = "get", !.on = e]]
    /\ UNCHANGED <<Rows, file, Decisions>>

FinalizeEvidence(q, e) ==
    /\ Doing(q, "idle") /\ row[e] = "staged"
    /\ IF e \in expired
       THEN StartEvidenceCleanup(q, "gone")
       ELSE call' = [call EXCEPT ![q] = [Idle EXCEPT !.pc = "get", !.on = e]]
    /\ UNCHANGED <<Rows, file, Decisions>>

(* 410 after the cleanup.                                                   *)
Gone(q) ==
    /\ Doing(q, "gone")
    /\ End(q)
    /\ UNCHANGED <<Rows, file, Decisions>>

(* The file is there and passes the checks, or the request is refused.      *)
CheckObject(q) ==
    /\ Doing(q, "get")
    /\ \/ call[q].on \in file /\ call' = [call EXCEPT ![q].pc = "mark"]
       \/ End(q)
    /\ UNCHANGED <<Rows, file, Decisions>>

(* The UPDATE looks at nothing but the id.                                  *)
MarkSubmitted(q) ==
    LET e == call[q].on
    IN  /\ Doing(q, "mark") /\ Free(e)
        /\ IF row[e] = Nil
           THEN UNCHANGED <<row, marked>>
           ELSE /\ row' = [row EXCEPT ![e] = "submitted"]
                /\ marked' = [marked EXCEPT ![e] = @ + 1]
        /\ End(q)
        /\ UNCHANGED <<ticketed, expired, overrun, file, Decisions>>

-------------------------------------------------------------------------------
(* DecideEvidence, by a moderator who is not the author.                    *)

(* Mutant: the row is read without FOR UPDATE.                              *)
DecideEvidenceUnlocked(q, e, d) ==
    /\ Doing(q, "idle")
    /\ row[e] = "submitted"
    /\ call' = [call EXCEPT ![q] = [Idle EXCEPT !.pc = "commit", !.on = e, !.decision = d]]
    /\ UNCHANGED <<Rows, file, Decisions>>

DecideEvidence(q, e, d) ==
    /\ Doing(q, "idle") /\ Free(e)
    /\ row[e] = "submitted"
    /\ call' = [call EXCEPT ![q] = [Idle EXCEPT !.pc = "commit", !.on = e, !.decision = d]]
    /\ UNCHANGED <<Rows, file, Decisions>>

(* Mutant: an acceptance overwrites the level.                              *)
UpgradedTo(new) == new

(* UpgradeVerificationTx: never down, under the review's lock.              *)
Upgraded(new) == IF Rank[new] <= Rank[level] THEN level ELSE new

CommitDecision(q) ==
    LET e == call[q].on
    IN  /\ Doing(q, "commit")
        /\ row' = [row EXCEPT ![e] = call[q].decision]
        /\ level' = IF call[q].decision = "accepted" THEN Upgraded(LevelBy[e]) ELSE level
        /\ trail' = [trail EXCEPT ![e] = Append(@, call[q].decision)]
        /\ End(q)
        /\ UNCHANGED <<ticketed, expired, marked, overrun, file>>

-------------------------------------------------------------------------------
GiveUp(q) ==
    /\ ~Doing(q, "idle")
    /\ End(q)
    /\ UNCHANGED <<Rows, file, Decisions>>

(* The author's requests.                                                   *)
Author(q) ==
    \/ PresignEvidence(q)
    \/ CountEvidence(q)
    \/ InsertEvidence(q)
    \/ \E e \in Ticket : FinalizeEvidence(q, e)
    \/ RemoveObject(q)
    \/ DeleteRow(q)
    \/ Gone(q)
    \/ CheckObject(q)
    \/ MarkSubmitted(q)

(* A moderator's.                                                           *)
Moderator(q) ==
    \/ \E e \in Ticket, d \in {"accepted", "rejected"} : DecideEvidence(q, e, d)
    \/ CommitDecision(q)

EvidenceNext ==
    \/ \E e \in Ticket : UploadEvidence(e) \/ Expire(e)
    \/ \E q \in Request : Author(q) \/ Moderator(q) \/ GiveUp(q)

EvidenceSpec == EvidenceInit /\ [][EvidenceNext]_evidenceVars

-------------------------------------------------------------------------------
Accepted(e) == \E n \in DOMAIN trail[e] : trail[e][n] = "accepted"

(* The verified label of a review is the best of what moderators accepted  *)
(* for it, in whatever order and however concurrently they decide: never a  *)
(* level nobody accepted, never less than one accepted ("never downgrade",  *)
(* repo.go:626; moderation.go:338-340).                                     *)
LabelEarned ==
    /\ level \in VerifiedLevels => \E e \in Ticket : Accepted(e) /\ LevelBy[e] = level
    /\ \A e \in Ticket : Accepted(e) => Rank[level] >= Rank[LevelBy[e]]

(* Each decision answers a submission of its own: nothing submitted once is *)
(* decided twice (moderation.go:361).                                       *)
OneDecisionEach == \A e \in Ticket : Len(trail[e]) <= marked[e]

(* What the author and moderators are shown, with a link to the file.       *)
ListEvidence == {e \in Ticket : row[e] \notin {Nil, "staged"}}

(* The files of listed evidence are there, decided or not, unless the       *)
(* upload window ended while one was being finalized: no cleanup, of this   *)
(* or another request, takes the file of evidence finalized in time         *)
(* (media.go:143, ListEvidence).                                            *)
FileKept == ListEvidence \ overrun \subseteq file

(* "This evidence is already submitted", "already decided": one decision    *)
(* for each file (media.go:580, moderation.go:361). Does not hold: see the  *)
(* README.                                                                  *)
DecidedOnce == \A e \in Ticket : Len(trail[e]) <= 1

(* "The original is preserved" (media.go:553). Does not hold: see the       *)
(* README.                                                                  *)
OriginalPreserved == \A e \in Ticket : row[e] \in {"submitted", "accepted"} => e \in file
===============================================================================
