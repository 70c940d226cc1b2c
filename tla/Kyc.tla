-------------------------------- MODULE Kyc ---------------------------------
(***************************************************************************)
(* Verification of one shop (kyc.service): documents with their private    *)
(* files, reviews by administrators, and the shop they activate.           *)
(***************************************************************************)
EXTENDS Media

CONSTANTS Scans,      \* files that are sent as documents
          Docs,       \* documents 1..n, in the order of their upload
          Reviewers,  \* reviews that may run at once
          MaxDecisions \* bound on reviews and decisions

ASSUME KycAssumption == Docs \subseteq Nat \ {0} /\ Scans \subseteq FileRows

VARIABLES doc,        \* KycDocument rows
          verifying,  \* the shop: status and verified
          review,     \* reviews in progress
          decisions,
          decided,    \* the last decision on a document or on the shop
          overlap,    \* a review ran while something else happened to the shop
          onlyApprovals  \* no rejection, deletion, fault or decision on the shop so far

kycVars == <<doc, verifying, review, decisions, decided, overlap, onlyApprovals>>

KycDocStatus == {"PENDING", "APPROVED", "REJECTED"}

KycDocuments == [status : KycDocStatus \cup {"none", "deleted"}, file : Keys \cup {0}]

DocExists(d) == doc[d].status \in KycDocStatus

NoReview == [step |-> "idle", doc |-> 0]

Reviewing == \E v \in Reviewers : review[v] # NoReview

KycInit ==
  /\ doc = [d \in Docs |-> [status |-> "none", file |-> 0]]
  /\ verifying = [status |-> "PENDING", verified |-> FALSE]
  /\ review = [v \in Reviewers |-> NoReview]
  /\ decisions = 0 /\ decided = "none"
  /\ overlap = FALSE /\ onlyApprovals = TRUE

-----------------------------------------------------------------------------
NextDoc == {d \in Docs : doc[d].status = "none" /\ \A u \in Uploaders : task[u].kyc # d}

\* uploadKycDocument: object, MediaAsset, KycDocument.
UploadKycDocument(u, f) ==
  /\ AssertSafe(f, "kyc") /\ NextDoc # {}
  /\ Uploads(u, UploadPrivate(ApplySafeMeta(f)), "KYC", Min(NextDoc))
  /\ UNCHANGED kycVars

\* Mutant: nothing relates the document to its MediaAsset.
CreateKycDocumentAnyway(u) ==
  /\ task[u].step = "doc"
  /\ doc' = [doc EXCEPT ![task[u].kyc] = [status |-> "PENDING", file |-> task[u].key]]
  /\ task' = [task EXCEPT ![u] = Idle]
  /\ overlap' = (overlap \/ Reviewing)
  /\ UNCHANGED <<object, media, spent, broken, mediaFaults>>
  /\ UNCHANGED <<verifying, review, decisions, decided, onlyApprovals>>

\* Refused by the database when the MediaAsset has been deleted meanwhile.
CreateKycDocument(u) ==
  /\ task[u].step = "doc"
  /\ doc' = IF media[task[u].key] = "none" THEN doc
            ELSE [doc EXCEPT ![task[u].kyc] = [status |-> "PENDING", file |-> task[u].key]]
  /\ task' = [task EXCEPT ![u] = Idle]
  /\ overlap' = (overlap \/ Reviewing)
  /\ UNCHANGED <<object, media, spent, broken, mediaFaults>>
  /\ UNCHANGED <<verifying, review, decisions, decided, onlyApprovals>>

\* deleteKycDocument: a merchant may delete what is PENDING, an administrator anything.
\* Object, link, MediaAsset, KycDocument.
DeleteKycDocument(u, d, admin) ==
  /\ task[u] = Idle /\ DocExists(d)
  /\ admin \/ doc[d].status = "PENDING"
  /\ task' = [task EXCEPT ![u] = [Idle EXCEPT !.step = IF doc[d].file = 0 THEN "dropdoc" ELSE "remove",
                                              !.key = doc[d].file, !.kyc = d]]
  /\ onlyApprovals' = FALSE
  /\ UNCHANGED <<object, media, spent, broken, mediaFaults>>
  /\ UNCHANGED <<doc, verifying, review, decisions, decided, overlap>>

\* The documents without the file k.
Without(k) == [d \in Docs |-> IF doc[d].file = k THEN [doc[d] EXCEPT !.file = 0] ELSE doc[d]]

Unlink(u) ==
  /\ task[u].step = "unlink"
  /\ doc' = Without(task[u].key)
  /\ task' = [task EXCEPT ![u].step = "drop"]
  /\ UNCHANGED <<object, media, spent, broken, mediaFaults>>
  /\ UNCHANGED <<verifying, review, decisions, decided, overlap, onlyApprovals>>

\* The MediaAsset could not be deleted: the error is swallowed, and the row stays.
AssetStays(u) ==
  /\ task[u].step = "drop" /\ task[u].kyc # 0
  /\ mediaFaults < MaxMediaFaults /\ mediaFaults' = mediaFaults + 1
  /\ broken' = broken \cup {task[u].key}
  /\ task' = [task EXCEPT ![u].step = "dropdoc"]
  /\ UNCHANGED <<object, media, spent>>
  /\ UNCHANGED <<doc, verifying, review, decisions, decided, overlap, onlyApprovals>>

\* The relation of KycDocument and MediaAsset: onDelete SetNull.
DropAsset(u) ==
  /\ DropRow(u)
  /\ doc' = Without(task[u].key)
  /\ UNCHANGED <<verifying, review, decisions, decided, overlap, onlyApprovals>>

DropKycDocument(u) ==
  /\ task[u].step = "dropdoc"
  /\ doc' = [doc EXCEPT ![task[u].kyc] = [status |-> "deleted", file |-> 0]]
  /\ task' = [task EXCEPT ![u] = Idle]
  /\ overlap' = (overlap \/ Reviewing)
  /\ UNCHANGED <<object, media, spent, broken, mediaFaults>>
  /\ UNCHANGED <<verifying, review, decisions, decided, onlyApprovals>>

\* A MediaAsset of a document, deleted by its own route.
DeleteAsset(u, k) ==
  /\ Delete(u, k)
  /\ onlyApprovals' = FALSE
  /\ UNCHANGED <<doc, verifying, review, decisions, decided, overlap>>

UploadStep(u) == (PutObject(u) \/ CreateRow(u) \/ DeleteImage(u)) /\ UNCHANGED kycVars

UploadStops(u) ==
  /\ Stops(u)
  /\ onlyApprovals' = FALSE
  /\ UNCHANGED <<doc, verifying, review, decisions, decided, overlap>>

-----------------------------------------------------------------------------
Decides ==
  /\ decisions < MaxDecisions /\ decisions' = decisions + 1
  /\ overlap' = (overlap \/ Reviewing)

Unreviewed == \A d \in Docs : doc[d].status # "PENDING"

\* Mutant: the documents that are left are counted before this one is updated.
ReviewKycDocumentCountsFirst(v, d, status) ==
  /\ review[v] = NoReview /\ DocExists(d) /\ Decides
  /\ doc' = [doc EXCEPT ![d].status = status]
  /\ decided' = status
  /\ review' = [review EXCEPT ![v] = [step |-> IF status = "REJECTED" THEN "reject"
                                              ELSE IF Unreviewed THEN "activate" ELSE "end", doc |-> d]]
  /\ onlyApprovals' = (onlyApprovals /\ status = "APPROVED")
  /\ UNCHANGED mediaVars /\ UNCHANGED verifying

\* reviewKycDocument: the document first, of whatever status it was.
ReviewKycDocument(v, d, status) ==
  /\ review[v] = NoReview /\ DocExists(d) /\ Decides
  /\ doc' = [doc EXCEPT ![d].status = status]
  /\ decided' = status
  /\ review' = [review EXCEPT ![v] = [step |-> IF status = "APPROVED" THEN "count" ELSE "reject", doc |-> d]]
  /\ onlyApprovals' = (onlyApprovals /\ status = "APPROVED")
  /\ UNCHANGED mediaVars /\ UNCHANGED verifying

\* Mutant: the shop is activated with the first document.
CountPendingNot(v) ==
  /\ review[v].step = "count"
  /\ review' = [review EXCEPT ![v].step = "activate"]
  /\ UNCHANGED mediaVars /\ UNCHANGED <<doc, verifying, decisions, decided, overlap, onlyApprovals>>

CountPending(v) ==
  /\ review[v].step = "count"
  /\ review' = [review EXCEPT ![v].step = IF Unreviewed THEN "activate" ELSE "end"]
  /\ UNCHANGED mediaVars /\ UNCHANGED <<doc, verifying, decisions, decided, overlap, onlyApprovals>>

\* Mutant: the shop gets the status of the document.
ActivateAsDocument(v) ==
  /\ review[v].step = "activate"
  /\ verifying' = [status |-> "APPROVED", verified |-> TRUE]
  /\ review' = [review EXCEPT ![v].step = "end"]
  /\ UNCHANGED mediaVars /\ UNCHANGED <<doc, decisions, decided, overlap, onlyApprovals>>

Activate(v) ==
  /\ review[v].step = "activate"
  /\ verifying' = [status |-> "ACTIVE", verified |-> TRUE]
  /\ review' = [review EXCEPT ![v].step = "end"]
  /\ UNCHANGED mediaVars /\ UNCHANGED <<doc, decisions, decided, overlap, onlyApprovals>>

\* Mutant: only the reason is written.
RejectOnlyNotes(v) ==
  /\ review[v].step = "reject"
  /\ review' = [review EXCEPT ![v].step = "end"]
  /\ UNCHANGED mediaVars /\ UNCHANGED <<doc, verifying, decisions, decided, overlap, onlyApprovals>>

\* The shop stays ACTIVE if it was.
Reject(v) ==
  /\ review[v].step = "reject"
  /\ verifying' = [verifying EXCEPT !.verified = FALSE]
  /\ review' = [review EXCEPT ![v].step = "end"]
  /\ UNCHANGED mediaVars /\ UNCHANGED <<doc, decisions, decided, overlap, onlyApprovals>>

\* Audit and notification.
EndReview(v) ==
  /\ review[v].step = "end"
  /\ review' = [review EXCEPT ![v] = NoReview]
  /\ UNCHANGED mediaVars /\ UNCHANGED <<doc, verifying, decisions, decided, overlap, onlyApprovals>>

ReviewStops(v) ==
  /\ review[v] # NoReview
  /\ mediaFaults < MaxMediaFaults /\ mediaFaults' = mediaFaults + 1
  /\ review' = [review EXCEPT ![v] = NoReview]
  /\ decided' = "none" /\ onlyApprovals' = FALSE
  /\ UNCHANGED <<object, media, task, spent, broken>>
  /\ UNCHANGED <<doc, verifying, decisions, overlap>>

\* updateStatus of shops.service: verified follows the status.
UpdateStatus(status) ==
  /\ Decides
  /\ verifying' = [status |-> status, verified |-> status = "ACTIVE"]
  /\ decided' = status /\ onlyApprovals' = FALSE
  /\ UNCHANGED mediaVars /\ UNCHANGED <<doc, review>>

\* updateShopStatus of admin.service: verified is only ever set.
UpdateShopStatus(status) ==
  /\ Decides
  /\ verifying' = [status |-> status, verified |-> verifying.verified \/ status = "ACTIVE"]
  /\ decided' = status /\ onlyApprovals' = FALSE
  /\ UNCHANGED mediaVars /\ UNCHANGED <<doc, review>>

KycRoutes ==
  \/ \E u \in Uploaders :
       \/ \E f \in Scans : UploadKycDocument(u, f)
       \/ \E d \in Docs, admin \in BOOLEAN : DeleteKycDocument(u, d, admin)
  \/ \E v \in Reviewers, d \in Docs, s \in {"APPROVED", "REJECTED"} : ReviewKycDocument(v, d, s)

KycNext ==
  \/ KycRoutes
  \/ \E u \in Uploaders :
       \/ UploadStep(u) \/ CreateKycDocument(u) \/ Unlink(u) \/ DropAsset(u) \/ AssetStays(u)
       \/ DropKycDocument(u) \/ UploadStops(u)
       \/ \E k \in Keys : DeleteAsset(u, k)
  \/ \E v \in Reviewers : CountPending(v) \/ Activate(v) \/ Reject(v) \/ EndReview(v) \/ ReviewStops(v)
  \/ \E s \in {"ACTIVE", "SUSPENDED"} : UpdateStatus(s) \/ UpdateShopStatus(s)

KycSpec == MediaInit /\ KycInit /\ [][KycNext]_<<mediaVars, kycVars>>

-----------------------------------------------------------------------------
KycTypeOK ==
  /\ doc \in [Docs -> KycDocuments]
  /\ verifying \in [status : {"PENDING", "ACTIVE", "SUSPENDED", "REJECTED"}, verified : BOOLEAN]
  /\ review \in [Reviewers -> [step : {"idle", "count", "activate", "reject", "end"}, doc : Docs \cup {0}]]
  /\ decided \in KycDocStatus \cup {"none", "ACTIVE", "SUSPENDED"}

\* When every document has been approved the shop is verified and ACTIVE, in whatever
\* order and however closely the approvals came: of two reviews at once, at least one
\* counts after both have written (reviewKycDocument).
AllApprovedActivates ==
  onlyApprovals /\ ~Reviewing /\ (\E d \in Docs : DocExists(d)) /\ (\A d \in Docs : DocExists(d) => doc[d].status = "APPROVED") =>
    verifying = [status |-> "ACTIVE", verified |-> TRUE]

\* A rejection that is the last word leaves the shop unverified, unless it overlapped
\* another review or decision (reviewKycDocument).
RejectionHolds == decided = "REJECTED" /\ ~overlap /\ ~Reviewing => ~verifying.verified

\* A review that nothing overlapped - no upload, deletion, other review or decision on the
\* shop while it ran - verifies the shop only when no document waits to be reviewed (the
\* count in reviewKycDocument).
VerifiedAfterReviews ==
  [][~verifying.verified /\ verifying'.verified /\ ~overlap' /\ decided' = decided => Unreviewed]_<<verifying, decided, overlap, doc>>

\* What a reviewer is asked to decide on can be opened: a PENDING document has its file,
\* unless a deletion of it is under way, was cut short, or came by the route of the file.
PendingHasFile ==
  \A d \in Docs : doc[d].status = "PENDING" /\ doc[d].file # 0 =>
    \/ object[doc[d].file] # NoObject /\ media[doc[d].file] = "KYC"
    \/ AtWork(doc[d].file) \/ doc[d].file \in broken

\* The shop's verification follows the reviews, and there is something to review.
ReviewsHold == AllApprovedActivates /\ RejectionHolds /\ PendingHasFile
=============================================================================
