------------------------------ MODULE KycReview ------------------------------
(***************************************************************************)
(* The documents of one sender and the state of the sender's KYC.  An      *)
(* upload and a review each work on a copy of the user row they loaded     *)
(* earlier, and write the state only where it differs from that copy.      *)
(***************************************************************************)
CONSTANTS
    Upload,     \* requests that bring a document, which bears their name
    Admin       \* requests of administrators

VARIABLES
    kyc,                    \* users.kyc_flow_state
    stored, verified, rejected,   \* table kyc_documents: the rows, and their columns
    upload_copy,            \* the state each upload has loaded, or none
    reviewed, review_copy   \* the document and the state each review has loaded

kycVars == <<kyc, stored, verified, rejected, upload_copy, reviewed, review_copy>>

KycState == {"not_started", "under_review", "verified", "rejected"}

KycInit ==
    /\ kyc = "not_started"
    /\ stored = {} /\ verified = {} /\ rejected = {}
    /\ upload_copy = [u \in Upload |-> "none"]
    /\ reviewed = [a \in Admin |-> {}] /\ review_copy = [a \in Admin |-> "none"]

\* What get_pending_kyc lists.
Pending == stored \ (verified \cup rejected)

\* The ORM writes a column only if it differs from the copy it loaded.
Flushed(copy, state) == IF copy = state THEN kyc ELSE state

\* Mutant: the sender is under review before the document is stored.
UploadBeginMarked(u) ==
    /\ upload_copy[u] = "none" /\ u \notin stored
    /\ upload_copy' = [upload_copy EXCEPT ![u] = kyc]
    /\ kyc' = "under_review"
    /\ UNCHANGED <<stored, verified, rejected, reviewed, review_copy>>

\* The request finds its sender, and then downloads and stores the file.
UploadBegin(u) ==
    /\ upload_copy[u] = "none" /\ u \notin stored
    /\ upload_copy' = [upload_copy EXCEPT ![u] = kyc]
    /\ UNCHANGED <<kyc, stored, verified, rejected, reviewed, review_copy>>

\* Document and state are committed together.
UploadEnd(u) ==
    /\ upload_copy[u] # "none"
    /\ stored' = stored \cup {u}
    /\ kyc' = Flushed(upload_copy[u], "under_review")
    /\ upload_copy' = [upload_copy EXCEPT ![u] = "none"]
    /\ UNCHANGED <<verified, rejected, reviewed, review_copy>>

\* The download, the storage or the answer failed; the sender may try again.
UploadFails(u) ==
    /\ upload_copy[u] # "none"
    /\ upload_copy' = [upload_copy EXCEPT ![u] = "none"]
    /\ UNCHANGED <<kyc, stored, verified, rejected, reviewed, review_copy>>

\* A review may be of any document, and of one reviewed before.
ReviewDocument(a, d) ==
    /\ reviewed[a] = {} /\ d \in stored
    /\ reviewed' = [reviewed EXCEPT ![a] = {d}]
    /\ UNCHANGED <<kyc, stored, verified, rejected, upload_copy, review_copy>>

ReviewUser(a) ==
    /\ reviewed[a] # {} /\ review_copy[a] = "none"
    /\ review_copy' = [review_copy EXCEPT ![a] = kyc]
    /\ UNCHANGED <<kyc, stored, verified, rejected, upload_copy, reviewed>>

Decide(a, state) ==
    /\ review_copy[a] # "none"
    /\ kyc' = Flushed(review_copy[a], state)
    /\ reviewed' = [reviewed EXCEPT ![a] = {}]
    /\ review_copy' = [review_copy EXCEPT ![a] = "none"]
    /\ UNCHANGED <<stored, upload_copy>>

Verify(a) ==
    /\ Decide(a, "verified")
    /\ verified' = verified \cup reviewed[a] /\ UNCHANGED rejected

Reject(a) ==
    /\ Decide(a, "rejected")
    /\ rejected' = rejected \cup reviewed[a] /\ UNCHANGED verified

KycNext ==
    \/ \E u \in Upload : UploadBegin(u) \/ UploadEnd(u) \/ UploadFails(u)
    \/ \E a \in Admin :
         \/ \E d \in Upload : ReviewDocument(a, d)
         \/ ReviewUser(a) \/ Verify(a) \/ Reject(a)

KycSpec == KycInit /\ [][KycNext]_kycVars

-----------------------------------------------------------------------------
(* Properties.                                                             *)

KycTypeOK ==
    /\ kyc \in KycState
    /\ stored \subseteq Upload /\ verified \subseteq stored /\ rejected \subseteq stored
    /\ upload_copy \in [Upload -> KycState \cup {"none"}]
    /\ reviewed \in [Admin -> SUBSET stored]
    /\ review_copy \in [Admin -> KycState \cup {"none"}]

\* The state tells of a document: a sender under review has one that waits for
\* it, a verified one a verified document, a rejected one a rejected document,
\* however uploads and reviews cross, and although states are written from
\* stale copies (verify_kyc_document, reject_kyc_document, handle_kyc_image).
StateHasDocument ==
    /\ kyc = "under_review" => Pending # {}
    /\ kyc = "verified" => verified # {}
    /\ kyc = "rejected" => rejected # {}
=============================================================================
