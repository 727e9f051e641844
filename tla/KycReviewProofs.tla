--------------------------- MODULE KycReviewProofs ---------------------------
(***************************************************************************)
(* The state of a sender's KYC always tells of a document, for every set   *)
(* of uploads and of administrators.                                       *)
(***************************************************************************)
EXTENDS KycReview, TLAPS

\* An upload stores its document once; a review has a document before a user.
Ordered ==
    /\ \A u \in Upload : upload_copy[u] # "none" => u \notin stored
    /\ \A a \in Admin : review_copy[a] # "none" => reviewed[a] # {}

\* No review of d that has loaded the user will keep the state from following d.
Undecided(d) ==
    /\ d \in Pending
    /\ \A a \in Admin : review_copy[a] # "none" /\ d \in reviewed[a] =>
                          review_copy[a] = "under_review"

\* StateHasDocument, strengthened: the review of the document last uploaded
\* loads the user after the document, hence sees the sender under review.
Waits ==
    /\ kyc = "under_review" => \E d \in Upload : Undecided(d)
    /\ kyc = "verified" => verified # {}
    /\ kyc = "rejected" => rejected # {}

KycInv == KycTypeOK /\ Ordered /\ Waits

-----------------------------------------------------------------------------

LEMMA InitEstablishes == KycInit => KycInv
  BY DEF KycInit, KycInv, KycTypeOK, Ordered, Waits, KycState

LEMMA UploadBeginPreserves ==
    ASSUME KycInv, NEW u \in Upload, UploadBegin(u)
    PROVE  KycInv'
  BY DEF UploadBegin, KycInv, KycTypeOK, Ordered, Waits, Undecided, Pending

LEMMA UploadFailsPreserves ==
    ASSUME KycInv, NEW u \in Upload, UploadFails(u)
    PROVE  KycInv'
  BY DEF UploadFails, KycInv, KycTypeOK, Ordered, Waits, Undecided, Pending

LEMMA UploadEndPreserves ==
    ASSUME KycInv, NEW u \in Upload, UploadEnd(u)
    PROVE  KycInv'
<1> USE DEF KycInv, UploadEnd
<1>1. KycTypeOK' /\ Ordered'
  BY DEF KycTypeOK, KycState, Flushed, Ordered
<1>2. u \notin stored
  BY DEF Ordered
<1>3. CASE upload_copy[u] = "under_review"
  <2>1. kyc' = kyc
    BY <1>3 DEF Flushed
  <2>2. ASSUME NEW d \in Upload, Undecided(d) PROVE Undecided(d)'
    BY <2>2 DEF Undecided, Pending
  <2> QED BY <1>1, <2>1, <2>2 DEF Waits
<1>4. CASE upload_copy[u] # "under_review"
  <2>1. kyc' = "under_review"
    BY <1>4 DEF Flushed
  <2>2. Undecided(u)'
    BY <1>2 DEF Undecided, Pending, KycTypeOK
  <2> QED BY <1>1, <2>1, <2>2 DEF Waits
<1> QED BY <1>3, <1>4

LEMMA ReviewDocumentPreserves ==
    ASSUME KycInv, NEW a \in Admin, NEW d \in Upload, ReviewDocument(a, d)
    PROVE  KycInv'
<1> USE DEF KycInv, ReviewDocument
<1>1. KycTypeOK' /\ Ordered'
  BY DEF KycTypeOK, Ordered
<1>2. review_copy[a] = "none"
  BY DEF Ordered
<1>3. ASSUME NEW e \in Upload, Undecided(e) PROVE Undecided(e)'
  BY <1>2, <1>3 DEF Undecided, Pending, KycTypeOK
<1> QED BY <1>1, <1>3 DEF Waits

LEMMA ReviewUserPreserves ==
    ASSUME KycInv, NEW a \in Admin, ReviewUser(a)
    PROVE  KycInv'
<1> USE DEF KycInv, ReviewUser
<1>1. KycTypeOK' /\ Ordered'
  BY DEF KycTypeOK, Ordered
<1>2. ASSUME NEW e \in Upload, kyc = "under_review", Undecided(e) PROVE Undecided(e)'
  BY <1>2 DEF Undecided, Pending, KycTypeOK
<1> QED BY <1>1, <1>2 DEF Waits

\* A decision leaves the state alone only when the copy already says so, and
\* then the document that keeps the sender under review is another.
LEMMA DecidePreserves ==
    ASSUME KycInv, NEW a \in Admin, NEW state \in {"verified", "rejected"},
           Decide(a, state),
           verified \subseteq verified', rejected \subseteq rejected',
           verified' \cup rejected' = verified \cup rejected \cup reviewed[a],
           state = "verified" => verified' # {},
           state = "rejected" => rejected' # {}
    PROVE  Waits'
<1> USE DEF KycInv, Decide
<1>1. CASE review_copy[a] = state
  <2>1. kyc' = kyc
    BY <1>1 DEF Flushed
  <2>2. ASSUME NEW d \in Upload, Undecided(d) PROVE Undecided(d)'
    <3>1. d \notin reviewed[a]
      BY <1>1, <2>2 DEF Undecided
    <3>2. d \in Pending'
      BY <2>2, <3>1 DEF Undecided, Pending
    <3> QED BY <2>2, <3>2 DEF Undecided, KycTypeOK
  <2> QED BY <2>1, <2>2 DEF Waits
<1>2. CASE review_copy[a] # state
  BY <1>2 DEF Flushed, Waits
<1> QED BY <1>1, <1>2

LEMMA VerifyPreserves ==
    ASSUME KycInv, NEW a \in Admin, Verify(a)
    PROVE  KycInv'
<1>1. reviewed[a] # {}
  BY DEF Verify, Decide, KycInv, Ordered
<1>2. Waits'
  BY <1>1, DecidePreserves DEF Verify
<1>3. KycTypeOK' /\ Ordered'
  BY DEF Verify, Decide, Flushed, KycInv, KycTypeOK, KycState, Ordered
<1> QED BY <1>2, <1>3 DEF KycInv

LEMMA RejectPreserves ==
    ASSUME KycInv, NEW a \in Admin, Reject(a)
    PROVE  KycInv'
<1>1. reviewed[a] # {}
  BY DEF Reject, Decide, KycInv, Ordered
<1>2. Waits'
  BY <1>1, DecidePreserves DEF Reject
<1>3. KycTypeOK' /\ Ordered'
  BY DEF Reject, Decide, Flushed, KycInv, KycTypeOK, KycState, Ordered
<1> QED BY <1>2, <1>3 DEF KycInv

LEMMA NextPreserves == KycInv /\ [KycNext]_kycVars => KycInv'
<1> SUFFICES ASSUME KycInv, [KycNext]_kycVars PROVE KycInv'
  OBVIOUS
<1>1. CASE KycNext
  BY <1>1, UploadBeginPreserves, UploadEndPreserves, UploadFailsPreserves,
     ReviewDocumentPreserves, ReviewUserPreserves, VerifyPreserves, RejectPreserves
  DEF KycNext
<1>2. CASE UNCHANGED kycVars
  BY <1>2 DEF kycVars, KycInv, KycTypeOK, Ordered, Waits, Undecided, Pending
<1> QED BY <1>1, <1>2

\* Types of the documents, the reviews and the state (KycDocument, User).
THEOREM KycTypeCorrect == KycSpec => []KycTypeOK
<1>1. KycInv => KycTypeOK
  BY DEF KycInv
<1> QED BY <1>1, InitEstablishes, NextPreserves, PTL DEF KycSpec

\* A sender under review has a document that waits, a verified one a verified
\* document, a rejected one a rejected document, whatever uploads and reviews
\* run side by side (handle_kyc_image, verify_kyc_document, reject_kyc_document).
THEOREM StateAlwaysHasDocument == KycSpec => []StateHasDocument
<1>1. KycInv => StateHasDocument
  BY DEF KycInv, Waits, Undecided, Pending, StateHasDocument
<1> QED BY <1>1, InitEstablishes, NextPreserves, PTL DEF KycSpec
=============================================================================
