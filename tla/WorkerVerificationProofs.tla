----------------------- MODULE WorkerVerificationProofs -----------------------
(***************************************************************************)
(* Theorems about WorkerVerification, for every number of documents and of *)
(* concurrent requests.                                                    *)
(***************************************************************************)
EXTENDS WorkerVerification, TLAPS, FiniteSetTheorems

\* A review in flight is about a document: with it the types are inductive.
ReviewsNameDocuments ==
  \A s \in Slots : req[s].op \in {"approve", "reject"} => req[s].doc \in Docs
Typed == TypeOK /\ ReviewsNameDocuments

\* The rejected documents can be counted.
LEMMA RejectionsNat == Rejections \in Nat
<1>1. IsFiniteSet(With("REJECTED"))
  BY DocsAssumption, FS_Subset DEF With
<1> QED BY <1>1, FS_CardinalityType DEF Rejections

\* What a slot holds after a request arrives, moves on or is answered.
LEMMA SlotsTyped ==
  ASSUME Typed, NEW s \in Slots,
         \/ \E op \in {"submit", "reinstate"}, step \in {"pending", "write"} :
              Arrive(s, op, NoDoc, step)
         \/ \E op \in {"approve", "reject"}, d \in Docs, step \in {"worker", "count"} :
              Arrive(s, op, d, step)
         \/ \E step \in {"limit", "write"} : Goto(s, step)
         \/ Done(s)
  PROVE  req' \in [Slots -> Request] /\ ReviewsNameDocuments'
BY DEF Typed, TypeOK, ReviewsNameDocuments, Arrive, Goto, Done, Request, Idle

-----------------------------------------------------------------------------
\* The initial state is well-formed.
LEMMA TypedInit == Init => Typed
BY DEF Init, Typed, TypeOK, ReviewsNameDocuments, WorkerStatus, DocStatus, Idle, Request

\* Every step keeps the shape of the rows and of the requests in flight.
LEMMA TypedStep ==
  ASSUME Typed, [Next]_vars
  PROVE  Typed'
<1> USE DEF Typed, Unwritten
<1>1. ASSUME NEW s \in Slots, Submission(s) PROVE Typed'
  <2>1. CASE SubmitArrives(s)
    BY <2>1, SlotsTyped DEF SubmitArrives, TypeOK
  <2>2. CASE SubmitChecksPending(s) \/ SubmitChecksLimit(s)
    BY <2>2, SlotsTyped DEF SubmitChecksPending, SubmitChecksLimit, TypeOK
  <2>3. CASE SubmitWrites(s)
    BY <2>3, SlotsTyped DEF SubmitWrites, TypeOK, WorkerStatus, DocStatus
  <2> QED BY <1>1, <2>1, <2>2, <2>3 DEF Submission
<1>2. ASSUME NEW s \in Slots, Review(s) PROVE Typed'
  <2>1. ASSUME NEW op \in {"approve", "reject"}, NEW d \in Docs, ReviewArrives(s, op, d)
        PROVE  Typed'
    BY <2>1, SlotsTyped DEF ReviewArrives, TypeOK
  <2>2. CASE ApproveReadsWorker(s)
    BY <2>2, SlotsTyped DEF ApproveReadsWorker, TypeOK
  <2>3. CASE Approve(s)
    BY <2>3, SlotsTyped DEF Approve, TypeOK, WorkerStatus, DocStatus
  <2>4. CASE RejectCounts(s)
    <3> DEFINE r == [req[s] EXCEPT !.step = "write", !.previous = Rejections]
    <3>1. req' = [req EXCEPT ![s] = r] /\ Unwritten
      BY <2>4 DEF RejectCounts
    <3>2. req[s] \in Request /\ Rejections \in Nat
      BY RejectionsNat DEF TypeOK
    <3>3. r \in Request /\ r.op = req[s].op /\ r.doc = req[s].doc
      BY <3>2 DEF Request
    <3> HIDE DEF r
    <3> QED BY <3>1, <3>3 DEF TypeOK, ReviewsNameDocuments
  <2>5. CASE Reject(s)
    BY <2>5, SlotsTyped DEF Reject, TypeOK, WorkerStatus, DocStatus
  <2> QED BY <1>2, <2>1, <2>2, <2>3, <2>4, <2>5 DEF Review
<1>3. ASSUME NEW s \in Slots, Conduct(s) PROVE Typed'
  <2>1. CASE ReinstateArrives(s)
    BY <2>1, SlotsTyped DEF ReinstateArrives, TypeOK
  <2>2. CASE Reinstate(s)
    BY <2>2, SlotsTyped DEF Reinstate, TypeOK, WorkerStatus
  <2> QED BY <1>3, <2>1, <2>2 DEF Conduct
<1>4. CASE Suspend \/ Unsuspend \/ StrikesOut
  BY <1>4 DEF Suspend, Unsuspend, StrikesOut, TypeOK, WorkerStatus, ReviewsNameDocuments
<1>5. CASE UNCHANGED vars
  BY <1>5 DEF vars, TypeOK, ReviewsNameDocuments
<1> QED BY <1>1, <1>2, <1>3, <1>4, <1>5 DEF Next

\* Every row and every request in flight keeps its shape, however the requests
\* of workers and administrators cross.
THEOREM VerificationTyped == Spec => []Typed
BY TypedInit, TypedStep, PTL DEF Spec

\* The same for the invariant that the model checker looks at.
THEOREM VerificationTypeCorrect == Spec => []TypeOK
BY VerificationTyped, PTL DEF Typed

-----------------------------------------------------------------------------
\* A step that writes one document, and the sets of documents it changes.
LEMMA WrittenDoc ==
  ASSUME TypeOK, NEW d \in Docs, NEW st, doc' = [doc EXCEPT ![d] = st]
  PROVE  /\ d \in With(st)'
         /\ \A other : other # st => With(other)' \subseteq With(other)
BY DEF TypeOK, With

\* The status of the profile never stands without the paper it rests on,
\* whichever reviews, submissions and sanctions cross each other
\* (approveVerification, rejectVerification).
THEOREM Grounded == Spec => []StatusHasGround
<1>1. Init => StatusHasGround
  BY DEF Init, StatusHasGround
<1>2. Typed /\ StatusHasGround /\ [Next]_vars => StatusHasGround'
  <2> SUFFICES ASSUME Typed, StatusHasGround, [Next]_vars PROVE StatusHasGround'
    OBVIOUS
  <2> USE DEF Typed
  <2>1. ASSUME NEW s \in Slots, SubmitWrites(s) PROVE StatusHasGround'
    BY <2>1 DEF SubmitWrites, StatusHasGround
  <2>2. ASSUME NEW s \in Slots, Approve(s) PROVE StatusHasGround'
    <3>1. req[s].doc \in Docs
      BY <2>2 DEF Approve, At, ReviewsNameDocuments
    <3> QED BY <2>2, <3>1, WrittenDoc DEF Approve, StatusHasGround
  <2>3. ASSUME NEW s \in Slots, Reject(s) PROVE StatusHasGround'
    <3>1. req[s].doc \in Docs
      BY <2>3 DEF Reject, At, ReviewsNameDocuments
    <3> QED BY <2>3, <3>1, WrittenDoc DEF Reject, StatusHasGround
  <2>4. ASSUME NEW s \in Slots, Reinstate(s) PROVE StatusHasGround'
    BY <2>4 DEF Reinstate, StatusHasGround
  <2>5. CASE Suspend \/ StrikesOut
    BY <2>5 DEF Suspend, StrikesOut, StatusHasGround
  <2>6. CASE UNCHANGED <<status, doc, ruling>>
    BY <2>6 DEF StatusHasGround, With
  <2> QED
    BY <2>1, <2>2, <2>3, <2>4, <2>5, <2>6
       DEF Next, Submission, Review, Conduct, SubmitArrives, SubmitChecksPending,
           SubmitChecksLimit, ReviewArrives, ApproveReadsWorker, RejectCounts,
           ReinstateArrives, Unsuspend, Unwritten, vars
<1> QED BY <1>1, <1>2, VerificationTyped, PTL DEF Spec

\* An application is never lost: a profile that says PENDING has a document in
\* the review queue, or its worker has never submitted one (submitVerification).
THEOREM UnderReview == Spec => []PendingIsUnderReview
<1>1. Init => PendingIsUnderReview
  BY DEF Init, PendingIsUnderReview, With
<1>2. Typed /\ PendingIsUnderReview /\ [Next]_vars => PendingIsUnderReview'
  <2> SUFFICES ASSUME Typed, PendingIsUnderReview, [Next]_vars PROVE PendingIsUnderReview'
    OBVIOUS
  <2>1. ASSUME NEW s \in Slots, SubmitWrites(s) PROVE PendingIsUnderReview'
    <3>1. PICK d \in With("NONE") : doc' = [doc EXCEPT ![d] = "PENDING"]
      BY <2>1 DEF SubmitWrites
    <3>2. d \in Docs
      BY DEF With
    <3>3. d \in With("PENDING")'
      BY <3>1, <3>2, WrittenDoc DEF Typed
    <3> QED BY <3>3 DEF PendingIsUnderReview
  <2>2. ASSUME NEW s \in Slots, Approve(s) \/ Reject(s) \/ Reinstate(s)
        PROVE  PendingIsUnderReview'
    BY <2>2 DEF Approve, Reject, Reinstate, PendingIsUnderReview
  <2>3. CASE Suspend \/ StrikesOut
    BY <2>3 DEF Suspend, StrikesOut, PendingIsUnderReview
  <2>4. CASE UNCHANGED <<status, doc>>
    BY <2>4 DEF PendingIsUnderReview, With
  <2> QED
    BY <2>1, <2>2, <2>3, <2>4
       DEF Next, Submission, Review, Conduct, SubmitArrives, SubmitChecksPending,
           SubmitChecksLimit, ReviewArrives, ApproveReadsWorker, RejectCounts,
           ReinstateArrives, Unsuspend, Unwritten, vars
<1> QED BY <1>1, <1>2, VerificationTyped, PTL DEF Spec
=============================================================================
