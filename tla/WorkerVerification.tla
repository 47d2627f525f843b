-------------------------- MODULE WorkerVerification --------------------------
(***************************************************************************)
(* How a worker's identity is verified: the worker submits documents, an   *)
(* administrator approves or rejects each, and the status of the profile   *)
(* follows; suspensions and reinstatements for conduct act on the same     *)
(* status.  Nothing here reads another worker's rows, so the module is     *)
(* about one worker.                                                       *)
(*                                                                         *)
(* As in Bookings a request in flight is in a slot, and every await is a   *)
(* point where another request may run.  The transactions are PostgreSQL's *)
(* READ COMMITTED: what one has counted may be out of date when it writes, *)
(* so its reads are steps of their own and its writes appear together.     *)
(***************************************************************************)
EXTENDS Integers, FiniteSets

CONSTANTS
  Docs,           \* keys of verification_docs: bounds the submissions
  Slots,          \* requests handled at the same time
  MaxRejections,  \* MAX_VERIFICATION_REJECTIONS
  NoDoc           \* the document of a request that has none

ASSUME RejectionsAssumption == MaxRejections \in Nat \ {0}
ASSUME DocsAssumption == NoDoc \notin Docs /\ IsFiniteSet(Docs)

VARIABLES
  status,   \* worker_profiles.status
  account,  \* users.status
  doc,      \* status of each verification_docs row, "NONE" before its insert
  req,      \* the request in each slot
  ruling    \* history: what administrators last decided about conduct

vars == <<status, account, doc, req, ruling>>

WorkerStatus == {"PENDING", "VERIFIED", "REJECTED", "SUSPENDED"}
DocStatus    == {"NONE", "PENDING", "APPROVED", "REJECTED"}

\* previous: the rejections a rejection in flight has counted.
Request ==
  [op : {"idle", "submit", "approve", "reject", "reinstate"}, doc : Docs \cup {NoDoc},
   step : {"pending", "limit", "worker", "count", "write"}, previous : Nat]
Idle == [op |-> "idle", doc |-> NoDoc, step |-> "write", previous |-> 0]

\* createProfile: the profile is PENDING and nothing has been submitted.
Init ==
  /\ status = "PENDING"
  /\ account = "ACTIVE"
  /\ doc = [d \in Docs |-> "NONE"]
  /\ req = [s \in Slots |-> Idle]
  /\ ruling = "none"

With(st)   == {d \in Docs : doc[d] = st}
Rejections == Cardinality(With("REJECTED"))

Arrive(s, op, d, step) ==
  /\ req[s] = Idle
  /\ req' = [req EXCEPT ![s] = [op |-> op, doc |-> d, step |-> step, previous |-> 0]]
Goto(s, step)   == req' = [req EXCEPT ![s].step = step]
Done(s)         == req' = [req EXCEPT ![s] = Idle]
At(s, op, step) == req[s].op = op /\ req[s].step = step
Unwritten       == UNCHANGED <<status, account, doc, ruling>>

-----------------------------------------------------------------------------
(* POST /workers/verification.  The files are written between the read of  *)
(* the profile and the transaction, which looks for a pending submission,  *)
(* counts the rejections, and sets the status and inserts the row.         *)

SubmitArrives(s) ==
  /\ status \in {"PENDING", "REJECTED"}
  /\ Arrive(s, "submit", NoDoc, "pending")
  /\ Unwritten

SubmitChecksPending(s) ==
  /\ At(s, "submit", "pending")
  /\ IF With("PENDING") = {} THEN Goto(s, "limit") ELSE Done(s)
  /\ Unwritten

SubmitChecksLimit(s) ==
  /\ At(s, "submit", "limit")
  /\ IF Rejections < MaxRejections THEN Goto(s, "write") ELSE Done(s)
  /\ Unwritten

\* A submission beyond the bound Docs stays in its slot.
SubmitWrites(s) ==
  /\ At(s, "submit", "write")
  /\ status' = "PENDING"
  /\ \E d \in With("NONE") : doc' = [doc EXCEPT ![d] = "PENDING"]
  /\ Done(s)
  /\ UNCHANGED <<account, ruling>>

-----------------------------------------------------------------------------
(* PATCH /admin/verifications/:id/approve and /reject.  The document is    *)
(* read before the transaction, which writes it by its id alone.           *)

ReviewArrives(s, op, d) ==
  /\ doc[d] = "PENDING"
  /\ Arrive(s, op, d, IF op = "approve" THEN "worker" ELSE "count")
  /\ Unwritten

\* assertWorkerIsUnverified.
ApproveReadsWorker(s) ==
  /\ At(s, "approve", "worker")
  /\ IF status # "VERIFIED" THEN Goto(s, "write") ELSE Done(s)
  /\ Unwritten

\* Variant: the document is approved, the profile is left as it was.
Approve_DocOnly(s) ==
  /\ At(s, "approve", "write")
  /\ doc' = [doc EXCEPT ![req[s].doc] = "APPROVED"]
  /\ Done(s)
  /\ UNCHANGED <<status, account, ruling>>
Approve(s) ==
  /\ At(s, "approve", "write")
  /\ doc' = [doc EXCEPT ![req[s].doc] = "APPROVED"]
  /\ status' = "VERIFIED"
  /\ Done(s)
  /\ UNCHANGED <<account, ruling>>

\* Variant: the document under review is taken out of the count.
RejectCounts_Others(s) ==
  /\ At(s, "reject", "count")
  /\ req' = [req EXCEPT ![s].step = "write", ![s].previous = Rejections - 1]
  /\ Unwritten
RejectCounts(s) ==
  /\ At(s, "reject", "count")
  /\ req' = [req EXCEPT ![s].step = "write", ![s].previous = Rejections]
  /\ Unwritten

\* Variant: only the profile is written.
Reject_ProfileOnly(s) ==
  /\ At(s, "reject", "write")
  /\ status' = IF req[s].previous + 1 >= 2 THEN "SUSPENDED" ELSE "REJECTED"
  /\ Done(s)
  /\ UNCHANGED <<account, doc, ruling>>
Reject(s) ==
  /\ At(s, "reject", "write")
  /\ doc' = [doc EXCEPT ![req[s].doc] = "REJECTED"]
  /\ status' = IF req[s].previous + 1 >= 2 THEN "SUSPENDED" ELSE "REJECTED"
  /\ Done(s)
  /\ UNCHANGED <<account, ruling>>

-----------------------------------------------------------------------------
(* Conduct: setUserSuspension, a strike that reaches the threshold, and    *)
(* reinstateWorker (findSuspendedWorker, then the transaction).            *)

Suspend ==
  /\ account' = "SUSPENDED" /\ status' = "SUSPENDED"
  /\ ruling' = "suspended"
  /\ UNCHANGED <<doc, req>>
Unsuspend ==
  /\ account = "SUSPENDED" /\ account' = "ACTIVE"
  /\ UNCHANGED <<status, doc, req, ruling>>
StrikesOut ==
  /\ status' = "SUSPENDED"
  /\ ruling' = "suspended"
  /\ UNCHANGED <<account, doc, req>>

ReinstateArrives(s) ==
  /\ status = "SUSPENDED"
  /\ Arrive(s, "reinstate", NoDoc, "write")
  /\ Unwritten
Reinstate(s) ==
  /\ At(s, "reinstate", "write")
  /\ account' = "ACTIVE" /\ status' = "VERIFIED"
  /\ ruling' = "reinstated"
  /\ Done(s)
  /\ UNCHANGED doc

-----------------------------------------------------------------------------
Submission(s) ==
  SubmitArrives(s) \/ SubmitChecksPending(s) \/ SubmitChecksLimit(s) \/ SubmitWrites(s)
Review(s) ==
  \/ \E op \in {"approve", "reject"}, d \in Docs : ReviewArrives(s, op, d)
  \/ ApproveReadsWorker(s) \/ Approve(s) \/ RejectCounts(s) \/ Reject(s)
Conduct(s) == ReinstateArrives(s) \/ Reinstate(s)

Next ==
  \/ \E s \in Slots : Submission(s) \/ Review(s) \/ Conduct(s)
  \/ Suspend \/ Unsuspend \/ StrikesOut

Spec == Init /\ [][Next]_vars

-----------------------------------------------------------------------------
(* Correctness.                                                            *)

\* Every row and every request in flight keeps its shape.
TypeOK ==
  /\ status \in WorkerStatus
  /\ account \in {"ACTIVE", "SUSPENDED"}
  /\ doc \in [Docs -> DocStatus]
  /\ req \in [Slots -> Request]
  /\ ruling \in {"none", "suspended", "reinstated"}

\* The status never stands without the paper it rests on: a verified worker has
\* an approved document or was reinstated, a rejected one has a rejected document
\* (approveVerification, rejectVerification).
StatusHasGround ==
  /\ status = "VERIFIED" => With("APPROVED") # {} \/ ruling = "reinstated"
  /\ status = "REJECTED" => With("REJECTED") # {}

\* An application is never lost: a worker whose profile says PENDING has a document
\* in the review queue, or has never submitted one.
PendingIsUnderReview ==
  status = "PENDING" => With("PENDING") # {} \/ With("NONE") = Docs

-----------------------------------------------------------------------------
(* What the documents say and the code does not keep.                      *)

\* A suspension for conduct lasts until the reinstatement that lifts it
\* (admin.service.ts:192-194).
ConductSuspensionHolds ==
  ruling = "suspended" => status = "SUSPENDED"
=============================================================================
