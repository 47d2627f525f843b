------------------------------ MODULE Bookings ------------------------------
(***************************************************************************)
(* The booking engine of the API: the rows of the bookings, no_show_reports,*)
(* strikes, worker_profiles and users tables, the HTTP requests that work  *)
(* on them, and the two cron jobs of bookings.cron.ts.                     *)
(*                                                                         *)
(* The database is shared; every `await` of a handler is a point where     *)
(* another request or job may run.  A request in flight occupies a slot    *)
(* that remembers what it has read: it is authorised (users and            *)
(* worker_profiles read), reads the booking, and writes.  A statement of   *)
(* PostgreSQL is atomic, and so is a $transaction here: each one takes row *)
(* locks it keeps to its end and decides by a guarded update or a unique   *)
(* index, so its effect is that of running at its commit.                  *)
(***************************************************************************)
EXTENDS Integers, FiniteSets

CONSTANTS
  Customers,        \* customer accounts (users row and customer_profiles row)
  Workers,          \* worker accounts (users row and worker_profiles row)
  BookingIds,       \* keys of bookings: bounds how many are ever created
  Slots,            \* requests the server handles at the same time
  Operations,       \* requests that clients of this instance send
  Windows,          \* how far its time runs: the phases of a no-show window
  Reasons,          \* reasons its administrators give for a strike
  NoOne,            \* the absent actor, worker or booking of a request
  StrikeThreshold,  \* STRIKE_SUSPENSION_THRESHOLD
  CronBatch,        \* the `take` of the cron jobs' queries
  MaxCrashes        \* bound on restarts of the server process

Users == Customers \cup Workers

BookingOperations ==
  {"update", "accept", "reject", "start", "complete", "cancel",
   "reportNoShow", "reportCustomerNoShow"}
AllOperations ==
  BookingOperations \cup
  {"create", "goOnline", "goOffline", "confirm", "dismiss", "reinstate",
   "strike", "suspend", "unsuspend"}

ASSUME AccountsAssumption ==
  /\ Customers \cap Workers = {}
  /\ NoOne \notin Customers \cup Workers \cup BookingIds
ASSUME OperationsAssumption ==
  /\ Operations \subseteq AllOperations
  /\ Windows \subseteq {"before", "open", "closed", "stale"}
  /\ Reasons \subseteq {"POST_ACCEPT_CANCELLATION", "NO_SHOW", "CUSTOMER_COMPLAINT"}
ASSUME TablesAssumption == IsFiniteSet(BookingIds)
ASSUME LimitsAssumption ==
  /\ StrikeThreshold \in Nat \ {0}
  /\ CronBatch \in Nat \ {0}
  /\ MaxCrashes \in Nat

VARIABLES
  booking,    \* bookings, one row per id; status "NONE" while it does not exist
  clock,      \* where the present lies in a booking's deadlines
  report,     \* no_show_reports, unique per booking
  strike,     \* strikes, unique per booking
  worker,     \* worker_profiles
  user,       \* users.status
  req,        \* the request in each slot
  expiryJob,  \* expiredPendingBookings
  staleJob,   \* cancelStaleAcceptedBookings
  notices,    \* push messages the two jobs have sent to customers
  crashes     \* restarts so far, bounded by MaxCrashes

vars == <<booking, clock, report, strike, worker, user, req, expiryJob,
          staleJob, notices, crashes>>

Accounts == <<worker, user>>
Jobs     == <<expiryJob, staleJob, notices>>

-----------------------------------------------------------------------------
(* The tables.                                                             *)

Active == {"PENDING", "ACCEPTED", "IN_PROGRESS"}
BookingStatus ==
  Active \cup {"REJECTED", "COMPLETED", "CANCELLED", "EXPIRED", "NO_SHOW",
               "CUSTOMER_NO_SHOW"}

BookingRow ==
  [status      : BookingStatus \cup {"NONE"},
   customer    : Customers \cup {NoOne},
   worker      : Workers \cup {NoOne},
   accepted    : BOOLEAN,       \* acceptedAt is not null: contacts revealed
   completed   : BOOLEAN,       \* completedAt is not null
   cancelledBy : {"null", "CUSTOMER", "WORKER", "SYSTEM"}]

NoBooking == [status |-> "NONE", customer |-> NoOne, worker |-> NoOne,
              accepted |-> FALSE, completed |-> FALSE,
              cancelledBy |-> "null"]

\* Where now() lies with respect to expiresAt, and to the no-show window of
\* the scheduled date: before its end, in the two hours reports are taken,
\* after them, and over a day later ("stale": both filters of the cron job).
Window   == {"before", "open", "closed", "stale"}
ClockRow == [expired : BOOLEAN, window : Window]

ReportRow == [type : {"null", "WORKER", "CUSTOMER"},
              confirmed : {"null", "true", "false"}]
NoReport  == [type |-> "null", confirmed |-> "null"]

StrikeReason == {"POST_ACCEPT_CANCELLATION", "NO_SHOW", "CUSTOMER_COMPLAINT"}
StrikeRow == [worker : Workers \cup {NoOne}, reason : StrikeReason \cup {"null"},
              issuedBy : {"SYSTEM", "ADMIN", "null"}]
NoStrike  == [worker |-> NoOne, reason |-> "null", issuedBy |-> "null"]

WorkerRow == [status : {"VERIFIED", "SUSPENDED"}, isOnline : BOOLEAN,
              strikeCount : Nat, totalJobsCompleted : Nat]

Request == [op : AllOperations \cup {"idle"}, by : Users \cup {NoOne},
            worker : Workers \cup {NoOne}, booking : BookingIds \cup {NoOne},
            step : {"read", "check", "write"}]
Idle == [op |-> "idle", by |-> NoOne, worker |-> NoOne, booking |-> NoOne,
         step |-> "read"]

Job    == [step : {"idle", "update", "notify"}, found : SUBSET BookingIds]
JobIdle == [step |-> "idle", found |-> {}]

\* No bookings yet; the workers have been verified and have not gone online.
Init ==
  /\ booking = [b \in BookingIds |-> NoBooking]
  /\ clock   = [b \in BookingIds |-> [expired |-> FALSE, window |-> "before"]]
  /\ report  = [b \in BookingIds |-> NoReport]
  /\ strike  = [b \in BookingIds |-> NoStrike]
  /\ worker  = [w \in Workers |-> [status |-> "VERIFIED", isOnline |-> FALSE,
                                   strikeCount |-> 0, totalJobsCompleted |-> 0]]
  /\ user    = [u \in Users |-> "ACTIVE"]
  /\ req     = [s \in Slots |-> Idle]
  /\ expiryJob = JobIdle
  /\ staleJob  = JobIdle
  /\ notices   = {}
  /\ crashes   = 0

-----------------------------------------------------------------------------
(* Requests.  Arrive puts a request in a free slot, Goto moves it past an  *)
(* await, Done answers it.                                                 *)

Arrive(s, op, by, w, b, step) ==
  /\ req[s] = Idle
  /\ op \in Operations
  /\ req' = [req EXCEPT ![s] = [op |-> op, by |-> by, worker |-> w,
                                booking |-> b, step |-> step]]
Goto(s, step) == req' = [req EXCEPT ![s].step = step]
Done(s)       == req' = [req EXCEPT ![s] = Idle]
At(s, op, step) == req[s].op = op /\ req[s].step = step

Exists(b) == booking[b].status # "NONE"

\* The bookings that idx one_active_booking_per_worker covers.
ActiveOf(w) == {b \in BookingIds : booking[b].worker = w /\ booking[b].status \in Active}

(* POST /bookings: findActiveUser, assertWorkerIsAvailable (two queries),  *)
(* insert under the partial unique index.                                  *)
CreateArrives(s, c, w) ==
  /\ user[c] = "ACTIVE"
  /\ Arrive(s, "create", c, w, NoOne, "read")
  /\ UNCHANGED <<booking, clock, report, strike, Accounts, Jobs, crashes>>

Bookable(w) ==
  worker[w].isOnline /\ worker[w].status = "VERIFIED" /\ user[w] = "ACTIVE"

CreateReadsWorker(s) ==
  /\ At(s, "create", "read")
  /\ IF Bookable(req[s].worker) THEN Goto(s, "check") ELSE Done(s)
  /\ UNCHANGED <<booking, clock, report, strike, Accounts, Jobs, crashes>>

CreateChecksFree(s) ==
  /\ At(s, "create", "check")
  /\ IF ActiveOf(req[s].worker) = {} THEN Goto(s, "write") ELSE Done(s)
  /\ UNCHANGED <<booking, clock, report, strike, Accounts, Jobs, crashes>>

\* Variant: the schema without the partial unique index.
IndexAdmits_NoIndex(w) == TRUE
IndexAdmits(w) == ActiveOf(w) = {}

\* A booking may be asked for today in a time window that has already ended.
CreateInserts(s) ==
  /\ At(s, "create", "write")
  /\ IndexAdmits(req[s].worker)
  /\ \E b \in BookingIds, window \in {"before", "open", "closed"} \cap Windows :
       /\ ~Exists(b)
       /\ booking' = [booking EXCEPT ![b] =
            [NoBooking EXCEPT !.status = "PENDING", !.customer = req[s].by,
                              !.worker = req[s].worker]]
       /\ clock' = [clock EXCEPT ![b] = [expired |-> FALSE, window |-> window]]
  /\ Done(s)
  /\ UNCHANGED <<report, strike, Accounts, Jobs, crashes>>

\* P2002 answered as 422; a request beyond the bound BookingIds ends here too.
CreateRefused(s) ==
  /\ At(s, "create", "write")
  /\ ~IndexAdmits(req[s].worker) \/ \A b \in BookingIds : Exists(b)
  /\ Done(s)
  /\ UNCHANGED <<booking, clock, report, strike, Accounts, Jobs, crashes>>

(* The requests on a booking share prepareBookingAction.  Which operations *)
(* a role has, and the statuses it may find the booking in.                *)
ByCustomer == {"update", "cancel", "reportNoShow"}
ByWorker   == {"accept", "reject", "start", "complete", "cancel",
               "reportCustomerNoShow"}

Expected(op, by) ==
  CASE op \in {"update", "accept", "reject"}           -> {"PENDING"}
    [] op = "start"                                     -> {"ACCEPTED"}
    [] op = "complete"                                  -> {"IN_PROGRESS"}
    [] op = "cancel" /\ by \in Customers                -> {"PENDING", "ACCEPTED"}
    [] OTHER                                            -> {"ACCEPTED", "IN_PROGRESS"}

\* findActiveUser, and assertWorkerProfileActive for a worker unless it
\* cancels.  Only the booking's own parties are worth a request: ownership
\* never changes, and findOwnedBooking answers 404 to anyone else.
ActionArrives(s, op, by, b) ==
  /\ op \in BookingOperations
  /\ \/ op \in ByCustomer /\ by = booking[b].customer
     \/ op \in ByWorker /\ by = booking[b].worker
  /\ by # NoOne
  /\ user[by] = "ACTIVE"
  /\ by \in Workers /\ op # "cancel" => worker[by].status = "VERIFIED"
  /\ Arrive(s, op, by, NoOne, b, "read")
  /\ UNCHANGED <<booking, clock, report, strike, Accounts, Jobs, crashes>>

\* assertBookingInStatus, and assertNoShowWindowOpen for a report.
ActionReads(s) ==
  /\ req[s].op \in BookingOperations /\ req[s].step = "read"
  /\ LET r == req[s] IN
     IF /\ booking[r.booking].status \in Expected(r.op, r.by)
        /\ r.op \in {"reportNoShow", "reportCustomerNoShow"} =>
             clock[r.booking].window = "open"
     THEN Goto(s, "write") ELSE Done(s)
  /\ UNCHANGED <<booking, clock, report, strike, Accounts, Jobs, crashes>>

\* The row a guarded updateMany of this request matches.
Matches(r) == booking[r.booking].status \in Expected(r.op, r.by)

\* The three handlers that are one guarded updateMany.
Accept(s) ==
  /\ At(s, "accept", "write") /\ Matches(req[s])
  /\ booking' = [booking EXCEPT ![req[s].booking] =
                  [@ EXCEPT !.status = "ACCEPTED", !.accepted = TRUE]]
  /\ Done(s)
  /\ UNCHANGED <<clock, report, strike, Accounts, Jobs, crashes>>

Reject(s) ==
  /\ At(s, "reject", "write") /\ Matches(req[s])
  /\ booking' = [booking EXCEPT ![req[s].booking] = [@ EXCEPT !.status = "REJECTED"]]
  /\ Done(s)
  /\ UNCHANGED <<clock, report, strike, Accounts, Jobs, crashes>>

\* Variant: start() writes by id, without repeating the status in the where.
Start_Unguarded(s) ==
  /\ At(s, "start", "write")
  /\ booking' = [booking EXCEPT ![req[s].booking] = [@ EXCEPT !.status = "IN_PROGRESS"]]
  /\ Done(s)
  /\ UNCHANGED <<clock, report, strike, Accounts, Jobs, crashes>>
Start(s) ==
  /\ At(s, "start", "write") /\ Matches(req[s])
  /\ booking' = [booking EXCEPT ![req[s].booking] = [@ EXCEPT !.status = "IN_PROGRESS"]]
  /\ Done(s)
  /\ UNCHANGED <<clock, report, strike, Accounts, Jobs, crashes>>

\* Variants: the guard is not repeated in the write; the counter is decremented.
Complete_Unguarded(s) ==
  /\ At(s, "complete", "write")
  /\ booking' = [booking EXCEPT ![req[s].booking] =
                  [@ EXCEPT !.status = "COMPLETED", !.completed = TRUE]]
  /\ worker' = [worker EXCEPT ![req[s].by].totalJobsCompleted = @ + 1]
  /\ Done(s)
  /\ UNCHANGED <<clock, report, strike, user, Jobs, crashes>>
Complete_Decrements(s) ==
  /\ At(s, "complete", "write") /\ Matches(req[s])
  /\ booking' = [booking EXCEPT ![req[s].booking] =
                  [@ EXCEPT !.status = "COMPLETED", !.completed = TRUE]]
  /\ worker' = [worker EXCEPT ![req[s].by].totalJobsCompleted = @ - 1]
  /\ Done(s)
  /\ UNCHANGED <<clock, report, strike, user, Jobs, crashes>>
\* complete: the guarded update and the worker's counter, in one transaction.
Complete(s) ==
  /\ At(s, "complete", "write") /\ Matches(req[s])
  /\ booking' = [booking EXCEPT ![req[s].booking] =
                  [@ EXCEPT !.status = "COMPLETED", !.completed = TRUE]]
  /\ worker' = [worker EXCEPT ![req[s].by].totalJobsCompleted = @ + 1]
  /\ Done(s)
  /\ UNCHANGED <<clock, report, strike, user, Jobs, crashes>>

CancelByCustomer(s) ==
  /\ At(s, "cancel", "write") /\ req[s].by \in Customers /\ Matches(req[s])
  /\ booking' = [booking EXCEPT ![req[s].booking] =
                  [@ EXCEPT !.status = "CANCELLED", !.cancelledBy = "CUSTOMER"]]
  /\ Done(s)
  /\ UNCHANGED <<clock, report, strike, Accounts, Jobs, crashes>>

\* applyStrike: refuses a booking that already carries a strike, inserts the
\* strike, counts it, and suspends the worker at the threshold.
\* Variant: no look-up of an existing strike and no unique index.
MayStrike_Always(b) == TRUE
MayStrike(b) == strike[b] = NoStrike
Struck(row) ==
  LET count == row.strikeCount + 1 IN
  IF count >= StrikeThreshold
  THEN [row EXCEPT !.strikeCount = count, !.status = "SUSPENDED", !.isOnline = FALSE]
  ELSE [row EXCEPT !.strikeCount = count]
ApplyStrike(b, w, reason, issuedBy) ==
  /\ strike' = [strike EXCEPT ![b] = [worker |-> w, reason |-> reason,
                                      issuedBy |-> issuedBy]]
  /\ worker' = [worker EXCEPT ![w] = Struck(@)]

\* Variant: the strike is committed before the guarded update is tried.
CancelByWorker_TwoCommits(s) ==
  /\ At(s, "cancel", "write") /\ req[s].by \in Workers
  /\ MayStrike(req[s].booking)
  /\ ApplyStrike(req[s].booking, req[s].by, "POST_ACCEPT_CANCELLATION", "SYSTEM")
  /\ booking' = IF Matches(req[s])
                THEN [booking EXCEPT ![req[s].booking] =
                  [@ EXCEPT !.status = "CANCELLED", !.cancelledBy = "WORKER"]]
                ELSE booking
  /\ Done(s)
  /\ UNCHANGED <<clock, report, user, Jobs, crashes>>
\* cancel by the worker: strike and guarded update commit together.
CancelByWorker(s) ==
  /\ At(s, "cancel", "write") /\ req[s].by \in Workers /\ Matches(req[s])
  /\ MayStrike(req[s].booking)
  /\ ApplyStrike(req[s].booking, req[s].by, "POST_ACCEPT_CANCELLATION", "SYSTEM")
  /\ booking' = [booking EXCEPT ![req[s].booking] =
                  [@ EXCEPT !.status = "CANCELLED", !.cancelledBy = "WORKER"]]
  /\ Done(s)
  /\ UNCHANGED <<clock, report, user, Jobs, crashes>>

\* The stale time comes a day after the end of the window: by then the half
\* hour to answer is over and no report taken in time is still in flight.
MayGoStale(b) ==
  /\ clock[b].window = "closed" /\ "stale" \in Windows
  /\ clock[b].expired
  /\ \A s \in Slots : req[s].booking = b /\ req[s].step = "write" =>
       req[s].op \notin {"reportNoShow", "reportCustomerNoShow"}

\* update: the write names the id alone, whatever the status has become.
\* A new date is today or later, a new time window may already have ended, and
\* on a date that has passed (only a new date is validated) by more than a day;
\* a change of the notes or the address alone leaves the schedule.
Update(s) ==
  /\ At(s, "update", "write")
  /\ \E window \in ({"before", "open", "closed"} \cap Windows)
                    \cup {clock[req[s].booking].window}
                    \cup {x \in {"stale"} : MayGoStale(req[s].booking)} :
       clock' = [clock EXCEPT ![req[s].booking].window = window]
  /\ Done(s)
  /\ UNCHANGED <<booking, report, strike, Accounts, Jobs, crashes>>

\* The insert of a report; assertNoReportExists just before it refuses no more
\* than the unique index on bookingId does.
Report(s, op, type) ==
  /\ At(s, op, "write")
  /\ report[req[s].booking] = NoReport
  /\ report' = [report EXCEPT ![req[s].booking] = [type |-> type, confirmed |-> "null"]]
  /\ Done(s)
  /\ UNCHANGED <<booking, clock, strike, Accounts, Jobs, crashes>>
ReportNoShow(s)         == Report(s, "reportNoShow", "WORKER")
ReportCustomerNoShow(s) == Report(s, "reportCustomerNoShow", "CUSTOMER")

\* 409: the guarded update matches no row, the booking carries a strike, or
\* the report exists.  The transaction rolls back and nothing is written.
ActionConflicts(s) ==
  /\ req[s].op \in BookingOperations \ {"update"} /\ req[s].step = "write"
  /\ IF req[s].op \in {"reportNoShow", "reportCustomerNoShow"}
     THEN report[req[s].booking] # NoReport
     ELSE \/ ~Matches(req[s])
          \/ req[s].op = "cancel" /\ req[s].by \in Workers /\ ~MayStrike(req[s].booking)
  /\ Done(s)
  /\ UNCHANGED <<booking, clock, report, strike, Accounts, Jobs, crashes>>

-----------------------------------------------------------------------------
(* Requests of a worker about itself, and of administrators.               *)

\* PATCH /workers/availability: the profile is read, then written.
GoOnlineArrives(s, w) ==
  /\ worker[w].status = "VERIFIED"
  /\ Arrive(s, "goOnline", w, NoOne, NoOne, "write")
  /\ UNCHANGED <<booking, clock, report, strike, Accounts, Jobs, crashes>>
GoOnline(s) ==
  /\ At(s, "goOnline", "write")
  /\ worker' = [worker EXCEPT ![req[s].by].isOnline = TRUE]
  /\ Done(s)
  /\ UNCHANGED <<booking, clock, report, strike, user, Jobs, crashes>>
GoOffline(w) ==
  /\ "goOffline" \in Operations
  /\ worker[w].isOnline
  /\ worker' = [worker EXCEPT ![w].isOnline = FALSE]
  /\ UNCHANGED <<booking, clock, report, strike, user, req, Jobs, crashes>>

\* resolveNoShow and resolveCustomerNoShow: the pending report is read before
\* the transaction, which writes whatever has become of it since.
ResolveArrives(s, op, b) ==
  /\ op \in {"confirm", "dismiss"}
  /\ report[b].type # "null" /\ report[b].confirmed = "null"
  /\ Arrive(s, op, NoOne, NoOne, b, "write")
  /\ UNCHANGED <<booking, clock, report, strike, Accounts, Jobs, crashes>>

Dismiss(s) ==
  /\ At(s, "dismiss", "write")
  /\ report' = [report EXCEPT ![req[s].booking].confirmed = "false"]
  /\ Done(s)
  /\ UNCHANGED <<booking, clock, strike, Accounts, Jobs, crashes>>

\* Variant: the reports of workers are not kept apart from those of customers.
ConfirmNoShow_AnyType(s) ==
  /\ At(s, "confirm", "write")
  /\ MayStrike(req[s].booking)
  /\ report' = [report EXCEPT ![req[s].booking].confirmed = "true"]
  /\ ApplyStrike(req[s].booking, booking[req[s].booking].worker, "NO_SHOW", "ADMIN")
  /\ booking' = [booking EXCEPT ![req[s].booking] = [@ EXCEPT !.status = "NO_SHOW"]]
  /\ Done(s)
  /\ UNCHANGED <<clock, user, Jobs, crashes>>
ConfirmNoShow(s) ==
  /\ At(s, "confirm", "write") /\ report[req[s].booking].type = "WORKER"
  /\ MayStrike(req[s].booking)
  /\ report' = [report EXCEPT ![req[s].booking].confirmed = "true"]
  /\ ApplyStrike(req[s].booking, booking[req[s].booking].worker, "NO_SHOW", "ADMIN")
  /\ booking' = [booking EXCEPT ![req[s].booking] = [@ EXCEPT !.status = "NO_SHOW"]]
  /\ Done(s)
  /\ UNCHANGED <<clock, user, Jobs, crashes>>
ConfirmNoShowConflicts(s) ==
  /\ At(s, "confirm", "write") /\ report[req[s].booking].type = "WORKER"
  /\ ~MayStrike(req[s].booking)
  /\ Done(s)
  /\ UNCHANGED <<booking, clock, report, strike, Accounts, Jobs, crashes>>

ConfirmCustomerNoShow(s) ==
  /\ At(s, "confirm", "write") /\ report[req[s].booking].type = "CUSTOMER"
  /\ report' = [report EXCEPT ![req[s].booking].confirmed = "true"]
  /\ booking' = [booking EXCEPT ![req[s].booking] = [@ EXCEPT !.status = "CUSTOMER_NO_SHOW"]]
  /\ Done(s)
  /\ UNCHANGED <<clock, strike, Accounts, Jobs, crashes>>

\* POST /admin/strikes: any worker, any existing booking, any reason.
StrikeWorker(w, b, reason) ==
  /\ "strike" \in Operations
  /\ Exists(b) /\ MayStrike(b)
  /\ ApplyStrike(b, w, reason, "ADMIN")
  /\ UNCHANGED <<booking, clock, report, user, req, Jobs, crashes>>

\* reinstateWorker: findSuspendedWorker, then the transaction.
ReinstateArrives(s, w) ==
  /\ worker[w].status = "SUSPENDED"
  /\ Arrive(s, "reinstate", NoOne, w, NoOne, "write")
  /\ UNCHANGED <<booking, clock, report, strike, Accounts, Jobs, crashes>>
\* Variant: the strikes are not reset.
Reinstate_KeepsStrikes(s) ==
  /\ At(s, "reinstate", "write")
  /\ user' = [user EXCEPT ![req[s].worker] = "ACTIVE"]
  /\ worker' = [worker EXCEPT ![req[s].worker].status = "VERIFIED"]
  /\ Done(s)
  /\ UNCHANGED <<booking, clock, report, strike, Jobs, crashes>>
Reinstate(s) ==
  /\ At(s, "reinstate", "write")
  /\ user' = [user EXCEPT ![req[s].worker] = "ACTIVE"]
  /\ worker' = [worker EXCEPT ![req[s].worker] =
                  [@ EXCEPT !.status = "VERIFIED", !.strikeCount = 0]]
  /\ Done(s)
  /\ UNCHANGED <<booking, clock, report, strike, Jobs, crashes>>

\* Variant: the profile is left to the worker endpoints.
Suspend_AccountOnly(u) ==
  /\ "suspend" \in Operations
  /\ user' = [user EXCEPT ![u] = "SUSPENDED"]
  /\ UNCHANGED <<booking, clock, report, strike, worker, req, Jobs, crashes>>
\* setUserSuspension: the account, and the profile when it is a worker's.
Suspend(u) ==
  /\ "suspend" \in Operations
  /\ user' = [user EXCEPT ![u] = "SUSPENDED"]
  /\ worker' = [w \in Workers |->
       IF w = u THEN [worker[w] EXCEPT !.status = "SUSPENDED", !.isOnline = FALSE]
                ELSE worker[w]]
  /\ UNCHANGED <<booking, clock, report, strike, req, Jobs, crashes>>
Unsuspend(u) ==
  /\ "unsuspend" \in Operations
  /\ user[u] = "SUSPENDED"
  /\ user' = [user EXCEPT ![u] = "ACTIVE"]
  /\ UNCHANGED <<booking, clock, report, strike, worker, req, Jobs, crashes>>

-----------------------------------------------------------------------------
(* The cron jobs: find, guarded updateMany, re-query and notify.  A job    *)
(* that finds nothing returns; a run is over before the next one starts.   *)

Batch(found, all) ==
  /\ found \subseteq all /\ found # {}
  /\ Cardinality(found) <= CronBatch
  /\ found # all => Cardinality(found) = CronBatch

\* Variant: the comparison with expiresAt is the wrong way round.
Overdue_Swapped == {b \in BookingIds : booking[b].status = "PENDING" /\ ~clock[b].expired}
Overdue == {b \in BookingIds : booking[b].status = "PENDING" /\ clock[b].expired}
ExpiryFinds ==
  /\ expiryJob.step = "idle"
  /\ \E found \in SUBSET BookingIds :
       /\ Batch(found, Overdue)
       /\ expiryJob' = [step |-> "update", found |-> found]
  /\ UNCHANGED <<booking, clock, report, strike, Accounts, req, staleJob, notices, crashes>>
ExpiryUpdates ==
  /\ expiryJob.step = "update"
  /\ booking' = [b \in BookingIds |->
       IF b \in expiryJob.found /\ booking[b].status = "PENDING"
       THEN [booking[b] EXCEPT !.status = "EXPIRED"] ELSE booking[b]]
  /\ expiryJob' = [expiryJob EXCEPT !.step = "notify"]
  /\ UNCHANGED <<clock, report, strike, Accounts, req, staleJob, notices, crashes>>

\* Variant: no re-query, everybody found is told.
ConfirmedExpired_Found == expiryJob.found
\* The bookings of this run that the re-query confirms as expired.
ConfirmedExpired == {b \in expiryJob.found : booking[b].status = "EXPIRED"}
ExpiryNotifies ==
  /\ expiryJob.step = "notify"
  /\ notices' = notices \cup (ConfirmedExpired \X {"expired"})
  /\ expiryJob' = JobIdle
  /\ UNCHANGED <<booking, clock, report, strike, Accounts, req, staleJob, crashes>>

\* Variant: the comparison with the grace period is the wrong way round.
NeverStarted_Swapped ==
  {b \in BookingIds : /\ booking[b].status = "ACCEPTED" /\ clock[b].window # "stale"
                      /\ report[b] = NoReport}
NeverStarted ==
  {b \in BookingIds : /\ booking[b].status = "ACCEPTED" /\ clock[b].window = "stale"
                      /\ report[b] = NoReport}
StaleFinds ==
  /\ staleJob.step = "idle"
  /\ \E found \in SUBSET BookingIds :
       /\ Batch(found, NeverStarted)
       /\ staleJob' = [step |-> "update", found |-> found]
  /\ UNCHANGED <<booking, clock, report, strike, Accounts, req, expiryJob, notices, crashes>>
StaleUpdates ==
  /\ staleJob.step = "update"
  /\ booking' = [b \in BookingIds |->
       IF b \in staleJob.found /\ booking[b].status = "ACCEPTED"
       THEN [booking[b] EXCEPT !.status = "CANCELLED", !.cancelledBy = "SYSTEM"]
       ELSE booking[b]]
  /\ staleJob' = [staleJob EXCEPT !.step = "notify"]
  /\ UNCHANGED <<clock, report, strike, Accounts, req, expiryJob, notices, crashes>>
ConfirmedCancelled == {b \in staleJob.found : booking[b].status = "CANCELLED"}
StaleNotifies ==
  /\ staleJob.step = "notify"
  /\ notices' = notices \cup (ConfirmedCancelled \X {"autoCancelled"})
  /\ staleJob' = JobIdle
  /\ UNCHANGED <<booking, clock, report, strike, Accounts, req, expiryJob, crashes>>

-----------------------------------------------------------------------------
(* Time and failure.  Deadlines of a booking that is no longer active are  *)
(* read by no handler, so they stop moving.                                *)

Expires(b) ==
  /\ booking[b].status \in Active /\ ~clock[b].expired
  /\ clock' = [clock EXCEPT ![b].expired = TRUE]
  /\ UNCHANGED <<booking, report, strike, Accounts, req, Jobs, crashes>>

Later == [before |-> "open", open |-> "closed", closed |-> "stale"]

WindowAdvances(b) ==
  /\ booking[b].status \in Active
  /\ clock[b].window # "stale" /\ Later[clock[b].window] \in Windows
  /\ clock[b].window = "closed" => MayGoStale(b)
  /\ clock' = [clock EXCEPT ![b].window = Later[@]]
  /\ UNCHANGED <<booking, report, strike, Accounts, req, Jobs, crashes>>

\* The process restarts: requests and runs in flight are lost, rows are not.
Crash ==
  /\ crashes < MaxCrashes
  /\ crashes' = crashes + 1
  /\ req' = [s \in Slots |-> Idle]
  /\ expiryJob' = JobIdle
  /\ staleJob' = JobIdle
  /\ UNCHANGED <<booking, clock, report, strike, Accounts, notices>>

-----------------------------------------------------------------------------
Arrival(s) ==
  \/ \E c \in Customers, w \in Workers : CreateArrives(s, c, w)
  \/ \E op \in BookingOperations, by \in Users, b \in BookingIds :
       ActionArrives(s, op, by, b)
  \/ \E w \in Workers : GoOnlineArrives(s, w) \/ ReinstateArrives(s, w)
  \/ \E op \in {"confirm", "dismiss"}, b \in BookingIds : ResolveArrives(s, op, b)

Serve(s) ==
  \/ CreateReadsWorker(s) \/ CreateChecksFree(s) \/ CreateInserts(s) \/ CreateRefused(s)
  \/ ActionReads(s) \/ ActionConflicts(s)
  \/ Accept(s) \/ Reject(s) \/ Start(s) \/ Complete(s)
  \/ CancelByCustomer(s) \/ CancelByWorker(s) \/ Update(s)
  \/ ReportNoShow(s) \/ ReportCustomerNoShow(s)
  \/ GoOnline(s) \/ Reinstate(s)
  \/ Dismiss(s) \/ ConfirmNoShow(s) \/ ConfirmNoShowConflicts(s) \/ ConfirmCustomerNoShow(s)

Direct ==
  \/ \E w \in Workers : GoOffline(w)
  \/ \E w \in Workers, b \in BookingIds, reason \in Reasons : StrikeWorker(w, b, reason)
  \/ \E u \in Users : Suspend(u) \/ Unsuspend(u)

ExpiryCron == ExpiryFinds \/ ExpiryUpdates \/ ExpiryNotifies
StaleCron  == StaleFinds \/ StaleUpdates \/ StaleNotifies
Time(b)    == Expires(b) \/ WindowAdvances(b)

Next ==
  \/ \E s \in Slots : Arrival(s) \/ Serve(s)
  \/ Direct
  \/ ExpiryCron \/ StaleCron
  \/ \E b \in BookingIds : Time(b)
  \/ Crash

Spec == Init /\ [][Next]_vars

\* Node runs every request it has taken to its end, @nestjs/schedule calls the
\* jobs every minute and every hour, and time passes.  No client need ask.
FairSpec ==
  /\ Spec
  /\ \A s \in Slots : WF_vars(Serve(s))
  /\ WF_vars(ExpiryCron) /\ WF_vars(StaleCron)
  /\ \A b \in BookingIds : WF_vars(Expires(b)) /\ WF_vars(WindowAdvances(b))

-----------------------------------------------------------------------------
(* Correctness.                                                            *)

\* Every table and every request in flight keeps its shape.
TypeOK ==
  /\ booking \in [BookingIds -> BookingRow]
  /\ clock \in [BookingIds -> ClockRow]
  /\ report \in [BookingIds -> ReportRow]
  /\ strike \in [BookingIds -> StrikeRow]
  /\ worker \in [Workers -> WorkerRow]
  /\ user \in [Users -> {"ACTIVE", "SUSPENDED"}]
  /\ req \in [Slots -> Request]
  /\ expiryJob \in Job /\ staleJob \in Job
  /\ notices \subseteq BookingIds \X {"expired", "autoCancelled"}
  /\ crashes \in 0..MaxCrashes

\* A worker never has two bookings that are pending, accepted or in progress,
\* however many customers ask at once (create, BKG-10).
OneActiveBookingPerWorker ==
  \A a, b \in BookingIds :
    /\ booking[a].status \in Active /\ booking[b].status \in Active
    /\ booking[a].worker = booking[b].worker
    => a = b

\* A worker cancelled the booking exactly when the system struck that worker
\* for it: neither half of the transaction of cancel() stands alone, whichever
\* request, job or verdict meets it (BKG-05).
StruckIffWorkerCancelled ==
  \A b \in BookingIds :
    booking[b].cancelledBy = "WORKER" <=>
      /\ strike[b].issuedBy = "SYSTEM"
      /\ strike[b].worker = booking[b].worker

\* A worker with a full count of strikes is suspended, through reinstatements
\* that were read before the last strike and written after it (BR-06).
ThresholdSuspends ==
  \A w \in Workers :
    worker[w].strikeCount >= StrikeThreshold => worker[w].status = "SUSPENDED"

\* The denormalised counter is the number of jobs ever completed (complete()).
JobsCounted ==
  \A w \in Workers :
    worker[w].totalJobsCompleted =
      Cardinality({b \in BookingIds : booking[b].worker = w /\ booking[b].completed})

\* A booking closed by a no-show verdict was once accepted, and one closed
\* against the worker carries that worker's strike for the no-show (resolveNoShow).
VerdictHasGround ==
  \A b \in BookingIds :
    /\ booking[b].status \in {"NO_SHOW", "CUSTOMER_NO_SHOW"} => booking[b].accepted
    /\ booking[b].status = "NO_SHOW" =>
         /\ strike[b] = [worker |-> booking[b].worker, reason |-> "NO_SHOW",
                         issuedBy |-> "ADMIN"]
         /\ report[b].type = "WORKER"

\* A customer is told that a request expired only if it did: the booking was
\* never answered (the re-query of expiredPendingBookings).
ExpiryNoticeTruthful ==
  \A b \in BookingIds :
    <<b, "expired">> \in notices =>
      booking[b].status = "EXPIRED" /\ ~booking[b].accepted

\* A suspended account has a suspended profile, whatever reinstatements were in
\* flight when it was suspended: the two tables change together
\* (setUserSuspension, reinstateWorker).
AccountAndProfileAgree ==
  \A w \in Workers : user[w] = "SUSPENDED" => worker[w].status = "SUSPENDED"

\* Every strike that counts against a worker is backed by a booking of its own:
\* the count is never above the worker's strike rows (applyStrike, BR-15).
StrikesBackCount ==
  \A w \in Workers :
    worker[w].strikeCount <= Cardinality({b \in BookingIds : strike[b].worker = w})

\* Status and contact details follow the life cycle that is promised, and the jobs and
\* the deadlines of each booking the phases that BookingClock computes from dates.
Lifecycle == INSTANCE BookingLifecycle WITH
  Ids <- BookingIds,
  status <- [b \in BookingIds |-> booking[b].status],
  revealed <- [b \in BookingIds |-> booking[b].accepted]
Standing(b) ==
  CASE booking[b].status = "NONE"        -> "none"
    [] booking[b].status = "PENDING"     -> "asked"
    [] booking[b].status = "ACCEPTED"    -> "held"
    [] booking[b].status = "IN_PROGRESS" -> "begun"
    [] booking[b].status = "EXPIRED"     -> "lapsed"
    [] booking[b].status = "CANCELLED" /\ booking[b].cancelledBy = "SYSTEM" -> "swept"
    [] OTHER                             -> "over"
Phases(b) == INSTANCE BookingPhases WITH
  standing <- Standing(b),
  expired <- clock[b].expired,
  window <- clock[b].window,
  listed <- staleJob.step = "update" /\ b \in staleJob.found
FollowsLifecycle ==
  /\ Lifecycle!Spec
  /\ \A b \in BookingIds : Phases(b)!Init
  /\ [][\A b \in BookingIds : [Phases(b)!Next]_(Phases(b)!vars)]_vars

\* A request is answered in the end: if by nobody else, by the expiry job (BR-08).
PendingIsAnswered ==
  \A b \in BookingIds : booking[b].status = "PENDING" ~> booking[b].status # "PENDING"

\* An accepted booking about which nobody complains does not block its worker
\* forever: it is started, cancelled or swept by the stale job (BKG-11).
AcceptedMovesOn ==
  \A b \in BookingIds :
    booking[b].status = "ACCEPTED" /\ report[b] = NoReport
      ~> booking[b].status # "ACCEPTED" \/ report[b] # NoReport
=============================================================================
