--------------------------- MODULE BookingsProofs ---------------------------
(***************************************************************************)
(* Theorems about Bookings, for every number of customers, workers,        *)
(* bookings and concurrent requests.                                       *)
(***************************************************************************)
EXTENDS Bookings, FiniteSetTheorems, TLAPS

\* A create in flight comes from a customer: with it the types are inductive.
CreatedByCustomers ==
  \A s \in Slots : req[s].op = "create" => req[s].by \in Customers
Typed == TypeOK /\ CreatedByCustomers

-----------------------------------------------------------------------------
\* What a slot holds after a request arrives, moves on or is answered.
LEMMA ArriveTyped ==
  ASSUME Typed, NEW s \in Slots, NEW op, NEW by \in Users \cup {NoOne},
         NEW w \in Workers \cup {NoOne}, NEW b \in BookingIds \cup {NoOne},
         NEW step \in {"read", "check", "write"},
         op = "create" => by \in Customers, Arrive(s, op, by, w, b, step)
  PROVE  req' \in [Slots -> Request] /\ CreatedByCustomers'
BY OperationsAssumption DEF Typed, TypeOK, CreatedByCustomers, Arrive, Request

\* The same when it moves past an await,
LEMMA GotoTyped ==
  ASSUME Typed, NEW s \in Slots, NEW step \in {"read", "check", "write"}, Goto(s, step)
  PROVE  req' \in [Slots -> Request] /\ CreatedByCustomers'
BY DEF Typed, TypeOK, CreatedByCustomers, Goto, Request

\* and when it is answered.
LEMMA DoneTyped ==
  ASSUME Typed, NEW s \in Slots, Done(s)
  PROVE  req' \in [Slots -> Request] /\ CreatedByCustomers'
BY DEF Typed, TypeOK, CreatedByCustomers, Done, Request, Idle

\* applyStrike leaves well-formed rows.
LEMMA ApplyStrikeTyped ==
  ASSUME TypeOK, NEW b, NEW w, NEW reason \in StrikeReason,
         NEW issuedBy \in {"SYSTEM", "ADMIN"},
         b \in BookingIds => w \in Workers \cup {NoOne},
         ApplyStrike(b, w, reason, issuedBy)
  PROVE  strike' \in [BookingIds -> StrikeRow] /\ worker' \in [Workers -> WorkerRow]
<1>1. strike' \in [BookingIds -> StrikeRow]
  BY DEF TypeOK, ApplyStrike, StrikeRow
<1>2. ASSUME NEW row \in WorkerRow PROVE Struck(row) \in WorkerRow
  <2>1. row.strikeCount + 1 \in Nat
    BY <1>2 DEF WorkerRow
  <2>2. [row EXCEPT !.strikeCount = row.strikeCount + 1] \in WorkerRow
    BY <1>2, <2>1 DEF WorkerRow
  <2>3. [row EXCEPT !.strikeCount = row.strikeCount + 1, !.status = "SUSPENDED",
                    !.isOnline = FALSE] \in WorkerRow
    BY <1>2, <2>1 DEF WorkerRow
  <2> QED BY <2>2, <2>3 DEF Struck
<1>3. worker' \in [Workers -> WorkerRow]
  BY <1>2 DEF TypeOK, ApplyStrike
<1> QED BY <1>1, <1>3

\* The updates of a booking row that the handlers write.
LEMMA Statuses ==
  {"ACCEPTED", "REJECTED", "IN_PROGRESS", "COMPLETED", "CANCELLED", "EXPIRED", "NO_SHOW",
   "CUSTOMER_NO_SHOW"} \subseteq BookingStatus
BY DEF BookingStatus, Active

\* A booking row with its status and one timestamp or actor rewritten is a row.
LEMMA RowTyped ==
  ASSUME NEW row \in BookingRow, NEW st \in BookingStatus,
         NEW actor \in {"CUSTOMER", "WORKER", "SYSTEM"}
  PROVE  /\ [row EXCEPT !.status = st] \in BookingRow
         /\ [row EXCEPT !.status = st, !.accepted = TRUE] \in BookingRow
         /\ [row EXCEPT !.status = st, !.completed = TRUE] \in BookingRow
         /\ [row EXCEPT !.status = st, !.cancelledBy = actor] \in BookingRow
BY DEF BookingRow

-----------------------------------------------------------------------------
\* The initial tables are well-formed.
LEMMA TypedInit == Init => Typed
BY LimitsAssumption DEF Init, Typed, TypeOK, CreatedByCustomers, NoBooking, BookingRow,
  BookingStatus, Active, ClockRow, Window, NoReport, ReportRow, NoStrike, StrikeRow,
  WorkerRow, Users, Idle, Request, JobIdle, Job

\* A request arrives or is served.
LEMMA TypedServes ==
  ASSUME Typed, NEW s \in Slots, Arrival(s) \/ Serve(s)
  PROVE  Typed'
<1> USE DEF Typed, Accounts, Jobs
<1>a. /\ NoOne \in Users \cup {NoOne} /\ NoOne \in Workers \cup {NoOne}
      /\ NoOne \in BookingIds \cup {NoOne}
  OBVIOUS
<1>1. ASSUME NEW c \in Customers, NEW w \in Workers, CreateArrives(s, c, w) PROVE Typed'
  BY <1>1, ArriveTyped, <1>a DEF CreateArrives, TypeOK, Users
<1>2. ASSUME NEW op \in BookingOperations, NEW by \in Users, NEW b \in BookingIds,
            ActionArrives(s, op, by, b) PROVE Typed'
  <2>1. op # "create"
    BY DEF BookingOperations
  <2> QED BY <1>2, <2>1, ArriveTyped, <1>a DEF ActionArrives, TypeOK
<1>3. ASSUME NEW w \in Workers, GoOnlineArrives(s, w) PROVE Typed'
  BY <1>3, ArriveTyped, <1>a DEF GoOnlineArrives, TypeOK, Users
<1>4. ASSUME NEW w \in Workers, ReinstateArrives(s, w) PROVE Typed'
  BY <1>4, ArriveTyped, <1>a DEF ReinstateArrives, TypeOK
<1>5. ASSUME NEW op \in {"confirm", "dismiss"}, NEW b \in BookingIds,
            ResolveArrives(s, op, b) PROVE Typed'
  BY <1>5, ArriveTyped, <1>a DEF ResolveArrives, TypeOK
<1>6. CASE CreateReadsWorker(s)
  BY <1>6, GotoTyped, DoneTyped DEF CreateReadsWorker, TypeOK
<1>7. CASE CreateChecksFree(s)
  BY <1>7, GotoTyped, DoneTyped DEF CreateChecksFree, TypeOK
<1>8. CASE ActionReads(s)
  BY <1>8, GotoTyped, DoneTyped DEF ActionReads, TypeOK
<1>9. CASE CreateRefused(s)
  BY <1>9, DoneTyped DEF CreateRefused, TypeOK
<1>10. CASE ActionConflicts(s)
  BY <1>10, DoneTyped DEF ActionConflicts, TypeOK
<1>11. CASE ConfirmNoShowConflicts(s)
  BY <1>11, DoneTyped DEF ConfirmNoShowConflicts, TypeOK
<1>12. CASE CreateInserts(s)
  <2>1. req[s].by \in Customers /\ req[s].worker \in Workers \cup {NoOne}
    BY <1>12 DEF CreateInserts, At, CreatedByCustomers, TypeOK, Request
  <2>r. [NoBooking EXCEPT !.status = "PENDING", !.customer = req[s].by,
                          !.worker = req[s].worker] \in BookingRow
    BY <2>1 DEF NoBooking, BookingRow, BookingStatus, Active
  <2>2. booking' \in [BookingIds -> BookingRow]
    BY <1>12, <2>r DEF CreateInserts, TypeOK
  <2>3. clock' \in [BookingIds -> ClockRow]
    BY <1>12 DEF CreateInserts, TypeOK, ClockRow, Window
  <2> QED BY <1>12, <2>2, <2>3, DoneTyped DEF CreateInserts, TypeOK
<1>13. CASE Accept(s)
  <2>1. booking' \in [BookingIds -> BookingRow]
    BY <1>13, RowTyped, Statuses DEF Accept, TypeOK
  <2> QED BY <1>13, <2>1, DoneTyped DEF Accept, TypeOK
<1>14. CASE Reject(s)
  <2>1. booking' \in [BookingIds -> BookingRow]
    BY <1>14, RowTyped, Statuses DEF Reject, TypeOK
  <2> QED BY <1>14, <2>1, DoneTyped DEF Reject, TypeOK
<1>15. CASE Start(s)
  <2>1. booking' \in [BookingIds -> BookingRow]
    BY <1>15, RowTyped, Statuses DEF Start, TypeOK
  <2> QED BY <1>15, <2>1, DoneTyped DEF Start, TypeOK
<1>16. CASE CancelByCustomer(s)
  <2>1. booking' \in [BookingIds -> BookingRow]
    BY <1>16, RowTyped, Statuses DEF CancelByCustomer, TypeOK
  <2> QED BY <1>16, <2>1, DoneTyped DEF CancelByCustomer, TypeOK
<1>17. CASE Complete(s)
  <2>1. booking' \in [BookingIds -> BookingRow]
    BY <1>17, RowTyped, Statuses DEF Complete, TypeOK
  <2>2. worker' \in [Workers -> WorkerRow]
    <3>1. ASSUME NEW row \in WorkerRow
          PROVE  [row EXCEPT !.totalJobsCompleted = @ + 1] \in WorkerRow
      BY DEF WorkerRow
    <3> QED BY <1>17, <3>1 DEF Complete, TypeOK
  <2> QED BY <1>17, <2>1, <2>2, DoneTyped DEF Complete, TypeOK
<1>18. CASE CancelByWorker(s)
  <2>1. booking' \in [BookingIds -> BookingRow]
    BY <1>18, RowTyped, Statuses DEF CancelByWorker, TypeOK
  <2>2. strike' \in [BookingIds -> StrikeRow] /\ worker' \in [Workers -> WorkerRow]
    <3>1. req[s].by \in Workers
      BY <1>18 DEF CancelByWorker
    <3>2. ApplyStrike(req[s].booking, req[s].by, "POST_ACCEPT_CANCELLATION", "SYSTEM")
      BY <1>18 DEF CancelByWorker
    <3>3. "POST_ACCEPT_CANCELLATION" \in StrikeReason
      BY DEF StrikeReason
    <3> QED BY <3>1, <3>2, <3>3, ApplyStrikeTyped
  <2> QED BY <1>18, <2>1, <2>2, DoneTyped DEF CancelByWorker, TypeOK
<1>19. CASE Update(s)
  <2>1. clock' \in [BookingIds -> ClockRow]
    <3> DEFINE b == req[s].booking
    <3>1. PICK window : /\ window \in {"before", "open", "closed", "stale"} \cup {clock[b].window}
                        /\ clock' = [clock EXCEPT ![b].window = window]
      BY <1>19 DEF Update
    <3>2. ASSUME b \in BookingIds PROVE [clock[b] EXCEPT !.window = window] \in ClockRow
      BY <3>1, <3>2 DEF TypeOK, ClockRow, Window
    <3> QED BY <3>1, <3>2 DEF TypeOK
  <2> QED BY <1>19, <2>1, DoneTyped DEF Update, TypeOK
<1>20. CASE ReportNoShow(s) \/ ReportCustomerNoShow(s)
  <2>1. report' \in [BookingIds -> ReportRow]
    BY <1>20 DEF ReportNoShow, ReportCustomerNoShow, Report, TypeOK, ReportRow
  <2> QED BY <1>20, <2>1, DoneTyped DEF ReportNoShow, ReportCustomerNoShow, Report, TypeOK
<1>21. CASE GoOnline(s)
  <2>1. worker' \in [Workers -> WorkerRow]
    <3>1. \A w \in WorkerRow : [w EXCEPT !.isOnline = TRUE] \in WorkerRow
      BY DEF WorkerRow
    <3>2. worker' = [worker EXCEPT ![req[s].by] = [worker[req[s].by] EXCEPT !.isOnline = TRUE]]
      BY <1>21 DEF GoOnline
    <3> QED BY <3>1, <3>2 DEF TypeOK
  <2> QED BY <1>21, <2>1, DoneTyped DEF GoOnline, TypeOK
<1>22. CASE Reinstate(s)
  <2>1. worker' \in [Workers -> WorkerRow]
    <3>1. \A w \in WorkerRow : [w EXCEPT !.status = "VERIFIED", !.strikeCount = 0] \in WorkerRow
      BY DEF WorkerRow
    <3>2. worker' = [worker EXCEPT ![req[s].worker] =
                       [worker[req[s].worker] EXCEPT !.status = "VERIFIED", !.strikeCount = 0]]
      BY <1>22 DEF Reinstate
    <3> QED BY <3>1, <3>2 DEF TypeOK
  <2>2. user' \in [Users -> {"ACTIVE", "SUSPENDED"}]
    BY <1>22 DEF Reinstate, TypeOK
  <2> QED BY <1>22, <2>1, <2>2, DoneTyped DEF Reinstate, TypeOK
<1>23. CASE Dismiss(s)
  <2>1. report' \in [BookingIds -> ReportRow]
    <3>1. \A r \in ReportRow : [r EXCEPT !.confirmed = "false"] \in ReportRow
      BY DEF ReportRow
    <3>2. report' = [report EXCEPT ![req[s].booking] =
                       [report[req[s].booking] EXCEPT !.confirmed = "false"]]
      BY <1>23 DEF Dismiss
    <3>3. report \in [BookingIds -> ReportRow]
      BY DEF TypeOK
    <3> QED BY <3>1, <3>2, <3>3
  <2> QED BY <1>23, <2>1, DoneTyped DEF Dismiss, TypeOK
<1>24. CASE ConfirmNoShow(s)
  <2>1. report' \in [BookingIds -> ReportRow]
    <3>1. \A r \in ReportRow : [r EXCEPT !.confirmed = "true"] \in ReportRow
      BY DEF ReportRow
    <3>2. report' = [report EXCEPT ![req[s].booking] =
                       [report[req[s].booking] EXCEPT !.confirmed = "true"]]
      BY <1>24 DEF ConfirmNoShow
    <3>3. report \in [BookingIds -> ReportRow]
      BY DEF TypeOK
    <3> QED BY <3>1, <3>2, <3>3
  <2>2. req[s].booking \in BookingIds =>
          booking[req[s].booking].worker \in Workers \cup {NoOne}
    BY DEF TypeOK, BookingRow
  <2>3. strike' \in [BookingIds -> StrikeRow] /\ worker' \in [Workers -> WorkerRow]
    BY <1>24, <2>2, ApplyStrikeTyped DEF ConfirmNoShow, StrikeReason
  <2>4. booking' \in [BookingIds -> BookingRow]
    BY <1>24, RowTyped, Statuses DEF ConfirmNoShow, TypeOK
  <2> QED BY <1>24, <2>1, <2>3, <2>4, DoneTyped DEF ConfirmNoShow, TypeOK
<1>25. CASE ConfirmCustomerNoShow(s)
  <2>1. report' \in [BookingIds -> ReportRow] /\ booking' \in [BookingIds -> BookingRow]
    BY <1>25, RowTyped, Statuses DEF ConfirmCustomerNoShow, TypeOK, ReportRow
  <2> QED BY <1>25, <2>1, DoneTyped DEF ConfirmCustomerNoShow, TypeOK
<1> QED
  BY <1>1, <1>2, <1>3, <1>4, <1>5, <1>6, <1>7, <1>8, <1>9, <1>10, <1>11, <1>12,
     <1>13, <1>14, <1>15, <1>16, <1>17, <1>18, <1>19, <1>20, <1>21, <1>22, <1>23, <1>24, <1>25 DEF Arrival, Serve

\* The steps that no slot takes: direct writes, jobs, time and restarts.
LEMMA TypedRuns ==
  ASSUME Typed, Direct \/ ExpiryCron \/ StaleCron \/ (\E b \in BookingIds : Time(b)) \/ Crash
  PROVE  Typed'
<1> USE DEF Typed, CreatedByCustomers, Accounts, Jobs
<1>1. ASSUME NEW w \in Workers, GoOffline(w) PROVE Typed'
  BY <1>1 DEF GoOffline, TypeOK, WorkerRow
<1>2. ASSUME NEW w \in Workers, NEW b \in BookingIds, NEW reason \in Reasons,
             StrikeWorker(w, b, reason) PROVE Typed'
  <2>0. reason \in StrikeReason
    BY OperationsAssumption DEF StrikeReason
  <2>1. strike' \in [BookingIds -> StrikeRow] /\ worker' \in [Workers -> WorkerRow]
    BY <1>2, <2>0, ApplyStrikeTyped DEF StrikeWorker
  <2> QED BY <1>2, <2>1 DEF StrikeWorker, TypeOK
<1>3. ASSUME NEW u \in Users, Suspend(u) PROVE Typed'
  <2>1. worker' \in [Workers -> WorkerRow]
    <3>1. \A w \in WorkerRow : [w EXCEPT !.status = "SUSPENDED", !.isOnline = FALSE] \in WorkerRow
      BY DEF WorkerRow
    <3> QED BY <1>3, <3>1 DEF Suspend, TypeOK
  <2> QED BY <1>3, <2>1 DEF Suspend, TypeOK
<1>4. ASSUME NEW u \in Users, Unsuspend(u) PROVE Typed'
  BY <1>4 DEF Unsuspend, TypeOK
<1>5. CASE ExpiryFinds \/ StaleFinds
  BY <1>5 DEF ExpiryFinds, StaleFinds, TypeOK, Job
<1>6. CASE ExpiryUpdates
  <2>1. booking' \in [BookingIds -> BookingRow]
    BY <1>6, RowTyped, Statuses DEF ExpiryUpdates, TypeOK
  <2> QED BY <1>6, <2>1 DEF ExpiryUpdates, TypeOK, Job
<1>7. CASE StaleUpdates
  <2>1. booking' \in [BookingIds -> BookingRow]
    BY <1>7, RowTyped, Statuses DEF StaleUpdates, TypeOK
  <2> QED BY <1>7, <2>1 DEF StaleUpdates, TypeOK, Job
<1>8. CASE ExpiryNotifies
  <2>1. ConfirmedExpired \subseteq BookingIds
    BY DEF ConfirmedExpired, TypeOK, Job
  <2> QED BY <1>8, <2>1 DEF ExpiryNotifies, TypeOK, Job, JobIdle
<1>9. CASE StaleNotifies
  <2>1. ConfirmedCancelled \subseteq BookingIds
    BY DEF ConfirmedCancelled, TypeOK, Job
  <2> QED BY <1>9, <2>1 DEF StaleNotifies, TypeOK, Job, JobIdle
<1>10. ASSUME NEW b \in BookingIds, Expires(b) PROVE Typed'
  BY <1>10 DEF Expires, TypeOK, ClockRow
<1>11. ASSUME NEW b \in BookingIds, WindowAdvances(b) PROVE Typed'
  BY <1>11, OperationsAssumption DEF WindowAdvances, TypeOK, ClockRow, Window
<1>12. CASE Crash
  BY <1>12, LimitsAssumption DEF Crash, TypeOK, Request, Idle, Job, JobIdle
<1> QED
  BY <1>1, <1>2, <1>3, <1>4, <1>5, <1>6, <1>7, <1>8, <1>9, <1>10, <1>11, <1>12
     DEF Direct, ExpiryCron, StaleCron, Time

\* Every step keeps the shape of the tables and of the requests in flight.
LEMMA TypedStep == Typed /\ [Next]_vars => Typed'
<1> SUFFICES ASSUME Typed, [Next]_vars PROVE Typed'
  OBVIOUS
<1>1. CASE Next
  BY <1>1, TypedServes, TypedRuns DEF Next
<1>2. CASE UNCHANGED vars
  BY <1>2 DEF vars, Accounts, Jobs, Typed, TypeOK, CreatedByCustomers
<1> QED BY <1>1, <1>2

\* The inductive invariant holds in every reachable state.
LEMMA AlwaysTyped == Spec => []Typed
BY TypedInit, TypedStep, PTL DEF Spec

\* In every state of every behaviour the tables and the requests in flight
\* have their declared shape (all handlers and jobs).
THEOREM TypeCorrect == Spec => []TypeOK
BY AlwaysTyped, PTL DEF Typed

-----------------------------------------------------------------------------
(* One active booking per worker.                                          *)

\* No booking becomes active, and active bookings keep their worker.
NoNewActive ==
  \A b \in BookingIds :
    booking'[b].status \in Active =>
      booking[b].status \in Active /\ booking'[b].worker = booking[b].worker

\* When no booking becomes active, no worker gains a second one.
LEMMA ActiveShrinks ==
  ASSUME OneActiveBookingPerWorker, NoNewActive
  PROVE  OneActiveBookingPerWorker'
BY DEF OneActiveBookingPerWorker, NoNewActive

\* A handler's update of the status of one booking keeps NoNewActive when it
\* leads out of the active statuses or starts from one of them.
LEMMA PutStatus ==
  ASSUME TypeOK, NEW b, NEW st,
         st \in Active /\ b \in BookingIds => booking[b].status \in Active,
         \/ booking' = [booking EXCEPT ![b] = [@ EXCEPT !.status = st]]
         \/ booking' = [booking EXCEPT ![b] = [@ EXCEPT !.status = st, !.accepted = TRUE]]
         \/ booking' = [booking EXCEPT ![b] = [@ EXCEPT !.status = st, !.completed = TRUE]]
         \/ \E actor : booking' =
              [booking EXCEPT ![b] = [@ EXCEPT !.status = st, !.cancelledBy = actor]]
  PROVE  NoNewActive
<1> SUFFICES ASSUME NEW x \in BookingIds, booking'[x].status \in Active
             PROVE  booking[x].status \in Active /\ booking'[x].worker = booking[x].worker
  BY DEF NoNewActive
<1>1. CASE x # b
  BY <1>1 DEF TypeOK
<1>2. CASE x = b
  <2>1. booking[x] \in BookingRow
    BY DEF TypeOK
  <2>2. booking'[x].status = st /\ booking'[x].worker = booking[x].worker
    <3>1. CASE booking' = [booking EXCEPT ![b] = [@ EXCEPT !.status = st]]
      BY <1>2, <2>1, <3>1 DEF TypeOK, BookingRow
    <3>2. CASE booking' = [booking EXCEPT ![b] = [@ EXCEPT !.status = st, !.accepted = TRUE]]
      BY <1>2, <2>1, <3>2 DEF TypeOK, BookingRow
    <3>3. CASE booking' = [booking EXCEPT ![b] = [@ EXCEPT !.status = st, !.completed = TRUE]]
      BY <1>2, <2>1, <3>3 DEF TypeOK, BookingRow
    <3>4. ASSUME NEW actor,
                 booking' = [booking EXCEPT ![b] = [@ EXCEPT !.status = st, !.cancelledBy = actor]]
          PROVE  booking'[x].status = st /\ booking'[x].worker = booking[x].worker
      BY <1>2, <2>1, <3>4 DEF TypeOK, BookingRow
    <3> QED BY <3>1, <3>2, <3>3, <3>4
  <2> QED BY <1>2, <2>2
<1> QED BY <1>1, <1>2

\* Steps that leave the bookings alone make none active.
LEMMA UntouchedBookings ==
  ASSUME UNCHANGED booking
  PROVE  NoNewActive
BY DEF NoNewActive

\* The invariant is kept by every step of a request,
LEMMA ServesKeepOneActive ==
  ASSUME TypeOK, OneActiveBookingPerWorker, NEW s \in Slots, Arrival(s) \/ Serve(s)
  PROVE  OneActiveBookingPerWorker'
<1> DEFINE b == req[s].booking
<1>1. CASE Arrival(s)
  BY <1>1, UntouchedBookings, ActiveShrinks
     DEF Arrival, CreateArrives, ActionArrives, GoOnlineArrives, ReinstateArrives, ResolveArrives
<1>2. CASE \/ CreateReadsWorker(s) \/ CreateChecksFree(s) \/ CreateRefused(s)
           \/ ActionReads(s) \/ ActionConflicts(s) \/ Update(s)
           \/ ReportNoShow(s) \/ ReportCustomerNoShow(s) \/ GoOnline(s) \/ Reinstate(s)
           \/ Dismiss(s) \/ ConfirmNoShowConflicts(s)
  BY <1>2, UntouchedBookings, ActiveShrinks
     DEF CreateReadsWorker, CreateChecksFree, CreateRefused, ActionReads, ActionConflicts,
         Update, ReportNoShow, ReportCustomerNoShow, Report, GoOnline, Reinstate, Dismiss,
         ConfirmNoShowConflicts
<1>3. CASE CreateInserts(s)
  \* The only insert: the partial unique index has no other row of the worker.
  <2> DEFINE w == req[s].worker
             row == [NoBooking EXCEPT !.status = "PENDING", !.customer = req[s].by,
                                      !.worker = w]
  <2>1. PICK n \in BookingIds : booking' = [booking EXCEPT ![n] = row]
    BY <1>3 DEF CreateInserts
  <2>2. row.worker = w
    BY DEF NoBooking
  <2>3. \A a \in BookingIds : booking[a].status \in Active => booking[a].worker # w
    BY <1>3 DEF CreateInserts, IndexAdmits, ActiveOf
  <2>4. \A a \in BookingIds : booking'[a] = IF a = n THEN row ELSE booking[a]
    BY <2>1 DEF TypeOK
  <2> HIDE DEF row, w
  <2> QED BY <2>2, <2>3, <2>4 DEF OneActiveBookingPerWorker
<1>4. CASE Accept(s)
  <2>1. b \in BookingIds => booking[b].status = "PENDING"
    BY <1>4 DEF Accept, At, Matches, Expected
  <2>2. booking' = [booking EXCEPT ![b] = [@ EXCEPT !.status = "ACCEPTED", !.accepted = TRUE]]
    BY <1>4 DEF Accept
  <2> QED BY <2>1, <2>2, PutStatus, ActiveShrinks DEF Active
<1>5. CASE Start(s)
  <2>1. b \in BookingIds => booking[b].status = "ACCEPTED"
    BY <1>5 DEF Start, At, Matches, Expected
  <2>2. booking' = [booking EXCEPT ![b] = [@ EXCEPT !.status = "IN_PROGRESS"]]
    BY <1>5 DEF Start
  <2> QED BY <2>1, <2>2, PutStatus, ActiveShrinks DEF Active
<1>6. CASE Reject(s)
  <2>1. booking' = [booking EXCEPT ![b] = [@ EXCEPT !.status = "REJECTED"]]
    BY <1>6 DEF Reject
  <2>2. "REJECTED" \notin Active
    BY DEF Active
  <2> QED BY <2>1, <2>2, PutStatus, ActiveShrinks
<1>7. CASE Complete(s)
  <2>1. booking' = [booking EXCEPT ![b] = [@ EXCEPT !.status = "COMPLETED", !.completed = TRUE]]
    BY <1>7 DEF Complete
  <2>2. "COMPLETED" \notin Active
    BY DEF Active
  <2> QED BY <2>1, <2>2, PutStatus, ActiveShrinks
<1>8. CASE CancelByCustomer(s)
  <2>1. booking' = [booking EXCEPT ![b] = [@ EXCEPT !.status = "CANCELLED", !.cancelledBy = "CUSTOMER"]]
    BY <1>8 DEF CancelByCustomer
  <2>2. "CANCELLED" \notin Active
    BY DEF Active
  <2> QED BY <2>1, <2>2, PutStatus, ActiveShrinks
<1>9. CASE CancelByWorker(s)
  <2>1. booking' = [booking EXCEPT ![b] = [@ EXCEPT !.status = "CANCELLED", !.cancelledBy = "WORKER"]]
    BY <1>9 DEF CancelByWorker
  <2>2. "CANCELLED" \notin Active
    BY DEF Active
  <2> QED BY <2>1, <2>2, PutStatus, ActiveShrinks
<1>10. CASE ConfirmNoShow(s)
  <2>1. booking' = [booking EXCEPT ![b] = [@ EXCEPT !.status = "NO_SHOW"]]
    BY <1>10 DEF ConfirmNoShow
  <2>2. "NO_SHOW" \notin Active
    BY DEF Active
  <2> QED BY <2>1, <2>2, PutStatus, ActiveShrinks
<1>11. CASE ConfirmCustomerNoShow(s)
  <2>1. booking' = [booking EXCEPT ![b] = [@ EXCEPT !.status = "CUSTOMER_NO_SHOW"]]
    BY <1>11 DEF ConfirmCustomerNoShow
  <2>2. "CUSTOMER_NO_SHOW" \notin Active
    BY DEF Active
  <2> QED BY <2>1, <2>2, PutStatus, ActiveShrinks
<1> QED
  BY <1>1, <1>2, <1>3, <1>4, <1>5, <1>6, <1>7, <1>8, <1>9, <1>10, <1>11 DEF Serve

\* and by every step that no slot takes.
LEMMA RunsKeepOneActive ==
  ASSUME TypeOK, OneActiveBookingPerWorker,
         Direct \/ ExpiryCron \/ StaleCron \/ (\E b \in BookingIds : Time(b)) \/ Crash
  PROVE  OneActiveBookingPerWorker'
<1>1. CASE ExpiryUpdates
  <2>1. NoNewActive
    <3> SUFFICES ASSUME NEW x \in BookingIds, booking'[x].status \in Active
                 PROVE  booking[x].status \in Active /\ booking'[x].worker = booking[x].worker
      BY DEF NoNewActive
    <3>1. booking[x] \in BookingRow
      BY DEF TypeOK
    <3>2. booking'[x].status = "EXPIRED" \/ booking'[x] = booking[x]
      BY <1>1, <3>1 DEF ExpiryUpdates, BookingRow
    <3> QED BY <3>2 DEF Active
  <2> QED BY <2>1, ActiveShrinks
<1>2. CASE StaleUpdates
  <2>1. NoNewActive
    <3> SUFFICES ASSUME NEW x \in BookingIds, booking'[x].status \in Active
                 PROVE  booking[x].status \in Active /\ booking'[x].worker = booking[x].worker
      BY DEF NoNewActive
    <3>1. booking[x] \in BookingRow
      BY DEF TypeOK
    <3>2. booking'[x].status = "CANCELLED" \/ booking'[x] = booking[x]
      BY <1>2, <3>1 DEF StaleUpdates, BookingRow
    <3> QED BY <3>2 DEF Active
  <2> QED BY <2>1, ActiveShrinks
<1>3. CASE \/ Direct \/ ExpiryFinds \/ ExpiryNotifies \/ StaleFinds \/ StaleNotifies
           \/ (\E b \in BookingIds : Time(b)) \/ Crash
  BY <1>3, UntouchedBookings, ActiveShrinks
     DEF Direct, GoOffline, StrikeWorker, Suspend, Unsuspend, ExpiryFinds, ExpiryNotifies,
         StaleFinds, StaleNotifies, Time, Expires, WindowAdvances, Crash
<1> QED BY <1>1, <1>2, <1>3 DEF ExpiryCron, StaleCron

\* However many customers ask for the same worker at once, the worker never has
\* two bookings pending, accepted or in progress (create(), under the partial
\* unique index).
THEOREM OneActiveBooking == Spec => []OneActiveBookingPerWorker
<1>1. Init => OneActiveBookingPerWorker
  BY DEF Init, OneActiveBookingPerWorker, NoBooking, Active
<1>2. TypeOK /\ OneActiveBookingPerWorker /\ [Next]_vars => OneActiveBookingPerWorker'
  <2> SUFFICES ASSUME TypeOK, OneActiveBookingPerWorker, [Next]_vars
               PROVE  OneActiveBookingPerWorker'
    OBVIOUS
  <2>1. CASE Next
    BY <2>1, ServesKeepOneActive, RunsKeepOneActive DEF Next
  <2>2. CASE UNCHANGED vars
    BY <2>2, UntouchedBookings, ActiveShrinks DEF vars
  <2> QED BY <2>1, <2>2
<1> QED BY <1>1, <1>2, TypeCorrect, PTL DEF Spec

-----------------------------------------------------------------------------
(* Strikes and suspensions.                                                *)

\* The two invariants about sanctions; each is inductive with the types.
Sanctions == ThresholdSuspends /\ AccountAndProfileAgree

\* A step that leaves the accounts, the statuses of the profiles and the counts
\* of strikes alone keeps both.
LEMMA UnsanctionedSteps ==
  ASSUME Sanctions, UNCHANGED user,
         \A w \in Workers : /\ worker'[w].status = worker[w].status
                            /\ worker'[w].strikeCount = worker[w].strikeCount
  PROVE  Sanctions'
BY DEF Sanctions, ThresholdSuspends, AccountAndProfileAgree

\* A strike suspends at the threshold and lifts no suspension.
LEMMA StrikesKeepSanctions ==
  ASSUME TypeOK, Sanctions, UNCHANGED user,
         NEW b, NEW w, NEW reason, NEW issuedBy, ApplyStrike(b, w, reason, issuedBy)
  PROVE  Sanctions'
<1> SUFFICES ASSUME NEW v \in Workers
             PROVE  /\ worker'[v].strikeCount >= StrikeThreshold =>
                         worker'[v].status = "SUSPENDED"
                    /\ user[v] = "SUSPENDED" => worker'[v].status = "SUSPENDED"
  BY DEF Sanctions, ThresholdSuspends, AccountAndProfileAgree
<1>1. /\ worker[v] \in WorkerRow
      /\ worker[v].strikeCount >= StrikeThreshold => worker[v].status = "SUSPENDED"
      /\ user[v] = "SUSPENDED" => worker[v].status = "SUSPENDED"
  BY DEF TypeOK, Sanctions, ThresholdSuspends, AccountAndProfileAgree
<1>2. CASE v # w
  <2>1. worker'[v] = worker[v]
    BY <1>2 DEF ApplyStrike, TypeOK
  <2> QED BY <1>1, <2>1
<1>3. CASE v = w
  <2>1. worker'[v] = Struck(worker[v])
    BY <1>3 DEF ApplyStrike, TypeOK
  <2>2. CASE worker[v].strikeCount + 1 >= StrikeThreshold
    <3>1. Struck(worker[v]).status = "SUSPENDED"
      BY <1>1, <2>2 DEF Struck, WorkerRow
    <3> QED BY <2>1, <3>1
  <2>3. CASE ~(worker[v].strikeCount + 1 >= StrikeThreshold)
    <3>1. /\ Struck(worker[v]).status = worker[v].status
          /\ Struck(worker[v]).strikeCount = worker[v].strikeCount + 1
      BY <1>1, <2>3 DEF Struck, WorkerRow
    <3> QED BY <1>1, <2>1, <2>3, <3>1
  <2> QED BY <2>2, <2>3
<1> QED BY <1>2, <1>3

\* Both invariants are kept by every step of a request,
LEMMA ServesKeepSanctions ==
  ASSUME TypeOK, Sanctions, NEW s \in Slots, Arrival(s) \/ Serve(s)
  PROVE  Sanctions'
<1>1. CASE UNCHANGED Accounts
  BY <1>1, UnsanctionedSteps DEF Accounts
<1>2. CASE Complete(s)
  BY <1>2, UnsanctionedSteps DEF Complete, TypeOK, WorkerRow
<1>3. CASE GoOnline(s)
  BY <1>3, UnsanctionedSteps DEF GoOnline, TypeOK, WorkerRow
<1>4. CASE CancelByWorker(s)
  BY <1>4, StrikesKeepSanctions DEF CancelByWorker
<1>5. CASE ConfirmNoShow(s)
  BY <1>5, StrikesKeepSanctions DEF ConfirmNoShow
<1>6. CASE Reinstate(s)
  <2> DEFINE w == req[s].worker
  <2>1. /\ user' = [user EXCEPT ![w] = "ACTIVE"]
        /\ worker' = [worker EXCEPT ![w] = [@ EXCEPT !.status = "VERIFIED", !.strikeCount = 0]]
    BY <1>6 DEF Reinstate
  <2> SUFFICES ASSUME NEW v \in Workers
               PROVE  /\ worker'[v].strikeCount >= StrikeThreshold =>
                           worker'[v].status = "SUSPENDED"
                      /\ user'[v] = "SUSPENDED" => worker'[v].status = "SUSPENDED"
    BY DEF Sanctions, ThresholdSuspends, AccountAndProfileAgree
  <2>2. CASE v # w
    <3>1. worker'[v] = worker[v] /\ user'[v] = user[v]
      BY <2>1, <2>2 DEF TypeOK, Users
    <3> QED BY <3>1 DEF Sanctions, ThresholdSuspends, AccountAndProfileAgree
  <2>3. CASE v = w
    <3>1. user'[v] = "ACTIVE" /\ worker'[v].strikeCount = 0
      BY <2>1, <2>3 DEF TypeOK, Users, WorkerRow
    <3> QED BY <3>1, LimitsAssumption
  <2> QED BY <2>2, <2>3
<1> QED
  BY <1>1, <1>2, <1>3, <1>4, <1>5, <1>6
     DEF Arrival, Serve, CreateArrives, ActionArrives, GoOnlineArrives, ReinstateArrives,
         ResolveArrives, CreateReadsWorker, CreateChecksFree, CreateInserts, CreateRefused,
         ActionReads, ActionConflicts, Accept, Reject, Start, CancelByCustomer, Update,
         ReportNoShow, ReportCustomerNoShow, Report, Dismiss, ConfirmNoShowConflicts,
         ConfirmCustomerNoShow, Accounts

\* and by every step that no slot takes.
LEMMA RunsKeepSanctions ==
  ASSUME TypeOK, Sanctions,
         Direct \/ ExpiryCron \/ StaleCron \/ (\E b \in BookingIds : Time(b)) \/ Crash
  PROVE  Sanctions'
<1>1. CASE UNCHANGED Accounts
  BY <1>1, UnsanctionedSteps DEF Accounts
<1>2. ASSUME NEW w \in Workers, GoOffline(w) PROVE Sanctions'
  BY <1>2, UnsanctionedSteps DEF GoOffline, TypeOK, WorkerRow
<1>3. ASSUME NEW w \in Workers, NEW b \in BookingIds, NEW reason \in Reasons,
             StrikeWorker(w, b, reason) PROVE Sanctions'
  BY <1>3, StrikesKeepSanctions DEF StrikeWorker
<1>4. ASSUME NEW u \in Users, Suspend(u) PROVE Sanctions'
  <2> SUFFICES ASSUME NEW v \in Workers
               PROVE  /\ worker'[v].strikeCount >= StrikeThreshold =>
                           worker'[v].status = "SUSPENDED"
                      /\ user'[v] = "SUSPENDED" => worker'[v].status = "SUSPENDED"
    BY DEF Sanctions, ThresholdSuspends, AccountAndProfileAgree
  <2>1. CASE v = u
    BY <1>4, <2>1 DEF Suspend, TypeOK, WorkerRow
  <2>2. CASE v # u
    <3>1. worker'[v] = worker[v] /\ user'[v] = user[v]
      BY <1>4, <2>2 DEF Suspend, TypeOK, Users
    <3> QED BY <3>1 DEF Sanctions, ThresholdSuspends, AccountAndProfileAgree
  <2> QED BY <2>1, <2>2
<1>5. ASSUME NEW u \in Users, Unsuspend(u) PROVE Sanctions'
  BY <1>5 DEF Unsuspend, TypeOK, Users, Sanctions, ThresholdSuspends, AccountAndProfileAgree
<1> QED
  BY <1>1, <1>2, <1>3, <1>4, <1>5
     DEF Direct, ExpiryCron, StaleCron, Time, ExpiryFinds, ExpiryUpdates, ExpiryNotifies,
         StaleFinds, StaleUpdates, StaleNotifies, Expires, WindowAdvances, Crash, Accounts

\* In every reachable state both hold.
LEMMA AlwaysSanctioned == Spec => []Sanctions
<1>1. Init => Sanctions
  BY LimitsAssumption DEF Init, Sanctions, ThresholdSuspends, AccountAndProfileAgree, Users
<1>2. TypeOK /\ Sanctions /\ [Next]_vars => Sanctions'
  <2> SUFFICES ASSUME TypeOK, Sanctions, [Next]_vars PROVE Sanctions'
    OBVIOUS
  <2>1. CASE Next
    BY <2>1, ServesKeepSanctions, RunsKeepSanctions DEF Next
  <2>2. CASE UNCHANGED vars
    BY <2>2, UnsanctionedSteps DEF vars, Accounts
  <2> QED BY <2>1, <2>2
<1> QED BY <1>1, <1>2, TypeCorrect, PTL DEF Spec

\* A worker whose strikes reach the threshold is suspended, and stays so until
\* a reinstatement resets the count, whatever was in flight (applyStrike,
\* reinstateWorker).
THEOREM StruckOutAreSuspended == Spec => []ThresholdSuspends
BY AlwaysSanctioned, PTL DEF Sanctions

\* No worker keeps a working profile under a suspended account
\* (setUserSuspension, reinstateWorker).
THEOREM SuspendedAccountsDoNotWork == Spec => []AccountAndProfileAgree
BY AlwaysSanctioned, PTL DEF Sanctions
-----------------------------------------------------------------------------
(* What becomes of one booking, its report and its strike.                 *)

\* What the rows of a booking say about each other.
Sound(b) ==
  /\ ~Exists(b) => booking[b] = NoBooking /\ report[b] = NoReport /\ strike[b] = NoStrike
  /\ Exists(b) => booking[b].customer \in Customers /\ booking[b].worker \in Workers
  /\ booking[b].status \in Active => booking[b].cancelledBy = "null" /\ ~booking[b].completed
  /\ booking[b].status \in {"PENDING", "EXPIRED"} => ~booking[b].accepted
  /\ booking[b].status \in {"ACCEPTED", "IN_PROGRESS"} => booking[b].accepted
  /\ report[b].type # "null" => booking[b].accepted
  /\ booking[b].status = "NO_SHOW" => report[b].type = "WORKER"
  /\ booking[b].status = "CUSTOMER_NO_SHOW" => report[b].type = "CUSTOMER"
  /\ booking[b].status = "NO_SHOW" =>
       strike[b] = [worker |-> booking[b].worker, reason |-> "NO_SHOW", issuedBy |-> "ADMIN"]
  /\ booking[b].cancelledBy = "WORKER" <=> strike[b].issuedBy = "SYSTEM"
  /\ strike[b].issuedBy = "SYSTEM" => strike[b].worker = booking[b].worker

\* What a request in flight has read and may rely on, as it never changes.
Justified(r) ==
  /\ r.op = "create" => r.by \in Customers /\ r.worker \in Workers
  /\ r.op \in BookingOperations =>
       /\ r.booking \in BookingIds /\ Exists(r.booking)
       /\ \/ r.op \in ByCustomer /\ r.by = booking[r.booking].customer
          \/ r.op \in ByWorker /\ r.by = booking[r.booking].worker
  /\ r.op \in {"reportNoShow", "reportCustomerNoShow"} /\ r.step = "write" =>
       booking[r.booking].accepted
  /\ r.op \in {"confirm", "dismiss"} =>
       r.booking \in BookingIds /\ report[r.booking].type # "null"

Consistent ==
  /\ TypeOK
  /\ \A b \in BookingIds : Sound(b)
  /\ \A s \in Slots : Justified(req[s])

\* The steps of a booking: the row of its parties takes another status.
Moves(b, from, to, accepted, completed, cancelledBy) ==
  /\ booking[b].status \in from
  /\ booking'[b].status = to
  /\ booking'[b].customer = booking[b].customer /\ booking'[b].worker = booking[b].worker
  /\ booking'[b].accepted = accepted /\ booking'[b].completed = completed
  /\ booking'[b].cancelledBy = cancelledBy

Unmoved(b)  == booking'[b] = booking[b]
Untouched(b) == report'[b] = report[b] /\ strike'[b] = strike[b]

Created(b) ==
  /\ ~Exists(b)
  /\ \E c \in Customers, w \in Workers :
       booking'[b] = [NoBooking EXCEPT !.status = "PENDING", !.customer = c, !.worker = w]
  /\ Untouched(b)

\* What a handler or a job does to the row alone.
Answered(b) ==
  /\ \/ Moves(b, {"PENDING"}, "ACCEPTED", TRUE, booking[b].completed, booking[b].cancelledBy)
     \/ Moves(b, {"ACCEPTED"}, "IN_PROGRESS", booking[b].accepted, booking[b].completed,
              booking[b].cancelledBy)
     \/ Moves(b, {"IN_PROGRESS"}, "COMPLETED", booking[b].accepted, TRUE,
              booking[b].cancelledBy)
     \/ \E to \in {"REJECTED", "EXPIRED"} :
          Moves(b, {"PENDING"}, to, booking[b].accepted, booking[b].completed,
                booking[b].cancelledBy)
     \/ \E by \in {"CUSTOMER", "SYSTEM"} :
          Moves(b, {"PENDING", "ACCEPTED"}, "CANCELLED", booking[b].accepted,
                booking[b].completed, by)
  /\ Untouched(b)

\* The strike that comes with a step, on a booking that had none.
StruckFor(b, w, reason, issuedBy) ==
  /\ strike[b] = NoStrike
  /\ strike'[b] = [worker |-> w, reason |-> reason, issuedBy |-> issuedBy]

CancelledByWorker(b) ==
  /\ Moves(b, {"ACCEPTED", "IN_PROGRESS"}, "CANCELLED", booking[b].accepted,
           booking[b].completed, "WORKER")
  /\ StruckFor(b, booking[b].worker, "POST_ACCEPT_CANCELLATION", "SYSTEM")
  /\ report'[b] = report[b]

\* The two verdicts: they name the status no more than resolveNoShow does.
RuledNoShow(b) ==
  /\ report[b].type = "WORKER" /\ report'[b].type = "WORKER"
  /\ Moves(b, BookingStatus, "NO_SHOW", booking[b].accepted, booking[b].completed,
           booking[b].cancelledBy)
  /\ StruckFor(b, booking[b].worker, "NO_SHOW", "ADMIN")
RuledCustomerNoShow(b) ==
  /\ report[b].type = "CUSTOMER" /\ report'[b].type = "CUSTOMER"
  /\ Moves(b, BookingStatus, "CUSTOMER_NO_SHOW", booking[b].accepted, booking[b].completed,
           booking[b].cancelledBy)
  /\ strike'[b] = strike[b]

Reported(b) ==
  /\ booking[b].accepted /\ report[b] = NoReport
  /\ report'[b].type \in {"WORKER", "CUSTOMER"}
  /\ Unmoved(b) /\ strike'[b] = strike[b]
Dismissed(b) ==
  /\ report[b].type # "null" /\ report'[b].type = report[b].type
  /\ Unmoved(b) /\ strike'[b] = strike[b]
StruckByAdmin(b) ==
  /\ Exists(b)
  /\ \E w \in Workers, reason \in StrikeReason : StruckFor(b, w, reason, "ADMIN")
  /\ Unmoved(b) /\ report'[b] = report[b]

RowStep(b) ==
  \/ Unmoved(b) /\ Untouched(b)
  \/ Created(b) \/ Answered(b) \/ CancelledByWorker(b) \/ RuledNoShow(b)
  \/ RuledCustomerNoShow(b) \/ Reported(b) \/ Dismissed(b) \/ StruckByAdmin(b)

\* The rows stay sound,
LEMMA SoundStep ==
  ASSUME TypeOK, NEW b \in BookingIds, Sound(b), RowStep(b)
  PROVE  Sound(b)'
<1> USE DEF Unmoved, Untouched
<1>0. booking[b] \in BookingRow /\ report[b] \in ReportRow /\ strike[b] \in StrikeRow
  BY DEF TypeOK
<1>1. CASE Unmoved(b) /\ Untouched(b)
  BY <1>1 DEF Sound, Exists
<1>2. CASE Created(b)
  BY <1>2 DEF Created, Sound, Exists, NoBooking, NoReport, NoStrike, Active
<1>3. CASE Answered(b)
  BY <1>3 DEF Answered, Moves, Sound, Exists, Active
<1>4. CASE CancelledByWorker(b)
  BY <1>4 DEF CancelledByWorker, StruckFor, Moves, Sound, Exists, Active
<1>5. CASE RuledNoShow(b)
  BY <1>0, <1>5 DEF RuledNoShow, StruckFor, Moves, Sound, Exists, Active, BookingStatus, NoStrike
<1>6. CASE RuledCustomerNoShow(b)
  BY <1>0, <1>6 DEF RuledCustomerNoShow, Moves, Sound, Exists, Active, BookingStatus
<1>7. CASE Reported(b)
  BY <1>7 DEF Reported, Sound, Exists, NoReport, NoBooking
<1>8. CASE Dismissed(b)
  BY <1>8 DEF Dismissed, Sound, Exists, NoReport, NoBooking
<1>9. CASE StruckByAdmin(b)
  BY <1>9 DEF StruckByAdmin, StruckFor, Sound, Exists, NoStrike
<1> QED
  BY <1>1, <1>2, <1>3, <1>4, <1>5, <1>6, <1>7, <1>8, <1>9 DEF RowStep

\* and what they once said lasts.
LEMMA RowLasts ==
  ASSUME NEW b \in BookingIds, Sound(b), RowStep(b)
  PROVE  /\ Exists(b) => /\ booking'[b].status # "NONE"
                         /\ booking'[b].customer = booking[b].customer
                         /\ booking'[b].worker = booking[b].worker
         /\ booking[b].accepted => booking'[b].accepted
         /\ report[b].type # "null" => report'[b].type = report[b].type
         /\ strike[b] # NoStrike => strike'[b] = strike[b]
<1> USE DEF Unmoved, Untouched
<1>1. CASE Unmoved(b) /\ Untouched(b)
  BY <1>1 DEF Exists
<1>2. CASE Created(b)
  BY <1>2 DEF Created, Sound, NoBooking, NoReport, NoStrike, Exists
<1>3. CASE Answered(b)
  BY <1>3 DEF Answered, Moves
<1>4. CASE CancelledByWorker(b) \/ RuledNoShow(b) \/ RuledCustomerNoShow(b)
  BY <1>4 DEF CancelledByWorker, RuledNoShow, RuledCustomerNoShow, StruckFor, Moves
<1>5. CASE Reported(b)
  BY <1>5 DEF Reported, NoReport, Exists
<1>6. CASE Dismissed(b)
  BY <1>6 DEF Dismissed, Exists
<1>7. CASE StruckByAdmin(b)
  BY <1>7 DEF StruckByAdmin, StruckFor, Exists
<1> QED
  BY <1>1, <1>2, <1>3, <1>4, <1>5, <1>6, <1>7 DEF RowStep

\* Every step of a request is one of these for every booking.
LEMMA ServeRows ==
  ASSUME Consistent, NEW s \in Slots, Serve(s), NEW b \in BookingIds
  PROVE  RowStep(b)
<1> USE DEF Consistent
<1>0. /\ booking \in [BookingIds -> BookingRow] /\ booking[b] \in BookingRow
      /\ report \in [BookingIds -> ReportRow] /\ strike \in [BookingIds -> StrikeRow]
      /\ Sound(b) /\ Justified(req[s])
  BY DEF TypeOK
<1>1. CASE UNCHANGED <<booking, report, strike>>
  BY <1>1 DEF RowStep, Unmoved, Untouched
<1>2. CASE CreateInserts(s)
  <2>1. req[s].by \in Customers /\ req[s].worker \in Workers
    BY <1>0, <1>2 DEF CreateInserts, At, Justified
  <2>2. PICK n \in BookingIds :
          /\ ~Exists(n)
          /\ booking' = [booking EXCEPT ![n] =
               [NoBooking EXCEPT !.status = "PENDING", !.customer = req[s].by,
                                 !.worker = req[s].worker]]
    BY <1>2 DEF CreateInserts
  <2>3. Untouched(b)
    BY <1>2 DEF CreateInserts, Untouched
  <2>4. CASE n = b
    BY <1>0, <2>1, <2>2, <2>3, <2>4 DEF RowStep, Created
  <2>5. CASE n # b
    BY <1>0, <2>2, <2>3, <2>5 DEF RowStep, Unmoved
  <2> QED BY <2>4, <2>5
<1>3. CASE Accept(s)
  <2>1. Untouched(b) /\ (req[s].booking # b => Unmoved(b))
    BY <1>0, <1>3 DEF Accept, Untouched, Unmoved
  <2>2. ASSUME req[s].booking = b PROVE Answered(b)
    <3>1. booking[b].status = "PENDING"
      BY <1>3, <2>2 DEF Accept, At, Matches, Expected
    <3>2. booking'[b] = [booking[b] EXCEPT !.status = "ACCEPTED", !.accepted = TRUE]
      BY <1>0, <1>3, <2>2 DEF Accept
    <3> QED BY <1>0, <2>1, <3>1, <3>2 DEF Answered, Moves, BookingRow
  <2> QED BY <2>1, <2>2 DEF RowStep
<1>4. CASE Reject(s)
  <2>1. Untouched(b) /\ (req[s].booking # b => Unmoved(b))
    BY <1>0, <1>4 DEF Reject, Untouched, Unmoved
  <2>2. ASSUME req[s].booking = b PROVE Answered(b)
    <3>1. booking[b].status = "PENDING"
      BY <1>4, <2>2 DEF Reject, At, Matches, Expected
    <3>2. booking'[b] = [booking[b] EXCEPT !.status = "REJECTED"]
      BY <1>0, <1>4, <2>2 DEF Reject
    <3> QED BY <1>0, <2>1, <3>1, <3>2 DEF Answered, Moves, BookingRow
  <2> QED BY <2>1, <2>2 DEF RowStep
<1>5. CASE Start(s)
  <2>1. Untouched(b) /\ (req[s].booking # b => Unmoved(b))
    BY <1>0, <1>5 DEF Start, Untouched, Unmoved
  <2>2. ASSUME req[s].booking = b PROVE Answered(b)
    <3>1. booking[b].status = "ACCEPTED"
      BY <1>5, <2>2 DEF Start, At, Matches, Expected
    <3>2. booking'[b] = [booking[b] EXCEPT !.status = "IN_PROGRESS"]
      BY <1>0, <1>5, <2>2 DEF Start
    <3> QED BY <1>0, <2>1, <3>1, <3>2 DEF Answered, Moves, BookingRow
  <2> QED BY <2>1, <2>2 DEF RowStep
<1>6. CASE Complete(s)
  <2>1. Untouched(b) /\ (req[s].booking # b => Unmoved(b))
    BY <1>0, <1>6 DEF Complete, Untouched, Unmoved
  <2>2. ASSUME req[s].booking = b PROVE Answered(b)
    <3>1. booking[b].status = "IN_PROGRESS"
      BY <1>6, <2>2 DEF Complete, At, Matches, Expected
    <3>2. booking'[b] = [booking[b] EXCEPT !.status = "COMPLETED", !.completed = TRUE]
      BY <1>0, <1>6, <2>2 DEF Complete
    <3> QED BY <1>0, <2>1, <3>1, <3>2 DEF Answered, Moves, BookingRow
  <2> QED BY <2>1, <2>2 DEF RowStep
<1>7. CASE CancelByCustomer(s)
  <2>1. Untouched(b) /\ (req[s].booking # b => Unmoved(b))
    BY <1>0, <1>7 DEF CancelByCustomer, Untouched, Unmoved
  <2>2. ASSUME req[s].booking = b PROVE Answered(b)
    <3>1. booking[b].status \in {"PENDING", "ACCEPTED"}
      BY <1>7, <2>2 DEF CancelByCustomer, At, Matches, Expected
    <3>2. booking'[b] = [booking[b] EXCEPT !.status = "CANCELLED", !.cancelledBy = "CUSTOMER"]
      BY <1>0, <1>7, <2>2 DEF CancelByCustomer
    <3> QED BY <1>0, <2>1, <3>1, <3>2 DEF Answered, Moves, BookingRow
  <2> QED BY <2>1, <2>2 DEF RowStep
<1>8. CASE CancelByWorker(s)
  <2>1. report'[b] = report[b]
        /\ (req[s].booking # b => Unmoved(b) /\ strike'[b] = strike[b])
    BY <1>0, <1>8 DEF CancelByWorker, ApplyStrike, Unmoved
  <2>2. ASSUME req[s].booking = b PROVE CancelledByWorker(b)
    <3>1. req[s].by \in Workers /\ req[s].op = "cancel"
      BY <1>8 DEF CancelByWorker, At
    <3>2. booking[b].status \in {"ACCEPTED", "IN_PROGRESS"}
      BY <1>8, <2>2, <3>1, AccountsAssumption DEF CancelByWorker, Matches, Expected
    <3>3. booking[b].customer \in Customers
      BY <1>0, <3>2 DEF Sound, Exists
    <3>4. req[s].by = booking[b].worker
      BY <1>0, <2>2, <3>1, <3>3, AccountsAssumption DEF Justified, BookingOperations
    <3>5. booking'[b] = [booking[b] EXCEPT !.status = "CANCELLED", !.cancelledBy = "WORKER"]
      BY <1>0, <1>8, <2>2 DEF CancelByWorker
    <3>6. Moves(b, {"ACCEPTED", "IN_PROGRESS"}, "CANCELLED", booking[b].accepted,
                booking[b].completed, "WORKER")
      BY <1>0, <3>2, <3>5 DEF Moves, BookingRow
    <3>7. StruckFor(b, booking[b].worker, "POST_ACCEPT_CANCELLATION", "SYSTEM")
      BY <1>0, <1>8, <2>2, <3>4 DEF CancelByWorker, MayStrike, ApplyStrike, StruckFor
    <3> QED BY <2>1, <3>6, <3>7 DEF CancelledByWorker
  <2> QED BY <2>1, <2>2 DEF RowStep, Untouched
<1>9. ASSUME NEW op \in {"reportNoShow", "reportCustomerNoShow"},
             NEW type \in {"WORKER", "CUSTOMER"}, Report(s, op, type)
      PROVE  RowStep(b)
  <2>1. Unmoved(b) /\ strike'[b] = strike[b]
        /\ (req[s].booking # b => report'[b] = report[b])
    BY <1>0, <1>9 DEF Report, Unmoved
  <2>2. ASSUME req[s].booking = b PROVE Reported(b)
    <3>1. report[b] = NoReport /\ report'[b].type = type
      BY <1>0, <1>9, <2>2 DEF Report
    <3>2. booking[b].accepted
      BY <1>0, <1>9, <2>2 DEF Report, At, Justified
    <3> QED BY <2>1, <3>1, <3>2 DEF Reported
  <2> QED BY <2>1, <2>2 DEF RowStep, Untouched
<1>10. CASE Dismiss(s)
  <2>1. Unmoved(b) /\ strike'[b] = strike[b]
        /\ (req[s].booking # b => report'[b] = report[b])
    BY <1>0, <1>10 DEF Dismiss, Unmoved
  <2>2. ASSUME req[s].booking = b PROVE Dismissed(b)
    <3>1. report'[b].type = report[b].type
      BY <1>0, <1>10, <2>2 DEF Dismiss, ReportRow
    <3>2. report[b].type # "null"
      BY <1>0, <1>10, <2>2 DEF Dismiss, At, Justified
    <3> QED BY <2>1, <3>1, <3>2 DEF Dismissed
  <2> QED BY <2>1, <2>2 DEF RowStep, Untouched
<1>11. CASE ConfirmNoShow(s)
  <2>1. req[s].booking # b => Unmoved(b) /\ Untouched(b)
    BY <1>0, <1>11 DEF ConfirmNoShow, ApplyStrike, Unmoved, Untouched
  <2>2. ASSUME req[s].booking = b PROVE RuledNoShow(b)
    <3>1. report[b].type = "WORKER" /\ report'[b].type = "WORKER"
      BY <1>0, <1>11, <2>2 DEF ConfirmNoShow, ReportRow
    <3>2. booking[b].status \in BookingStatus
      BY <1>0, <3>1 DEF Sound, Exists, NoReport, BookingRow
    <3>3. booking'[b] = [booking[b] EXCEPT !.status = "NO_SHOW"]
      BY <1>0, <1>11, <2>2 DEF ConfirmNoShow
    <3>4. Moves(b, BookingStatus, "NO_SHOW", booking[b].accepted, booking[b].completed,
                booking[b].cancelledBy)
      BY <1>0, <3>2, <3>3 DEF Moves, BookingRow
    <3>5. StruckFor(b, booking[b].worker, "NO_SHOW", "ADMIN")
      BY <1>0, <1>11, <2>2 DEF ConfirmNoShow, MayStrike, ApplyStrike, StruckFor
    <3> QED BY <3>1, <3>4, <3>5 DEF RuledNoShow
  <2> QED BY <2>1, <2>2 DEF RowStep
<1>12. CASE ConfirmCustomerNoShow(s)
  <2>1. strike'[b] = strike[b] /\ (req[s].booking # b => Unmoved(b) /\ Untouched(b))
    BY <1>0, <1>12 DEF ConfirmCustomerNoShow, Unmoved, Untouched
  <2>2. ASSUME req[s].booking = b PROVE RuledCustomerNoShow(b)
    <3>1. report[b].type = "CUSTOMER" /\ report'[b].type = "CUSTOMER"
      BY <1>0, <1>12, <2>2 DEF ConfirmCustomerNoShow, ReportRow
    <3>2. booking[b].status \in BookingStatus
      BY <1>0, <3>1 DEF Sound, Exists, NoReport, BookingRow
    <3>3. booking'[b] = [booking[b] EXCEPT !.status = "CUSTOMER_NO_SHOW"]
      BY <1>0, <1>12, <2>2 DEF ConfirmCustomerNoShow
    <3>4. Moves(b, BookingStatus, "CUSTOMER_NO_SHOW", booking[b].accepted,
                booking[b].completed, booking[b].cancelledBy)
      BY <1>0, <3>2, <3>3 DEF Moves, BookingRow
    <3> QED BY <2>1, <3>1, <3>4 DEF RuledCustomerNoShow
  <2> QED BY <2>1, <2>2 DEF RowStep
<1>13. CASE \/ CreateReadsWorker(s) \/ CreateChecksFree(s) \/ CreateRefused(s)
            \/ ActionReads(s) \/ ActionConflicts(s) \/ Update(s) \/ GoOnline(s)
            \/ Reinstate(s) \/ ConfirmNoShowConflicts(s)
  BY <1>1, <1>13
     DEF CreateReadsWorker, CreateChecksFree, CreateRefused, ActionReads, ActionConflicts,
         Update, GoOnline, Reinstate, ConfirmNoShowConflicts
<1> QED
  BY <1>2, <1>3, <1>4, <1>5, <1>6, <1>7, <1>8, <1>9, <1>10, <1>11, <1>12, <1>13
     DEF Serve, ReportNoShow, ReportCustomerNoShow

\* And so is every other step.
LEMMA RowSteps ==
  ASSUME Consistent, [Next]_vars, NEW b \in BookingIds
  PROVE  RowStep(b)
<1> USE DEF Consistent
<1>0. /\ booking \in [BookingIds -> BookingRow] /\ booking[b] \in BookingRow
      /\ strike \in [BookingIds -> StrikeRow]
  BY DEF TypeOK
<1>1. CASE UNCHANGED <<booking, report, strike>>
  BY <1>1 DEF RowStep, Unmoved, Untouched
<1>2. ASSUME NEW s \in Slots, Arrival(s) PROVE RowStep(b)
  BY <1>1, <1>2 DEF Arrival, CreateArrives, ActionArrives, GoOnlineArrives,
     ReinstateArrives, ResolveArrives
<1>3. ASSUME NEW w \in Workers, NEW n \in BookingIds, NEW reason \in Reasons,
             StrikeWorker(w, n, reason)
      PROVE  RowStep(b)
  <2>1. Unmoved(b) /\ report'[b] = report[b] /\ (n # b => strike'[b] = strike[b])
    BY <1>0, <1>3 DEF StrikeWorker, ApplyStrike, Unmoved
  <2>2. ASSUME n = b PROVE StruckByAdmin(b)
    <3>1. reason \in StrikeReason
      BY OperationsAssumption DEF StrikeReason
    <3>2. Exists(b) /\ StruckFor(b, w, reason, "ADMIN")
      BY <1>0, <1>3, <2>2 DEF StrikeWorker, MayStrike, ApplyStrike, StruckFor
    <3> QED BY <2>1, <3>1, <3>2 DEF StruckByAdmin
  <2> QED BY <2>1, <2>2 DEF RowStep, Untouched
<1>4. CASE ExpiryUpdates
  <2>1. /\ Untouched(b)
        /\ booking'[b] = IF b \in expiryJob.found /\ booking[b].status = "PENDING"
                         THEN [booking[b] EXCEPT !.status = "EXPIRED"] ELSE booking[b]
    BY <1>4 DEF ExpiryUpdates, Untouched
  <2>2. CASE b \in expiryJob.found /\ booking[b].status = "PENDING"
    BY <1>0, <2>1, <2>2 DEF RowStep, Answered, Moves, BookingRow
  <2>3. CASE ~(b \in expiryJob.found /\ booking[b].status = "PENDING")
    BY <2>1, <2>3 DEF RowStep, Unmoved
  <2> QED BY <2>2, <2>3
<1>5. CASE StaleUpdates
  <2>1. /\ Untouched(b)
        /\ booking'[b] = IF b \in staleJob.found /\ booking[b].status = "ACCEPTED"
                         THEN [booking[b] EXCEPT !.status = "CANCELLED", !.cancelledBy = "SYSTEM"]
                         ELSE booking[b]
    BY <1>5 DEF StaleUpdates, Untouched
  <2>2. CASE b \in staleJob.found /\ booking[b].status = "ACCEPTED"
    BY <1>0, <2>1, <2>2 DEF RowStep, Answered, Moves, BookingRow
  <2>3. CASE ~(b \in staleJob.found /\ booking[b].status = "ACCEPTED")
    BY <2>1, <2>3 DEF RowStep, Unmoved
  <2> QED BY <2>2, <2>3
<1>6. CASE \/ \E w \in Workers : GoOffline(w)
           \/ \E u \in Users : Suspend(u) \/ Unsuspend(u)
           \/ ExpiryFinds \/ ExpiryNotifies \/ StaleFinds \/ StaleNotifies
           \/ \E n \in BookingIds : Time(n)
           \/ Crash \/ UNCHANGED vars
  BY <1>1, <1>6 DEF GoOffline, Suspend, Unsuspend, ExpiryFinds, ExpiryNotifies, StaleFinds,
     StaleNotifies, Time, Expires, WindowAdvances, Crash, vars
<1> QED
  BY <1>2, <1>3, <1>4, <1>5, <1>6, ServeRows DEF Next, Direct, ExpiryCron, StaleCron

\* A request that arrives or goes on has the grounds it relies on.
LEMMA RequestsJustified ==
  ASSUME Consistent, [Next]_vars, NEW t \in Slots
  PROVE  Justified(req'[t])
<1> USE DEF Consistent
<1>0. req \in [Slots -> Request] /\ req[t] \in Request /\ Justified(req[t])
  BY DEF TypeOK
<1>1. Justified(Idle)
  BY DEF Justified, Idle, BookingOperations
<1>2. CASE req'[t] = req[t] \/ req'[t] = Idle
  BY <1>0, <1>1, <1>2
<1>3. ASSUME NEW s \in Slots, Arrival(s) PROVE Justified(req'[t])
  <2>1. ASSUME NEW op, NEW by, NEW w, NEW b, NEW step, Arrive(s, op, by, w, b, step)
        PROVE  \/ req'[t] = req[t]
               \/ req'[t] = [op |-> op, by |-> by, worker |-> w, booking |-> b, step |-> step]
    BY <1>0, <2>1 DEF Arrive
  <2>2. ASSUME NEW c \in Customers, NEW w \in Workers, CreateArrives(s, c, w)
        PROVE  Justified(req'[t])
    <3>1. \/ req'[t] = req[t]
          \/ req'[t] = [op |-> "create", by |-> c, worker |-> w, booking |-> NoOne, step |-> "read"]
      BY <2>1, <2>2 DEF CreateArrives
    <3> QED BY <1>0, <3>1 DEF Justified, BookingOperations
  <2>3. ASSUME NEW op \in BookingOperations, NEW by \in Users, NEW b \in BookingIds,
               ActionArrives(s, op, by, b)
        PROVE  Justified(req'[t])
    <3>1. Exists(b)
      <4>1. booking[b].customer # NoOne \/ booking[b].worker # NoOne
        BY <2>3 DEF ActionArrives
      <4>2. Exists(b) \/ booking[b] = NoBooking
        BY DEF Sound
      <4>3. NoBooking.customer = NoOne /\ NoBooking.worker = NoOne
        BY DEF NoBooking
      <4> QED BY <4>1, <4>2, <4>3
    <3>2. op # "create" /\ op \notin {"confirm", "dismiss"}
      BY DEF BookingOperations
    <3>3. CASE req'[t] = req[t]
      BY <1>0, <3>3
    <3>4. CASE req'[t] = [op |-> op, by |-> by, worker |-> NoOne, booking |-> b, step |-> "read"]
      BY <2>3, <3>1, <3>2, <3>4 DEF ActionArrives, Justified
    <3> QED BY <2>1, <2>3, <3>3, <3>4 DEF ActionArrives
  <2>4. ASSUME NEW w \in Workers, GoOnlineArrives(s, w) \/ ReinstateArrives(s, w)
        PROVE  Justified(req'[t])
    <3>1. \/ req'[t] = req[t]
          \/ req'[t] = [op |-> "goOnline", by |-> w, worker |-> NoOne, booking |-> NoOne, step |-> "write"]
          \/ req'[t] = [op |-> "reinstate", by |-> NoOne, worker |-> w, booking |-> NoOne, step |-> "write"]
      BY <2>1, <2>4 DEF GoOnlineArrives, ReinstateArrives
    <3> QED BY <1>0, <3>1 DEF Justified, BookingOperations
  <2>5. ASSUME NEW op \in {"confirm", "dismiss"}, NEW b \in BookingIds, ResolveArrives(s, op, b)
        PROVE  Justified(req'[t])
    <3>1. \/ req'[t] = req[t]
          \/ req'[t] = [op |-> op, by |-> NoOne, worker |-> NoOne, booking |-> b, step |-> "write"]
      BY <2>1, <2>5 DEF ResolveArrives
    <3>2. report[b].type # "null"
      BY <2>5 DEF ResolveArrives
    <3> QED BY <1>0, <3>1, <3>2 DEF Justified, BookingOperations
  <2> QED BY <1>3, <2>2, <2>3, <2>4, <2>5 DEF Arrival
<1>4. ASSUME NEW s \in Slots, Serve(s) PROVE Justified(req'[t])
  <2>1. ASSUME Done(s) PROVE Justified(req'[t])
    BY <1>0, <1>2, <2>1 DEF Done
  <2>2. ASSUME NEW step, Goto(s, step)
        PROVE  \/ req'[t] = req[t]
               \/ t = s /\ req'[t] = [req[t] EXCEPT !.step = step]
    BY <1>0, <2>2 DEF Goto
  <2>3. ASSUME CreateReadsWorker(s) \/ CreateChecksFree(s), NEW step, Goto(s, step)
        PROVE  Justified(req'[t])
    <3>1. req[s].op = "create"
      BY <2>3 DEF CreateReadsWorker, CreateChecksFree, At
    <3>2. CASE req'[t] = req[t]
      BY <1>0, <3>2
    <3>3. CASE t = s /\ req'[t] = [req[t] EXCEPT !.step = step]
      <4>1. /\ req'[t].op = "create" /\ req'[t].by = req[t].by
            /\ req'[t].worker = req[t].worker
        BY <1>0, <3>1, <3>3 DEF Request
      <4> QED BY <1>0, <3>1, <3>3, <4>1 DEF Justified, BookingOperations
    <3> QED BY <2>2, <2>3, <3>2, <3>3
  <2>4. ASSUME ActionReads(s), Goto(s, "write") PROVE Justified(req'[t])
    <3>1. CASE req'[t] = req[t]
      BY <1>0, <3>1
    <3>2. CASE t = s /\ req'[t] = [req[t] EXCEPT !.step = "write"]
      <4>1. /\ req'[t].op = req[t].op /\ req'[t].by = req[t].by
            /\ req'[t].worker = req[t].worker /\ req'[t].booking = req[t].booking
        BY <1>0, <3>2 DEF Request
      <4>2. req[t].op \in {"reportNoShow", "reportCustomerNoShow"} =>
              booking[req[t].booking].accepted
        <5>1. req'[t].op = "idle" \/ ~Done(s)
          BY <1>0, <3>2 DEF Done, Idle
        <5>2. req[t].op \in BookingOperations /\ req[t].booking \in BookingIds
          BY <1>0, <2>4, <3>2 DEF ActionReads, Justified
        <5>3. req[t].op \in {"reportNoShow", "reportCustomerNoShow"} /\ ~Done(s) =>
                booking[req[t].booking].status \in {"ACCEPTED", "IN_PROGRESS"}
          BY <2>4, <3>2 DEF ActionReads, Expected
        <5>4. booking[req[t].booking].status \in {"ACCEPTED", "IN_PROGRESS"} =>
                booking[req[t].booking].accepted
          BY <5>2 DEF Sound
        <5> QED BY <4>1, <5>1, <5>3, <5>4
      <4> QED BY <1>0, <4>1, <4>2 DEF Justified
    <3> QED BY <2>2, <2>4, <3>1, <3>2
  <2>5. CASE CreateReadsWorker(s) \/ CreateChecksFree(s) \/ ActionReads(s)
    BY <2>1, <2>3, <2>4, <2>5 DEF CreateReadsWorker, CreateChecksFree, ActionReads
  <2>6. CASE \/ CreateInserts(s) \/ CreateRefused(s) \/ ActionConflicts(s)
             \/ Accept(s) \/ Reject(s) \/ Start(s) \/ Complete(s)
             \/ CancelByCustomer(s) \/ CancelByWorker(s) \/ Update(s)
             \/ ReportNoShow(s) \/ ReportCustomerNoShow(s) \/ GoOnline(s) \/ Reinstate(s)
             \/ Dismiss(s) \/ ConfirmNoShow(s) \/ ConfirmNoShowConflicts(s)
             \/ ConfirmCustomerNoShow(s)
    BY <2>1, <2>6
       DEF CreateInserts, CreateRefused, ActionConflicts, Accept, Reject, Start, Complete,
           CancelByCustomer, CancelByWorker, Update, ReportNoShow, ReportCustomerNoShow,
           Report, GoOnline, Reinstate, Dismiss, ConfirmNoShow, ConfirmNoShowConflicts,
           ConfirmCustomerNoShow
  <2> QED BY <1>4, <2>5, <2>6 DEF Serve
<1>5. CASE \/ Direct \/ ExpiryCron \/ StaleCron \/ (\E b \in BookingIds : Time(b))
           \/ UNCHANGED vars
  BY <1>2, <1>5
     DEF Direct, GoOffline, StrikeWorker, Suspend, Unsuspend, ExpiryCron, ExpiryFinds,
         ExpiryUpdates, ExpiryNotifies, StaleCron, StaleFinds, StaleUpdates, StaleNotifies,
         Time, Expires, WindowAdvances, vars
<1>6. CASE Crash
  BY <1>2, <1>6 DEF Crash
<1> QED BY <1>3, <1>4, <1>5, <1>6 DEF Next

\* The tables and the requests in flight stay consistent.
LEMMA AlwaysConsistent == Spec => []Consistent
<1>1. Init => Consistent
  <2> SUFFICES ASSUME Init PROVE Consistent
    OBVIOUS
  <2>1. TypeOK
    BY TypedInit DEF Typed
  <2>2. \A b \in BookingIds : Sound(b)
    BY DEF Init, Sound, Exists, NoBooking, NoReport, NoStrike, Active
  <2>3. \A s \in Slots : Justified(req[s])
    BY DEF Init, Idle, Justified, BookingOperations
  <2> QED BY <2>1, <2>2, <2>3 DEF Consistent
<1>2. Consistent /\ TypeOK' /\ [Next]_vars => Consistent'
  <2> SUFFICES ASSUME Consistent, TypeOK', [Next]_vars PROVE Consistent'
    OBVIOUS
  <2>1. ASSUME NEW b \in BookingIds PROVE Sound(b)'
    BY <2>1, RowSteps, SoundStep DEF Consistent
  <2>2. ASSUME NEW b \in BookingIds
        PROVE  /\ Exists(b) => /\ booking'[b].status # "NONE"
                               /\ booking'[b].customer = booking[b].customer
                               /\ booking'[b].worker = booking[b].worker
               /\ booking[b].accepted => booking'[b].accepted
               /\ report[b].type # "null" => report'[b].type = report[b].type
    BY <2>2, RowSteps, RowLasts DEF Consistent
  <2>3. ASSUME NEW t \in Slots PROVE Justified(req[t])'
    <3>1. Justified(req'[t])
      BY RequestsJustified
    <3>2. /\ req'[t].op = "create" => req'[t].by \in Customers /\ req'[t].worker \in Workers
          /\ req'[t].op \in {"confirm", "dismiss"} =>
               req'[t].booking \in BookingIds /\ report'[req'[t].booking].type # "null"
      BY <2>2, <3>1 DEF Justified
    <3>3. req'[t].op \in BookingOperations =>
            /\ req'[t].booking \in BookingIds /\ booking'[req'[t].booking].status # "NONE"
            /\ \/ req'[t].op \in ByCustomer /\ req'[t].by = booking'[req'[t].booking].customer
               \/ req'[t].op \in ByWorker /\ req'[t].by = booking'[req'[t].booking].worker
      BY <2>2, <3>1 DEF Justified
    <3>4. req'[t].op \in {"reportNoShow", "reportCustomerNoShow"} /\ req'[t].step = "write" =>
            booking'[req'[t].booking].accepted
      BY <2>2, <3>1 DEF Justified, BookingOperations
    <3> QED BY <3>2, <3>3, <3>4 DEF Justified, Exists
  <2> QED BY <2>1, <2>3 DEF Consistent
<1> QED BY <1>1, <1>2, TypeCorrect, PTL DEF Spec

\* A worker cancelled a booking exactly when the system struck that worker for it,
\* whatever requests, jobs and verdicts cross (cancel(), applyStrike).
THEOREM StrikesMatchCancellations == Spec => []StruckIffWorkerCancelled
<1>1. Consistent => StruckIffWorkerCancelled
  BY DEF Consistent, Sound, StruckIffWorkerCancelled
<1> QED BY <1>1, AlwaysConsistent, PTL

\* A booking closed by a verdict was accepted before, and the one against the worker
\* carries its strike and its report (resolveNoShow, resolveCustomerNoShow).
THEOREM VerdictsHaveGround == Spec => []VerdictHasGround
<1>1. Consistent => VerdictHasGround
  <2> SUFFICES ASSUME Consistent, NEW b \in BookingIds,
                      booking[b].status \in {"NO_SHOW", "CUSTOMER_NO_SHOW"}
               PROVE  /\ booking[b].accepted
                      /\ booking[b].status = "NO_SHOW" =>
                           /\ strike[b] = [worker |-> booking[b].worker,
                                           reason |-> "NO_SHOW", issuedBy |-> "ADMIN"]
                           /\ report[b].type = "WORKER"
    BY DEF VerdictHasGround
  <2> QED BY DEF Consistent, Sound
<1> QED BY <1>1, AlwaysConsistent, PTL

\* What an administrator may rule on once it is there.
EvidenceKept ==
  \A b \in BookingIds :
    /\ Exists(b) => /\ booking'[b].customer = booking[b].customer
                    /\ booking'[b].worker = booking[b].worker
    /\ booking[b].accepted => booking'[b].accepted
    /\ report[b].type # "null" => report'[b].type = report[b].type
    /\ strike[b] # NoStrike => strike'[b] = strike[b]

\* No step changes the parties of a booking, takes an acceptance back, turns a report into
\* one of the other kind, or overwrites a strike - a verdict written long after it was read
\* finds the case it was read for (resolveNoShow, applyStrike).
THEOREM EvidenceLasts == Spec => [][EvidenceKept]_vars
<1>1. Consistent /\ [Next]_vars => EvidenceKept
  BY RowSteps, RowLasts DEF Consistent, EvidenceKept
<1> QED BY <1>1, AlwaysConsistent, PTL DEF Spec

\* The jobs and what they tell.  An expired booking was never accepted, so no report
\* and no verdict reopens it.
LEMMA ExpiredForGood ==
  ASSUME Consistent, [Next]_vars, NEW b \in BookingIds, booking[b].status = "EXPIRED"
  PROVE  booking'[b].status = "EXPIRED"
<1>1. RowStep(b) /\ Sound(b)
  BY RowSteps DEF Consistent
<1>2. Exists(b) /\ ~booking[b].accepted
  BY <1>1 DEF Sound, Exists
<1>3. report[b].type = "null"
  BY <1>1, <1>2 DEF Sound
<1> QED
  BY <1>1, <1>2, <1>3
     DEF RowStep, Unmoved, Created, Answered, Moves, CancelledByWorker, RuledNoShow,
         RuledCustomerNoShow, Reported, Dismissed, StruckByAdmin

\* A customer is told that a request expired only if it did, and it stays so
\* (the re-query of expiredPendingBookings).
THEOREM NoticesTruthful == Spec => []ExpiryNoticeTruthful
<1> DEFINE Told == \A b \in BookingIds : <<b, "expired">> \in notices => booking[b].status = "EXPIRED"
<1>1. Init => Told
  BY DEF Init
<1>2. Consistent /\ Told /\ [Next]_vars => Told'
  <2> SUFFICES ASSUME Consistent, Told, [Next]_vars, NEW b \in BookingIds,
                      <<b, "expired">> \in notices'
               PROVE  booking'[b].status = "EXPIRED"
    OBVIOUS
  <2>1. CASE <<b, "expired">> \in notices
    BY <2>1, ExpiredForGood
  <2>2. CASE ExpiryNotifies
    <3>1. <<b, "expired">> \in notices \/ booking[b].status = "EXPIRED"
      BY <2>2 DEF ExpiryNotifies, ConfirmedExpired
    <3> QED BY <2>1, <3>1, ExpiredForGood
  <2>3. CASE StaleNotifies
    BY <2>1, <2>3 DEF StaleNotifies
  <2>4. CASE notices' = notices
    BY <2>1, <2>4
  <2>5. ASSUME NEW s \in Slots, Arrival(s) \/ Serve(s) PROVE notices' = notices
    BY <2>5
       DEF Arrival, CreateArrives, ActionArrives, GoOnlineArrives, ReinstateArrives,
           ResolveArrives, Serve, CreateReadsWorker, CreateChecksFree, CreateInserts,
           CreateRefused, ActionReads, ActionConflicts, Accept, Reject, Start, Complete,
           CancelByCustomer, CancelByWorker, Update, ReportNoShow, ReportCustomerNoShow,
           Report, GoOnline, Reinstate, Dismiss, ConfirmNoShow, ConfirmNoShowConflicts,
           ConfirmCustomerNoShow, Jobs
  <2>6. CASE \/ Direct \/ ExpiryFinds \/ ExpiryUpdates \/ StaleFinds \/ StaleUpdates
             \/ (\E n \in BookingIds : Time(n)) \/ Crash \/ UNCHANGED vars
    BY <2>4, <2>6
       DEF Direct, GoOffline, StrikeWorker, Suspend, Unsuspend, ExpiryFinds, ExpiryUpdates,
           StaleFinds, StaleUpdates, Time, Expires, WindowAdvances, Crash, Jobs, vars
  <2> QED BY <2>2, <2>3, <2>4, <2>5, <2>6 DEF Next, ExpiryCron, StaleCron
<1>3. Consistent /\ Told => ExpiryNoticeTruthful
  BY DEF Consistent, Sound, ExpiryNoticeTruthful
<1> QED BY <1>1, <1>2, <1>3, AlwaysConsistent, PTL DEF Spec

-----------------------------------------------------------------------------
(* The life cycle that is promised.                                        *)

\* A step moves these bookings to a status, and reveals nothing new.
LEMMA MovesTogether ==
  ASSUME NEW B \in SUBSET BookingIds, NEW from, NEW to,
         \A b \in B : /\ booking[b].status \in from /\ booking'[b].status = to
                      /\ booking'[b].accepted = booking[b].accepted,
         \A b \in BookingIds \ B : Unmoved(b)
  PROVE  Lifecycle!Move(B, from, to)
         /\ UNCHANGED [b \in BookingIds |-> booking[b].accepted]
BY DEF Lifecycle!Move, Unmoved

\* A step of one booking is a step of its life cycle.
LEMMA OneBookingFollows ==
  ASSUME Consistent, NEW n \in BookingIds, RowStep(n),
         \A b \in BookingIds \ {n} : Unmoved(b)
  PROVE  [Lifecycle!Next]_(Lifecycle!vars)
<1>0. Sound(n) /\ booking[n] \in BookingRow
  BY DEF Consistent, TypeOK
<1>1. booking'[n].accepted = booking[n].accepted =>
        UNCHANGED [b \in BookingIds |-> booking[b].accepted]
  BY DEF Unmoved
<1>2. CASE /\ booking'[n].status = booking[n].status
           /\ booking'[n].accepted = booking[n].accepted
  BY <1>2 DEF Unmoved, Lifecycle!vars
<1>3. CASE Created(n)
  <2>1. /\ booking[n].status = "NONE" /\ booking'[n].status = "PENDING"
        /\ booking[n].accepted = FALSE /\ booking'[n].accepted = FALSE
    BY <1>0, <1>3 DEF Created, Sound, Exists, NoBooking
  <2>2. Lifecycle!Move({n}, {"NONE"}, "PENDING")
    BY <2>1 DEF Unmoved, Lifecycle!Move
  <2>3. Lifecycle!Request(n)
    BY <1>1, <2>1, <2>2 DEF Lifecycle!Request
  <2> QED BY <2>3 DEF Lifecycle!Next
<1>4. CASE Answered(n)
  <2>1. CASE Moves(n, {"PENDING"}, "ACCEPTED", TRUE, booking[n].completed, booking[n].cancelledBy)
    <3>1. Lifecycle!Move({n}, {"PENDING"}, "ACCEPTED")
      BY <2>1 DEF Moves, Unmoved, Lifecycle!Move
    <3>2. [b \in BookingIds |-> booking'[b].accepted] =
            [[b \in BookingIds |-> booking[b].accepted] EXCEPT ![n] = TRUE]
      BY <2>1 DEF Moves, Unmoved
    <3>3. Lifecycle!Agree(n)
      BY <3>1, <3>2 DEF Lifecycle!Agree
    <3> QED BY <3>3 DEF Lifecycle!Next
  <2>2. CASE Moves(n, {"ACCEPTED"}, "IN_PROGRESS", booking[n].accepted, booking[n].completed,
                   booking[n].cancelledBy)
    <3>1. Lifecycle!Move({n}, {"ACCEPTED"}, "IN_PROGRESS")
      BY <2>2 DEF Moves, Unmoved, Lifecycle!Move
    <3>2. Lifecycle!Begin(n)
      BY <1>1, <2>2, <3>1 DEF Lifecycle!Begin, Moves
    <3> QED BY <3>2 DEF Lifecycle!Next
  <2>3. CASE Moves(n, {"IN_PROGRESS"}, "COMPLETED", booking[n].accepted, TRUE,
                   booking[n].cancelledBy)
    <3>1. Lifecycle!Move({n}, {"IN_PROGRESS"}, "COMPLETED")
      BY <2>3 DEF Moves, Unmoved, Lifecycle!Move
    <3>2. Lifecycle!Finish(n)
      BY <1>1, <2>3, <3>1 DEF Lifecycle!Finish, Moves
    <3> QED BY <3>2 DEF Lifecycle!Next
  <2>4. ASSUME NEW to \in {"REJECTED", "EXPIRED"},
               Moves(n, {"PENDING"}, to, booking[n].accepted, booking[n].completed,
                     booking[n].cancelledBy)
        PROVE  [Lifecycle!Next]_(Lifecycle!vars)
    <3>1. CASE to = "REJECTED"
      <4>1. Lifecycle!Move({n}, {"PENDING"}, "REJECTED")
        BY <2>4, <3>1 DEF Moves, Unmoved, Lifecycle!Move
      <4>2. Lifecycle!Decline(n)
        BY <1>1, <2>4, <4>1 DEF Lifecycle!Decline, Moves
      <4> QED BY <4>2 DEF Lifecycle!Next
    <3>2. CASE to = "EXPIRED"
      <4>1. Lifecycle!Move({n}, {"PENDING"}, "EXPIRED")
        BY <2>4, <3>2 DEF Moves, Unmoved, Lifecycle!Move
      <4>2. Lifecycle!Lapse({n})
        BY <1>1, <2>4, <4>1 DEF Lifecycle!Lapse, Moves
      <4> QED BY <4>2 DEF Lifecycle!Next
    <3> QED BY <3>1, <3>2
  <2>5. ASSUME NEW by \in {"CUSTOMER", "SYSTEM"},
               Moves(n, {"PENDING", "ACCEPTED"}, "CANCELLED", booking[n].accepted,
                     booking[n].completed, by)
        PROVE  [Lifecycle!Next]_(Lifecycle!vars)
    <3>1. Lifecycle!Move({n}, {"PENDING", "ACCEPTED", "IN_PROGRESS"}, "CANCELLED")
      BY <2>5 DEF Moves, Unmoved, Lifecycle!Move
    <3>2. Lifecycle!Withdraw(n)
      BY <1>1, <2>5, <3>1 DEF Lifecycle!Withdraw, Moves
    <3> QED BY <3>2 DEF Lifecycle!Next
  <2> QED BY <1>4, <2>1, <2>2, <2>3, <2>4, <2>5 DEF Answered
<1>5. CASE CancelledByWorker(n)
  <2>1. Lifecycle!Move({n}, {"PENDING", "ACCEPTED", "IN_PROGRESS"}, "CANCELLED")
    BY <1>5 DEF CancelledByWorker, Moves, Unmoved, Lifecycle!Move
  <2>2. Lifecycle!Withdraw(n)
    BY <1>1, <1>5, <2>1 DEF Lifecycle!Withdraw, CancelledByWorker, Moves
  <2> QED BY <2>2 DEF Lifecycle!Next
<1>6. ASSUME NEW to \in {"NO_SHOW", "CUSTOMER_NO_SHOW"}, booking'[n].status = to,
             booking'[n].accepted = booking[n].accepted, report[n].type # "null",
             booking[n].status \notin {"NO_SHOW", "CUSTOMER_NO_SHOW"}
      PROVE  Lifecycle!Next
  <2>1. booking[n].accepted
    BY <1>0, <1>6 DEF Sound
  <2>2. Lifecycle!Move({n}, {booking[n].status}, to)
    BY <1>6 DEF Unmoved, Lifecycle!Move
  <2>3. Lifecycle!Verdict(n, to)
    BY <1>1, <1>6, <2>1, <2>2 DEF Lifecycle!Verdict, Lifecycle!Closing
  <2> QED BY <2>3 DEF Lifecycle!Next, Lifecycle!Closing
<1>7. CASE RuledNoShow(n)
  \* A booking closed before carries a strike, or a report of the other kind.
  <2>1. booking[n].status # "NO_SHOW"
    BY <1>0, <1>7 DEF RuledNoShow, StruckFor, Sound, NoStrike
  <2>2. booking[n].status # "CUSTOMER_NO_SHOW"
    BY <1>0, <1>7 DEF RuledNoShow, Sound
  <2> QED BY <1>6, <1>7, <2>1, <2>2 DEF RuledNoShow, Moves
<1>8. CASE RuledCustomerNoShow(n)
  \* The second of two verdicts writes what is there.
  <2>1. booking[n].status # "NO_SHOW"
    BY <1>0, <1>8 DEF RuledCustomerNoShow, Sound
  <2> QED BY <1>2, <1>6, <1>8, <2>1 DEF RuledCustomerNoShow, Moves
<1> QED
  BY <1>2, <1>3, <1>4, <1>5, <1>7, <1>8
     DEF RowStep, Reported, Dismissed, StruckByAdmin, Unmoved

\* A request touches no booking but its own or the one it creates.
LEMMA OneAtATime ==
  ASSUME TypeOK, NEW s \in Slots, Serve(s)
  PROVE  \/ UNCHANGED booking
         \/ \E n \in BookingIds : \A b \in BookingIds \ {n} : Unmoved(b)
<1>0. booking \in [BookingIds -> BookingRow]
  BY DEF TypeOK
<1>1. CASE CreateInserts(s)
  BY <1>0, <1>1 DEF CreateInserts, Unmoved
<1>2. ASSUME NEW row, booking' = [booking EXCEPT ![req[s].booking] = row]
      PROVE  \/ UNCHANGED booking
             \/ \E n \in BookingIds : \A b \in BookingIds \ {n} : Unmoved(b)
  <2>1. CASE req[s].booking \in BookingIds
    BY <1>0, <1>2, <2>1 DEF Unmoved
  <2>2. CASE req[s].booking \notin BookingIds
    BY <1>0, <1>2, <2>2
  <2> QED BY <2>1, <2>2
<1>3. CASE \/ Accept(s) \/ Reject(s) \/ Start(s) \/ Complete(s)
           \/ CancelByCustomer(s) \/ CancelByWorker(s) \/ ConfirmNoShow(s)
           \/ ConfirmCustomerNoShow(s)
  BY <1>2, <1>3
     DEF Accept, Reject, Start, Complete, CancelByCustomer, CancelByWorker, ConfirmNoShow,
         ConfirmCustomerNoShow
<1> QED
  BY <1>1, <1>3
     DEF Serve, CreateReadsWorker, CreateChecksFree, CreateRefused, ActionReads,
         ActionConflicts, Update, ReportNoShow, ReportCustomerNoShow, Report, GoOnline,
         Reinstate, Dismiss, ConfirmNoShowConflicts

\* Every step is a step of the life cycle, of one booking or of what a job found, or
\* leaves it alone.
LEMMA LifecycleStep ==
  ASSUME Consistent, [Next]_vars
  PROVE  [Lifecycle!Next]_(Lifecycle!vars)
<1>0. \A b \in BookingIds : RowStep(b)
  BY RowSteps
<1>b. booking \in [BookingIds -> BookingRow]
  BY DEF Consistent, TypeOK
<1>1. CASE UNCHANGED booking
  BY <1>1 DEF Lifecycle!vars
<1>2. ASSUME NEW s \in Slots, Serve(s) PROVE [Lifecycle!Next]_(Lifecycle!vars)
  BY <1>0, <1>1, <1>2, OneAtATime, OneBookingFollows DEF Consistent
<1>3. CASE ExpiryUpdates
  <2>0. PICK B \in SUBSET BookingIds :
          B = {b \in BookingIds : b \in expiryJob.found /\ booking[b].status = "PENDING"}
    OBVIOUS
  <2>1. \A b \in B : /\ booking[b].status \in {"PENDING"} /\ booking'[b].status = "EXPIRED"
                     /\ booking'[b].accepted = booking[b].accepted
    BY <1>3, <1>b, <2>0 DEF ExpiryUpdates, BookingRow
  <2>2. \A b \in BookingIds \ B : Unmoved(b)
    BY <1>3, <2>0 DEF ExpiryUpdates, Unmoved
  <2>3. Lifecycle!Move(B, {"PENDING"}, "EXPIRED")
        /\ UNCHANGED [b \in BookingIds |-> booking[b].accepted]
    BY <2>1, <2>2, MovesTogether
  <2>4. Lifecycle!Lapse(B)
    BY <2>3 DEF Lifecycle!Lapse
  <2>5. \E X \in SUBSET BookingIds : Lifecycle!Lapse(X) \/ Lifecycle!Abandon(X)
    BY <2>4
  <2>6. Lifecycle!Next
    BY <2>5 DEF Lifecycle!Next
  <2> QED BY <2>6
<1>4. CASE StaleUpdates
  <2>0. PICK B \in SUBSET BookingIds :
          B = {b \in BookingIds : b \in staleJob.found /\ booking[b].status = "ACCEPTED"}
    OBVIOUS
  <2>1. \A b \in B : /\ booking[b].status \in {"ACCEPTED"} /\ booking'[b].status = "CANCELLED"
                     /\ booking'[b].accepted = booking[b].accepted
    BY <1>4, <1>b, <2>0 DEF StaleUpdates, BookingRow
  <2>2. \A b \in BookingIds \ B : Unmoved(b)
    BY <1>4, <2>0 DEF StaleUpdates, Unmoved
  <2>3. Lifecycle!Move(B, {"ACCEPTED"}, "CANCELLED")
        /\ UNCHANGED [b \in BookingIds |-> booking[b].accepted]
    BY <2>1, <2>2, MovesTogether
  <2>4. Lifecycle!Abandon(B)
    BY <2>3 DEF Lifecycle!Abandon
  <2>5. \E X \in SUBSET BookingIds : Lifecycle!Lapse(X) \/ Lifecycle!Abandon(X)
    BY <2>4
  <2>6. Lifecycle!Next
    BY <2>5 DEF Lifecycle!Next
  <2> QED BY <2>6
<1>5. CASE \/ (\E s \in Slots : Arrival(s)) \/ Direct \/ ExpiryFinds \/ ExpiryNotifies
           \/ StaleFinds \/ StaleNotifies \/ (\E n \in BookingIds : Time(n)) \/ Crash
           \/ UNCHANGED vars
  BY <1>1, <1>5
     DEF Arrival, CreateArrives, ActionArrives, GoOnlineArrives, ReinstateArrives,
         ResolveArrives, Direct, GoOffline, StrikeWorker, Suspend, Unsuspend, ExpiryFinds,
         ExpiryNotifies, StaleFinds, StaleNotifies, Time, Expires, WindowAdvances, Crash, vars
<1> QED BY <1>2, <1>3, <1>4, <1>5 DEF Next, ExpiryCron, StaleCron

-----------------------------------------------------------------------------
(* The phases of a booking's time.                                         *)

\* What the expiry job has in hand is overdue, and stays so.
FoundOverdue == \A b \in BookingIds : b \in expiryJob.found => Exists(b) /\ clock[b].expired

\* What a step does to the clock of one booking: nothing, or it begins with the booking,
\* is set again by update(), or moves on.
ClockStep(b) ==
  \/ clock'[b] = clock[b] /\ ~Created(b)
  \/ Created(b) /\ clock'[b].expired = FALSE /\ clock'[b].window \in Phases(b)!Fresh
  \/ /\ Exists(b) /\ Unmoved(b)
     /\ clock'[b].expired = clock[b].expired
     /\ clock'[b].window \in Phases(b)!Fresh \cup {Phases(b)!Later[clock[b].window]}
     /\ clock'[b].window = "stale" => clock[b].expired
  \/ /\ booking[b].status \in Active /\ Unmoved(b)
     /\ clock'[b].expired \in {clock[b].expired, TRUE}
     /\ clock'[b].window \in {clock[b].window, Phases(b)!Later[clock[b].window]}
     /\ clock'[b].window = "stale" => clock'[b].expired

\* What a request makes of an existing row: never a pending, expired or swept one.
LEMMA RequestsWrite ==
  ASSUME TypeOK, NEW s \in Slots, NEW b \in BookingIds,
         \/ Accept(s) \/ Reject(s) \/ Start(s) \/ Complete(s) \/ CancelByCustomer(s)
         \/ CancelByWorker(s) \/ ConfirmNoShow(s) \/ ConfirmCustomerNoShow(s)
  PROVE  \/ booking'[b] = booking[b]
         \/ /\ booking'[b].status \notin {"PENDING", "EXPIRED"}
            /\ booking'[b].cancelledBy \in {booking[b].cancelledBy, "CUSTOMER", "WORKER"}
<1> DEFINE n == req[s].booking
<1>0. booking \in [BookingIds -> BookingRow] /\ booking[b] \in BookingRow
  BY DEF TypeOK
<1>1. ASSUME NEW row, booking' = [booking EXCEPT ![n] = row]
      PROVE  booking'[b] = IF n = b THEN row ELSE booking[b]
  BY <1>0, <1>1
<1>2. CASE Reject(s) \/ Start(s) \/ ConfirmNoShow(s) \/ ConfirmCustomerNoShow(s)
  <2>1. PICK to \in {"REJECTED", "IN_PROGRESS", "NO_SHOW", "CUSTOMER_NO_SHOW"} :
          booking' = [booking EXCEPT ![n] = [@ EXCEPT !.status = to]]
    BY <1>2 DEF Reject, Start, ConfirmNoShow, ConfirmCustomerNoShow
  <2> QED BY <1>0, <1>1, <2>1 DEF BookingRow
<1>3. CASE Accept(s)
  <2>1. booking' = [booking EXCEPT ![n] = [@ EXCEPT !.status = "ACCEPTED", !.accepted = TRUE]]
    BY <1>3 DEF Accept
  <2> QED BY <1>0, <1>1, <2>1 DEF BookingRow
<1>4. CASE Complete(s)
  <2>1. booking' = [booking EXCEPT ![n] = [@ EXCEPT !.status = "COMPLETED", !.completed = TRUE]]
    BY <1>4 DEF Complete
  <2> QED BY <1>0, <1>1, <2>1 DEF BookingRow
<1>5. CASE CancelByCustomer(s) \/ CancelByWorker(s)
  <2>1. PICK by \in {"CUSTOMER", "WORKER"} :
          booking' = [booking EXCEPT ![n] = [@ EXCEPT !.status = "CANCELLED", !.cancelledBy = by]]
    BY <1>5 DEF CancelByCustomer, CancelByWorker
  <2> QED BY <1>0, <1>1, <2>1 DEF BookingRow
<1> QED BY <1>2, <1>3, <1>4, <1>5

\* No request expires a booking or cancels it for the system.
LEMMA OnlyJobsEnd ==
  ASSUME Consistent, NEW s \in Slots, Serve(s), NEW b \in BookingIds
  PROVE  /\ booking'[b].status = "EXPIRED" => booking[b].status = "EXPIRED"
         /\ booking'[b].cancelledBy = "SYSTEM" => booking[b].cancelledBy = "SYSTEM"
<1>0. booking \in [BookingIds -> BookingRow] /\ TypeOK
  BY DEF Consistent, TypeOK
<1>1. CASE CreateInserts(s)
  BY <1>0, <1>1 DEF CreateInserts, NoBooking
<1>2. CASE \/ Accept(s) \/ Reject(s) \/ Start(s) \/ Complete(s) \/ CancelByCustomer(s)
           \/ CancelByWorker(s) \/ ConfirmNoShow(s) \/ ConfirmCustomerNoShow(s)
  BY <1>0, <1>2, RequestsWrite
<1>3. CASE booking' = booking
  BY <1>3
<1> QED
  BY <1>1, <1>2, <1>3
     DEF Serve, CreateReadsWorker, CreateChecksFree, CreateRefused, ActionReads,
         ActionConflicts, Update, ReportNoShow, ReportCustomerNoShow, Report, GoOnline,
         Reinstate, Dismiss, ConfirmNoShowConflicts

LEMMA ServeClocks ==
  ASSUME Consistent, NEW s \in Slots, Serve(s), NEW b \in BookingIds
  PROVE  ClockStep(b)
<1>0. /\ booking \in [BookingIds -> BookingRow] /\ clock \in [BookingIds -> ClockRow]
      /\ Justified(req[s]) /\ Sound(b) /\ TypeOK
  BY DEF Consistent, TypeOK
<1>1. CASE CreateInserts(s)
  <2>1. PICK n \in BookingIds, window \in {"before", "open", "closed"} \cap Windows :
          /\ ~Exists(n)
          /\ booking' = [booking EXCEPT ![n] =
               [NoBooking EXCEPT !.status = "PENDING", !.customer = req[s].by,
                                 !.worker = req[s].worker]]
          /\ clock' = [clock EXCEPT ![n] = [expired |-> FALSE, window |-> window]]
    BY <1>1 DEF CreateInserts
  <2>2. req[s].by \in Customers /\ req[s].worker \in Workers /\ Untouched(b)
    BY <1>0, <1>1 DEF CreateInserts, At, Justified, Untouched
  <2>3. CASE n = b
    BY <1>0, <2>1, <2>2, <2>3 DEF ClockStep, Created, Phases!Fresh
  <2>4. CASE n # b
    <3>1. clock'[b] = clock[b] /\ booking'[b] = booking[b]
      BY <1>0, <2>1, <2>4
    <3>2. ~Created(b)
      BY <3>1 DEF Created, Exists, NoBooking
    <3> QED BY <3>1, <3>2 DEF ClockStep
  <2> QED BY <2>3, <2>4
<1>2. CASE Update(s)
  <2>1. PICK window \in ({"before", "open", "closed"} \cap Windows)
                          \cup {clock[req[s].booking].window}
                          \cup {x \in {"stale"} : MayGoStale(req[s].booking)} :
          clock' = [clock EXCEPT ![req[s].booking].window = window]
    BY <1>2 DEF Update
  <2>2. Exists(req[s].booking) /\ Unmoved(b)
    BY <1>0, <1>2 DEF Update, At, Justified, BookingOperations, Unmoved
  <2>3. ~Created(b)
    BY <2>2 DEF Created, Exists, Unmoved, NoBooking
  <2>4. CASE req[s].booking = b /\ window # clock[b].window
    <3>1. clock'[b].window = window /\ clock'[b].expired = clock[b].expired
      BY <1>0, <2>1, <2>4 DEF ClockRow
    <3>2. CASE window \in {"before", "open", "closed"}
      BY <2>2, <2>4, <3>1, <3>2 DEF ClockStep, Phases!Fresh
    <3>3. CASE window = "stale" /\ MayGoStale(b)
      <4>1. Phases(b)!Later[clock[b].window] = "stale" /\ clock[b].expired
        BY <3>3 DEF MayGoStale, Phases!Later
      <4> QED BY <2>2, <2>4, <3>1, <3>3, <4>1 DEF ClockStep
    <3> QED BY <2>1, <2>4, <3>2, <3>3
  <2>5. CASE ~(req[s].booking = b /\ window # clock[b].window)
    <3>1. clock'[b] = clock[b]
      BY <1>0, <2>1, <2>5 DEF ClockRow
    <3> QED BY <2>3, <3>1 DEF ClockStep
  <2> QED BY <2>4, <2>5
<1>3. CASE clock' = clock /\ booking' = booking
  BY <1>3 DEF ClockStep, Created, Exists, NoBooking
<1>4. CASE \/ Accept(s) \/ Reject(s) \/ Start(s) \/ Complete(s) \/ CancelByCustomer(s)
           \/ CancelByWorker(s) \/ ConfirmNoShow(s) \/ ConfirmCustomerNoShow(s)
  <2>1. clock' = clock
    BY <1>4
       DEF Accept, Reject, Start, Complete, CancelByCustomer, CancelByWorker, ConfirmNoShow,
           ConfirmCustomerNoShow
  <2>2. booking'[b] = booking[b] \/ booking'[b].status # "PENDING"
    BY <1>0, <1>4, RequestsWrite
  <2>3. ~Created(b)
    BY <2>2 DEF Created, Exists, NoBooking
  <2> QED BY <2>1, <2>3 DEF ClockStep
<1> QED
  BY <1>1, <1>2, <1>3, <1>4
     DEF Serve, CreateReadsWorker, CreateChecksFree, CreateRefused, ActionReads,
         ActionConflicts, ReportNoShow, ReportCustomerNoShow, Report, GoOnline,
         Reinstate, Dismiss, ConfirmNoShowConflicts

\* Time moves a deadline on, and makes a window stale only behind the half hour.
LEMMA TimeClocks ==
  ASSUME TypeOK, NEW n \in BookingIds, Time(n), NEW b \in BookingIds
  PROVE  ClockStep(b)
<1>0. clock \in [BookingIds -> ClockRow]
  BY DEF TypeOK
<1>1. Unmoved(b) /\ ~Created(b)
  <2>1. UNCHANGED booking
    BY DEF Time, Expires, WindowAdvances
  <2> QED BY <2>1 DEF Unmoved, Created, Exists, NoBooking
<1>2. CASE n # b
  BY <1>0, <1>1, <1>2 DEF Time, Expires, WindowAdvances, ClockStep
<1>3. CASE n = b /\ Expires(b)
  <2>1. clock'[b] = [clock[b] EXCEPT !.expired = TRUE] /\ booking[b].status \in Active
    BY <1>0, <1>3 DEF Expires
  <2> QED BY <1>0, <1>1, <2>1 DEF ClockStep, ClockRow
<1>4. CASE n = b /\ WindowAdvances(b)
  <2>1. clock'[b] = [clock[b] EXCEPT !.window = Later[clock[b].window]]
        /\ booking[b].status \in Active
    BY <1>0, <1>4 DEF WindowAdvances
  <2>2. /\ clock[b].window \in {"before", "open", "closed"}
        /\ clock[b].window = "closed" => clock[b].expired
    BY <1>0, <1>4 DEF WindowAdvances, MayGoStale, ClockRow, Window
  <2>3. /\ Later[clock[b].window] = Phases(b)!Later[clock[b].window]
        /\ Later[clock[b].window] = "stale" => clock[b].window = "closed"
    BY <2>2 DEF Later, Phases!Later
  <2>4. clock'[b].window = Later[clock[b].window] /\ clock'[b].expired = clock[b].expired
    BY <1>0, <2>1 DEF ClockRow
  <2> QED BY <1>1, <2>1, <2>2, <2>3, <2>4 DEF ClockStep
<1> QED BY <1>2, <1>3, <1>4 DEF Time

\* A request that comes, and the operations that are one write, let no time pass.
LEMMA OthersLeaveTime ==
  ASSUME (\E s \in Slots : Arrival(s)) \/ Direct
  PROVE  UNCHANGED <<booking, clock, expiryJob, staleJob>>
<1>1. CASE \E s \in Slots : Arrival(s)
  BY <1>1 DEF Arrival, CreateArrives, ActionArrives, GoOnlineArrives, ReinstateArrives,
     ResolveArrives, Jobs
<1>2. CASE Direct
  BY <1>2 DEF Direct, GoOffline, StrikeWorker, Suspend, Unsuspend, Jobs
<1> QED BY <1>1, <1>2

\* So it is with every step.
LEMMA ClockSteps ==
  ASSUME Consistent, [Next]_vars, NEW b \in BookingIds
  PROVE  ClockStep(b)
<1>0. TypeOK /\ booking[b] \in BookingRow
  BY DEF Consistent, TypeOK
<1>1. CASE UNCHANGED clock /\ UNCHANGED booking
  BY <1>1 DEF ClockStep, Created, Exists, NoBooking
<1>2. CASE ExpiryUpdates \/ StaleUpdates
  <2>1. UNCHANGED clock /\ (Unmoved(b) \/ booking'[b].status \in {"EXPIRED", "CANCELLED"})
    <3>1. CASE ExpiryUpdates
      BY <1>0, <3>1 DEF ExpiryUpdates, Unmoved, BookingRow
    <3>2. CASE StaleUpdates
      BY <1>0, <3>2 DEF StaleUpdates, Unmoved, BookingRow
    <3> QED BY <1>2, <3>1, <3>2
  <2> QED BY <2>1 DEF ClockStep, Created, Exists, Unmoved, NoBooking
<1>3. CASE \/ ExpiryFinds \/ ExpiryNotifies \/ StaleFinds \/ StaleNotifies \/ Crash
           \/ UNCHANGED vars
  BY <1>1, <1>3
     DEF ExpiryFinds, ExpiryNotifies, StaleFinds, StaleNotifies, Crash, vars
<1>4. CASE (\E s \in Slots : Arrival(s)) \/ Direct
  BY <1>1, <1>4, OthersLeaveTime
<1> QED
  BY <1>0, <1>2, <1>3, <1>4, ServeClocks, TimeClocks DEF Next, ExpiryCron, StaleCron

\* No request waits for a job or tells it anything.
LEMMA ServesLeaveJobs ==
  ASSUME NEW s \in Slots, Serve(s)
  PROVE  UNCHANGED Jobs
<1>1. CASE \/ CreateReadsWorker(s) \/ CreateChecksFree(s) \/ CreateInserts(s)
           \/ CreateRefused(s) \/ ActionReads(s) \/ ActionConflicts(s)
  BY <1>1 DEF CreateReadsWorker, CreateChecksFree, CreateInserts, CreateRefused, ActionReads,
     ActionConflicts
<1>2. CASE \/ Accept(s) \/ Reject(s) \/ Start(s) \/ Complete(s) \/ CancelByCustomer(s)
           \/ CancelByWorker(s) \/ Update(s)
  BY <1>2 DEF Accept, Reject, Start, Complete, CancelByCustomer, CancelByWorker, Update
<1>3. CASE \/ ReportNoShow(s) \/ ReportCustomerNoShow(s) \/ GoOnline(s) \/ Reinstate(s)
           \/ Dismiss(s) \/ ConfirmNoShow(s) \/ ConfirmNoShowConflicts(s)
           \/ ConfirmCustomerNoShow(s)
  BY <1>3 DEF ReportNoShow, ReportCustomerNoShow, Report, GoOnline, Reinstate, Dismiss,
     ConfirmNoShow, ConfirmNoShowConflicts, ConfirmCustomerNoShow
<1> QED BY <1>1, <1>2, <1>3 DEF Serve

\* The half hour of a booking, once over, stays over.
LEMMA AlwaysFoundOverdue == Spec => []FoundOverdue
<1>1. Init => FoundOverdue
  BY DEF Init, FoundOverdue, JobIdle
<1>2. FoundOverdue /\ Consistent /\ [Next]_vars => FoundOverdue'
  <2> SUFFICES ASSUME FoundOverdue, Consistent, [Next]_vars, NEW b \in BookingIds,
                      b \in expiryJob'.found
               PROVE  Exists(b)' /\ clock'[b].expired
    BY DEF FoundOverdue
  <2>1. Exists(b) /\ clock[b].expired
    <3>1. CASE ExpiryFinds
      BY <3>1 DEF ExpiryFinds, Batch, Overdue, Exists
    <3>2. CASE ExpiryUpdates
      BY <3>2 DEF ExpiryUpdates, FoundOverdue, Consistent, TypeOK, Job
    <3>3. CASE ExpiryNotifies \/ Crash
      BY <3>3 DEF ExpiryNotifies, Crash, JobIdle
    <3>4. CASE UNCHANGED expiryJob
      BY <3>4 DEF FoundOverdue
    <3>5. CASE StaleCron \/ (\E n \in BookingIds : Time(n)) \/ UNCHANGED vars
      BY <3>4, <3>5
         DEF StaleCron, StaleFinds, StaleUpdates, StaleNotifies, Time, Expires,
             WindowAdvances, Jobs, vars
    <3> QED
      BY <3>1, <3>2, <3>3, <3>4, <3>5, ServesLeaveJobs, OthersLeaveTime
         DEF Next, ExpiryCron, Jobs
  <2>2. booking'[b].status # "NONE"
    BY <2>1, RowSteps, RowLasts DEF Consistent
  <2>3. clock'[b].expired
    BY <2>1, ClockSteps DEF ClockStep, Created
  <2> QED BY <2>2, <2>3 DEF Exists
<1> QED BY <1>1, <1>2, AlwaysConsistent, PTL DEF Spec

\* What a request makes of a booking that is there already.
LEMMA StandingMoves ==
  ASSUME Consistent, NEW s \in Slots, Serve(s), NEW b \in BookingIds, RowStep(b), ~Created(b)
  PROVE  \/ Standing(b)' = Standing(b)
         \/ Standing(b) = "asked" /\ Standing(b)' = "held"
         \/ Standing(b) = "held" /\ Standing(b)' = "begun"
         \/ /\ Standing(b) \in {"asked", "held", "begun", "swept"}
            /\ Standing(b)' = "over"
<1>0. /\ Sound(b) /\ booking[b] \in BookingRow
      /\ booking'[b].status = "EXPIRED" => booking[b].status = "EXPIRED"
      /\ booking'[b].cancelledBy = "SYSTEM" => booking[b].cancelledBy = "SYSTEM"
  BY OnlyJobsEnd DEF Consistent, TypeOK
<1>1. CASE Unmoved(b)
  BY <1>1 DEF Unmoved, Standing
<1>2. CASE Answered(b)
  BY <1>0, <1>2 DEF Answered, Moves, Standing, Sound, Active
<1>3. CASE CancelledByWorker(b)
  BY <1>3 DEF CancelledByWorker, Moves, Standing
<1>4. CASE RuledNoShow(b) \/ RuledCustomerNoShow(b)
  <2>1. /\ booking[b].status \in BookingStatus \ {"PENDING", "EXPIRED"}
        /\ booking'[b].status \in {"NO_SHOW", "CUSTOMER_NO_SHOW"}
    BY <1>0, <1>4 DEF RuledNoShow, RuledCustomerNoShow, Moves, Sound
  <2> QED BY <2>1 DEF Standing, BookingStatus, Active
<1> QED
  BY <1>1, <1>2, <1>3, <1>4 DEF RowStep, Reported, Dismissed, StruckByAdmin

\* A step that leaves the row of a booking and the sweep alone lets its time pass at most.
LEMMA UnmovedPhases ==
  ASSUME NEW b \in BookingIds, ClockStep(b), Unmoved(b), UNCHANGED staleJob
  PROVE  [Phases(b)!Next]_(Phases(b)!vars)
<1>1. Standing(b)' = Standing(b) /\ ~Created(b)
  BY DEF Unmoved, Standing, Created, Exists, NoBooking
<1>2. CASE clock'[b] = clock[b]
  BY <1>1, <1>2 DEF Phases!vars
<1>3. CASE /\ Exists(b) /\ clock'[b].expired = clock[b].expired
           /\ clock'[b].window \in Phases(b)!Fresh \cup {Phases(b)!Later[clock[b].window]}
           /\ clock'[b].window = "stale" => clock[b].expired
  <2>1. Standing(b) # "none"
    BY <1>3 DEF Exists, Standing
  <2>2. Phases(b)!Reschedule
    BY <1>1, <1>3, <2>1 DEF Phases!Reschedule
  <2> QED BY <2>2 DEF Phases!Next
<1>4. CASE /\ booking[b].status \in Active
           /\ clock'[b].expired \in {clock[b].expired, TRUE}
           /\ clock'[b].window \in {clock[b].window, Phases(b)!Later[clock[b].window]}
           /\ clock'[b].window = "stale" => clock'[b].expired
  <2>1. Standing(b) \in Phases(b)!Current
    BY <1>4 DEF Active, Standing, Phases!Current
  <2>2. Phases(b)!Pass
    BY <1>1, <1>4, <2>1 DEF Phases!Pass
  <2> QED BY <2>2 DEF Phases!Next
<1> QED BY <1>1, <1>2, <1>3, <1>4 DEF ClockStep

\* Every step is one of the phases of each booking, or leaves them alone.
LEMMA PhaseStep ==
  ASSUME Consistent, FoundOverdue, [Next]_vars, NEW b \in BookingIds
  PROVE  [Phases(b)!Next]_(Phases(b)!vars)
<1>0. /\ booking \in [BookingIds -> BookingRow] /\ booking[b] \in BookingRow
      /\ clock \in [BookingIds -> ClockRow] /\ staleJob \in Job /\ Sound(b)
      /\ RowStep(b) /\ ClockStep(b)
  BY RowSteps, ClockSteps DEF Consistent, TypeOK
<1>1. CASE Unmoved(b) /\ UNCHANGED staleJob
  BY <1>0, <1>1, UnmovedPhases
<1>2. ASSUME NEW s \in Slots, Serve(s) PROVE [Phases(b)!Next]_(Phases(b)!vars)
  <2>1. UNCHANGED staleJob
    BY <1>2, ServesLeaveJobs DEF Jobs
  <2>2. CASE Created(b)
    <3>1. /\ Standing(b) = "none" /\ Standing(b)' = "asked"
          /\ clock'[b].expired = FALSE /\ clock'[b].window \in Phases(b)!Fresh
      BY <1>0, <2>2 DEF Created, Exists, Standing, NoBooking, ClockStep, Unmoved, Active
    <3>2. Phases(b)!Ask
      BY <2>1, <3>1 DEF Phases!Ask, Phases!Move
    <3> QED BY <3>2 DEF Phases!Next
  <2>3. CASE Unmoved(b)
    BY <1>1, <2>1, <2>3
  <2>4. CASE ~Created(b) /\ ~Unmoved(b)
    <3>1. UNCHANGED clock[b]
      BY <1>0, <2>4 DEF ClockStep
    <3>2. CASE Standing(b)' = Standing(b)
      BY <2>1, <3>1, <3>2 DEF Phases!vars
    <3>3. CASE Standing(b) = "asked" /\ Standing(b)' = "held"
      BY <2>1, <3>1, <3>3 DEF Phases!Agree, Phases!Move, Phases!Next
    <3>4. CASE Standing(b) = "held" /\ Standing(b)' = "begun"
      BY <2>1, <3>1, <3>4 DEF Phases!Begin, Phases!Move, Phases!Next
    <3>5. CASE Standing(b) \in {"asked", "held", "begun", "swept"} /\ Standing(b)' = "over"
      BY <2>1, <3>1, <3>5 DEF Phases!End, Phases!Move, Phases!Current, Phases!Next
    <3> QED BY <1>0, <1>2, <2>4, <3>2, <3>3, <3>4, <3>5, StandingMoves
  <2> QED BY <2>2, <2>3, <2>4
<1>3. CASE ExpiryUpdates
  <2>1. /\ UNCHANGED <<clock, staleJob>>
        /\ booking'[b] = IF b \in expiryJob.found /\ booking[b].status = "PENDING"
                         THEN [booking[b] EXCEPT !.status = "EXPIRED"] ELSE booking[b]
    BY <1>3 DEF ExpiryUpdates, Jobs
  <2>2. CASE b \in expiryJob.found /\ booking[b].status = "PENDING"
    <3>1. Standing(b) = "asked" /\ Standing(b)' = "lapsed" /\ clock[b].expired
      BY <1>0, <2>1, <2>2 DEF FoundOverdue, Standing, BookingRow
    <3>2. Phases(b)!Lapse
      BY <2>1, <3>1 DEF Phases!Lapse, Phases!Move
    <3> QED BY <3>2 DEF Phases!Next
  <2>3. CASE ~(b \in expiryJob.found /\ booking[b].status = "PENDING")
    BY <1>1, <2>1, <2>3 DEF Unmoved
  <2> QED BY <2>2, <2>3
<1>4. CASE StaleFinds
  <2>1. PICK found \in SUBSET BookingIds :
          /\ Batch(found, NeverStarted)
          /\ staleJob' = [step |-> "update", found |-> found]
    BY <1>4 DEF StaleFinds
  <2>2. UNCHANGED <<booking, clock>> /\ Standing(b)' = Standing(b) /\ staleJob.step = "idle"
    BY <1>4 DEF StaleFinds, Standing
  <2>3. CASE b \in found
    <3>1. Standing(b) = "held" /\ clock[b].window = "stale"
      BY <2>1, <2>3 DEF Batch, NeverStarted, Standing
    <3>2. Phases(b)!List
      BY <2>1, <2>2, <2>3, <3>1 DEF Phases!List
    <3> QED BY <3>2 DEF Phases!Next
  <2>4. CASE b \notin found
    BY <2>1, <2>2, <2>4 DEF Phases!vars
  <2> QED BY <2>3, <2>4
<1>5. CASE StaleUpdates
  <2>1. /\ UNCHANGED clock /\ staleJob.step = "update" /\ staleJob'.step = "notify"
        /\ booking'[b] = IF b \in staleJob.found /\ booking[b].status = "ACCEPTED"
                         THEN [booking[b] EXCEPT !.status = "CANCELLED", !.cancelledBy = "SYSTEM"]
                         ELSE booking[b]
    BY <1>0, <1>5 DEF StaleUpdates, Job
  <2>2. CASE b \in staleJob.found /\ booking[b].status = "ACCEPTED"
    <3>1. Standing(b) = "held" /\ Standing(b)' = "swept"
      BY <1>0, <2>1, <2>2 DEF Standing, BookingRow
    <3>2. Phases(b)!Sweep
      BY <2>1, <2>2, <3>1 DEF Phases!Sweep, Phases!Move
    <3> QED BY <3>2 DEF Phases!Next
  <2>3. CASE ~(b \in staleJob.found /\ booking[b].status = "ACCEPTED")
    <3>1. Phases(b)!Unlist
      BY <2>1, <2>3 DEF Phases!Unlist, Standing
    <3> QED BY <3>1 DEF Phases!Next
  <2> QED BY <2>2, <2>3
<1>6. CASE StaleNotifies
  BY <1>6 DEF StaleNotifies, JobIdle, Standing, Phases!vars
<1>7. CASE Crash
  <2>1. Phases(b)!Unlist
    BY <1>7 DEF Crash, JobIdle, Accounts, Standing, Phases!Unlist
  <2> QED BY <2>1 DEF Phases!Next
<1>8. CASE \/ ExpiryFinds \/ ExpiryNotifies \/ (\E n \in BookingIds : Time(n))
           \/ UNCHANGED vars
  <2>1. UNCHANGED <<booking, staleJob>>
    BY <1>8 DEF ExpiryFinds, ExpiryNotifies, Time, Expires, WindowAdvances, Jobs, vars
  <2> QED BY <1>1, <2>1 DEF Unmoved
<1>9. CASE (\E s \in Slots : Arrival(s)) \/ Direct
  BY <1>1, <1>9, OthersLeaveTime DEF Unmoved
<1> QED
  BY <1>2, <1>3, <1>4, <1>5, <1>6, <1>7, <1>8, <1>9 DEF Next, ExpiryCron, StaleCron

\* Whoever acts on the bookings, and in whatever order, each follows the life cycle of
\* the BookingStatus enum and reveals contacts at the acceptance (all handlers and jobs),
\* and no job takes one before its half hour or its window allows (bookings.cron).
THEOREM KeepsLifecycle == Spec => FollowsLifecycle
<1>1. Init => Lifecycle!Init
  BY DEF Init, NoBooking, Lifecycle!Init
<1>2. Consistent /\ [Next]_vars => [Lifecycle!Next]_(Lifecycle!vars)
  BY LifecycleStep
<1>3. Init => \A b \in BookingIds : Phases(b)!Init
  BY DEF Init, NoBooking, JobIdle, Standing, Phases!Init, Phases!Fresh
<1>4. Consistent /\ FoundOverdue /\ [Next]_vars
        => [\A b \in BookingIds : [Phases(b)!Next]_(Phases(b)!vars)]_vars
  BY PhaseStep
<1> QED
  BY <1>1, <1>2, <1>3, <1>4, AlwaysConsistent, AlwaysFoundOverdue, PTL
     DEF Spec, FollowsLifecycle, Lifecycle!Spec

\* What the phases keep: a stale window, and a booking the sweep has looked up, are behind
\* the half hour of their request.
Timely(b) ==
  /\ clock[b].window = "stale" => clock[b].expired
  /\ staleJob.step = "update" /\ b \in staleJob.found =>
       clock[b].expired /\ Standing(b) # "none"
  /\ Phases(b)!NotBeforeItsTime

LEMMA TimelyStep ==
  ASSUME NEW b \in BookingIds, Timely(b), [Phases(b)!Next]_(Phases(b)!vars)
  PROVE  Timely(b)'
<1> USE DEF Timely, Phases!NotBeforeItsTime
<1>1. CASE UNCHANGED Phases(b)!vars
  BY <1>1 DEF Phases!vars
<1>2. CASE Phases(b)!Ask \/ Phases(b)!Reschedule
  BY <1>2 DEF Phases!Ask, Phases!Reschedule, Phases!Move, Phases!Fresh
<1>3. CASE Phases(b)!Agree \/ Phases(b)!Begin \/ Phases(b)!End
  BY <1>3 DEF Phases!Agree, Phases!Begin, Phases!End, Phases!Move
<1>4. CASE Phases(b)!Lapse \/ Phases(b)!List
  BY <1>4 DEF Phases!Lapse, Phases!List, Phases!Move
<1>5. CASE Phases(b)!Sweep \/ Phases(b)!Unlist
  BY <1>5 DEF Phases!Sweep, Phases!Unlist, Phases!Move
<1>6. CASE Phases(b)!Pass
  BY <1>6 DEF Phases!Pass, Phases!Current
<1> QED BY <1>1, <1>2, <1>3, <1>4, <1>5, <1>6 DEF Phases!Next

\* Neither job ends a booking before the half hour of its request is over, though the sweep
\* looks at the window alone, in a query made before the update, and update() may have moved
\* the window in between (expiredPendingBookings, cancelStaleAcceptedBookings).
THEOREM JobsComeInTime == Spec => [](\A b \in BookingIds : Phases(b)!NotBeforeItsTime)
<1> DEFINE AllTimely == \A b \in BookingIds : Timely(b)
<1>1. Init => AllTimely
  BY DEF Init, NoBooking, JobIdle, Standing, Timely, Phases!NotBeforeItsTime
<1>2. Consistent /\ FoundOverdue /\ [Next]_vars /\ AllTimely => AllTimely'
  BY PhaseStep, TimelyStep
<1>3. AllTimely => \A b \in BookingIds : Phases(b)!NotBeforeItsTime
  BY DEF Timely
<1> QED BY <1>1, <1>2, <1>3, AlwaysConsistent, AlwaysFoundOverdue, PTL DEF Spec

-----------------------------------------------------------------------------
(* The counters of a worker.                                               *)

CompletedOf(w) == {b \in BookingIds : booking[b].worker = w /\ booking[b].completed}
StrikesOf(w)   == {b \in BookingIds : strike[b].worker = w}

LEMMA FinitelyMany ==
  ASSUME NEW S \in SUBSET BookingIds
  PROVE  IsFiniteSet(S) /\ Cardinality(S) \in Nat
BY TablesAssumption, FS_Subset, FS_CardinalityType

\* Nothing but complete() sets completedAt or the worker's counter.
LEMMA OnlyCompleteCompletes ==
  ASSUME Consistent, [Next]_vars, \A s \in Slots : ~Complete(s), NEW b \in BookingIds
  PROVE  booking'[b].completed = booking[b].completed
<1> USE DEF Consistent
<1>0. booking \in [BookingIds -> BookingRow] /\ booking[b] \in BookingRow
  BY DEF TypeOK
<1>1. CASE UNCHANGED booking
  BY <1>1
<1>2. ASSUME NEW s \in Slots, CreateInserts(s)
      PROVE  booking'[b].completed = booking[b].completed
  <2>1. PICK n \in BookingIds :
          /\ ~Exists(n)
          /\ booking' = [booking EXCEPT ![n] =
               [NoBooking EXCEPT !.status = "PENDING", !.customer = req[s].by,
                                 !.worker = req[s].worker]]
    BY <1>2 DEF CreateInserts
  <2>2. booking[n] = NoBooking
    BY <2>1 DEF Sound
  <2>3. CASE n = b
    BY <1>0, <2>1, <2>2, <2>3 DEF NoBooking
  <2>4. CASE n # b
    BY <1>0, <2>1, <2>4
  <2> QED BY <2>3, <2>4
<1>3. ASSUME NEW s \in Slots, Accept(s)
      PROVE  booking'[b].completed = booking[b].completed
  BY <1>0, <1>3 DEF Accept, BookingRow
<1>4. ASSUME NEW s \in Slots, Reject(s) \/ Start(s) \/ ConfirmNoShow(s) \/ ConfirmCustomerNoShow(s)
      PROVE  booking'[b].completed = booking[b].completed
  <2>1. ASSUME NEW to, booking' = [booking EXCEPT ![req[s].booking] = [@ EXCEPT !.status = to]]
        PROVE  booking'[b].completed = booking[b].completed
    BY <1>0, <2>1 DEF BookingRow
  <2>2. \E to : booking' = [booking EXCEPT ![req[s].booking] = [@ EXCEPT !.status = to]]
    BY <1>4 DEF Reject, Start, ConfirmNoShow, ConfirmCustomerNoShow
  <2> QED BY <2>1, <2>2
<1>5. ASSUME NEW s \in Slots, CancelByCustomer(s) \/ CancelByWorker(s)
      PROVE  booking'[b].completed = booking[b].completed
  <2>1. CASE CancelByCustomer(s)
    BY <1>0, <2>1 DEF CancelByCustomer, BookingRow
  <2>2. CASE CancelByWorker(s)
    BY <1>0, <2>2 DEF CancelByWorker, BookingRow
  <2> QED BY <1>5, <2>1, <2>2
<1>6. CASE ExpiryUpdates
  BY <1>0, <1>6 DEF ExpiryUpdates, BookingRow
<1>7. CASE StaleUpdates
  BY <1>0, <1>7 DEF StaleUpdates, BookingRow
<1>8. ASSUME NEW s \in Slots,
             \/ Arrival(s)
             \/ CreateReadsWorker(s) \/ CreateChecksFree(s) \/ CreateRefused(s)
             \/ ActionReads(s) \/ ActionConflicts(s) \/ Update(s)
             \/ ReportNoShow(s) \/ ReportCustomerNoShow(s) \/ GoOnline(s) \/ Reinstate(s)
             \/ Dismiss(s) \/ ConfirmNoShowConflicts(s)
      PROVE  booking'[b].completed = booking[b].completed
  BY <1>1, <1>8
     DEF Arrival, CreateArrives, ActionArrives, GoOnlineArrives, ReinstateArrives,
         ResolveArrives, CreateReadsWorker, CreateChecksFree, CreateRefused, ActionReads,
         ActionConflicts, Update, ReportNoShow, ReportCustomerNoShow, Report, GoOnline,
         Reinstate, Dismiss, ConfirmNoShowConflicts
<1>9. CASE \/ Direct \/ ExpiryFinds \/ ExpiryNotifies \/ StaleFinds \/ StaleNotifies
           \/ (\E n \in BookingIds : Time(n)) \/ Crash \/ UNCHANGED vars
  BY <1>1, <1>9
     DEF Direct, GoOffline, StrikeWorker, Suspend, Unsuspend, ExpiryFinds, ExpiryNotifies,
         StaleFinds, StaleNotifies, Time, Expires, WindowAdvances, Crash, vars
<1> QED
  BY <1>2, <1>3, <1>4, <1>5, <1>6, <1>7, <1>8, <1>9 DEF Next, Serve, ExpiryCron, StaleCron

\* What a step does to the two counters of a worker that it neither strikes nor
\* credits with a job: the first may be reset, the second stands.
Uncounted(w) ==
  /\ worker'[w].totalJobsCompleted = worker[w].totalJobsCompleted
  /\ worker'[w].strikeCount \in {0, worker[w].strikeCount}

LEMMA StrikesCountOnce ==
  ASSUME TypeOK, NEW b, NEW v \in Workers, NEW reason, NEW issuedBy,
         ApplyStrike(b, v, reason, issuedBy), NEW w \in Workers
  PROVE  /\ worker'[w].totalJobsCompleted = worker[w].totalJobsCompleted
         /\ worker'[w].strikeCount = worker[w].strikeCount + (IF w = v THEN 1 ELSE 0)
<1>1. worker[w] \in WorkerRow
  BY DEF TypeOK
<1>2. CASE w # v
  BY <1>1, <1>2 DEF ApplyStrike, TypeOK, WorkerRow
<1>3. CASE w = v
  <2>1. worker'[w] = Struck(worker[w])
    BY <1>3 DEF ApplyStrike, TypeOK
  <2>2. /\ Struck(worker[w]).strikeCount = worker[w].strikeCount + 1
        /\ Struck(worker[w]).totalJobsCompleted = worker[w].totalJobsCompleted
    BY <1>1 DEF Struck, WorkerRow
  <2> QED BY <1>3, <2>1, <2>2
<1> QED BY <1>2, <1>3

\* The steps that count: a job done and a strike, each backed by a booking.
Strikes(b, w) == \E reason, issuedBy : ApplyStrike(b, w, reason, issuedBy)
Counting ==
  \/ \E s \in Slots : Complete(s)
  \/ \E b \in BookingIds, w \in Workers : MayStrike(b) /\ Strikes(b, w)

LEMMA ServesCount ==
  ASSUME Consistent, NEW s \in Slots, Serve(s), NEW w \in Workers
  PROVE  Counting \/ Uncounted(w)
<1> USE DEF Consistent
<1>0. worker \in [Workers -> WorkerRow] /\ worker[w] \in WorkerRow /\ Justified(req[s])
  BY DEF TypeOK
<1>1. CASE UNCHANGED worker
  BY <1>1 DEF Uncounted
<1>2. CASE Complete(s)
  BY <1>2 DEF Counting
<1>3. CASE CancelByWorker(s)
  <2>1. PICK b \in BookingIds, v \in Workers : b = req[s].booking /\ v = req[s].by
    BY <1>0, <1>3 DEF CancelByWorker, At, Justified, BookingOperations
  <2>2. MayStrike(b) /\ Strikes(b, v)
    BY <1>3, <2>1 DEF CancelByWorker, ApplyStrike, MayStrike, Strikes
  <2> QED BY <2>2 DEF Counting
<1>4. CASE ConfirmNoShow(s)
  <2>1. PICK b \in BookingIds : b = req[s].booking
    BY <1>0, <1>4 DEF ConfirmNoShow, At, Justified
  <2>2. report[b] # NoReport
    BY <1>4, <2>1 DEF ConfirmNoShow, NoReport
  <2>3. PICK v \in Workers : v = booking[b].worker
    BY <2>2 DEF Sound
  <2>4. MayStrike(b) /\ Strikes(b, v)
    BY <1>4, <2>1, <2>3 DEF ConfirmNoShow, ApplyStrike, MayStrike, Strikes
  <2> QED BY <2>4 DEF Counting
<1>5. CASE GoOnline(s)
  BY <1>0, <1>5 DEF GoOnline, Uncounted, WorkerRow
<1>6. CASE Reinstate(s)
  BY <1>0, <1>6 DEF Reinstate, Uncounted, WorkerRow
<1> QED
  BY <1>1, <1>2, <1>3, <1>4, <1>5, <1>6
     DEF Serve, CreateReadsWorker, CreateChecksFree, CreateInserts, CreateRefused,
         ActionReads, ActionConflicts, Accept, Reject, Start, CancelByCustomer, Update,
         ReportNoShow, ReportCustomerNoShow, Report, Dismiss, ConfirmNoShowConflicts,
         ConfirmCustomerNoShow, Accounts

LEMMA StepsCount ==
  ASSUME Consistent, [Next]_vars, NEW w \in Workers
  PROVE  Counting \/ Uncounted(w)
<1> USE DEF Consistent
<1>0. worker \in [Workers -> WorkerRow] /\ worker[w] \in WorkerRow
  BY DEF TypeOK
<1>1. CASE UNCHANGED worker
  BY <1>1 DEF Uncounted
<1>2. ASSUME NEW v \in Workers, NEW b \in BookingIds, NEW reason \in Reasons,
             StrikeWorker(v, b, reason)
      PROVE  Counting
  BY <1>2 DEF StrikeWorker, Counting, Strikes
<1>3. ASSUME NEW v \in Workers, GoOffline(v) PROVE Uncounted(w)
  BY <1>0, <1>3 DEF GoOffline, Uncounted, WorkerRow
<1>4. ASSUME NEW u \in Users, Suspend(u) PROVE Uncounted(w)
  BY <1>0, <1>4 DEF Suspend, Uncounted, WorkerRow
<1>5. ASSUME NEW s \in Slots, Arrival(s) PROVE Uncounted(w)
  <2>1. UNCHANGED worker
    BY <1>5 DEF Arrival, CreateArrives, ActionArrives, GoOnlineArrives, ReinstateArrives,
       ResolveArrives, Accounts
  <2> QED BY <2>1 DEF Uncounted
<1>6. CASE \/ (\E u \in Users : Unsuspend(u)) \/ ExpiryCron \/ StaleCron
           \/ (\E n \in BookingIds : Time(n)) \/ Crash \/ UNCHANGED vars
  BY <1>1, <1>6
     DEF Unsuspend, ExpiryCron, ExpiryFinds, ExpiryUpdates, ExpiryNotifies, StaleCron,
         StaleFinds, StaleUpdates, StaleNotifies, Time, Expires, WindowAdvances, Crash,
         Accounts, vars
<1> QED BY <1>2, <1>3, <1>4, <1>5, <1>6, ServesCount DEF Next, Direct

\* A strike stays on its booking: the set only grows.
LEMMA StrikesLast ==
  ASSUME Consistent, [Next]_vars, NEW w \in Workers
  PROVE  StrikesOf(w) \subseteq {b \in BookingIds : strike'[b].worker = w}
<1> SUFFICES ASSUME NEW b \in BookingIds, strike[b].worker = w
             PROVE  strike'[b].worker = w
  BY DEF StrikesOf
<1>1. strike[b] # NoStrike
  BY AccountsAssumption DEF NoStrike
<1>2. Sound(b) /\ RowStep(b)
  BY RowSteps DEF Consistent
<1> QED BY <1>1, <1>2, RowLasts

\* The worker's counter is the number of bookings that worker has completed
\* (complete(), which writes both in one transaction).
THEOREM JobsAreCounted == Spec => []JobsCounted
<1>1. Init => JobsCounted
  <2> SUFFICES ASSUME Init, NEW w \in Workers
               PROVE  worker[w].totalJobsCompleted = Cardinality(CompletedOf(w))
    BY DEF JobsCounted, CompletedOf
  <2>1. CompletedOf(w) = {}
    BY DEF Init, NoBooking, CompletedOf
  <2> QED BY <2>1, FS_EmptySet DEF Init
<1>2. Consistent /\ JobsCounted /\ [Next]_vars => JobsCounted'
  <2> SUFFICES ASSUME Consistent, JobsCounted, [Next]_vars, NEW w \in Workers
               PROVE  worker'[w].totalJobsCompleted =
                        Cardinality({b \in BookingIds :
                                       booking'[b].worker = w /\ booking'[b].completed})
    BY DEF JobsCounted
  <2> DEFINE Then == {b \in BookingIds : booking'[b].worker = w /\ booking'[b].completed}
  <2>0. /\ worker[w].totalJobsCompleted = Cardinality(CompletedOf(w))
        /\ worker \in [Workers -> WorkerRow] /\ worker[w] \in WorkerRow
        /\ booking \in [BookingIds -> BookingRow]
    BY DEF JobsCounted, CompletedOf, Consistent, TypeOK
  <2>1. ASSUME NEW s \in Slots, Complete(s)
        PROVE  worker'[w].totalJobsCompleted = Cardinality(Then)
    <3>1. PICK n \in BookingIds, v \in Workers :
            /\ n = req[s].booking /\ v = req[s].by
            /\ booking[n].worker = v /\ booking[n].status = "IN_PROGRESS"
      <4>1. req[s].op = "complete" /\ Justified(req[s])
        BY <2>1 DEF Complete, At, Consistent
      <4>2. req[s].booking \in BookingIds /\ req[s].by = booking[req[s].booking].worker
            /\ Exists(req[s].booking)
        BY <4>1 DEF Justified, BookingOperations, ByCustomer
      <4>3. booking[req[s].booking].worker \in Workers
        BY <4>2 DEF Consistent, Sound
      <4>4. booking[req[s].booking].status = "IN_PROGRESS"
        BY <2>1, <4>1 DEF Complete, Matches, Expected
      <4> QED BY <4>2, <4>3, <4>4
    <3>2. /\ booking' = [booking EXCEPT ![n] =
                           [@ EXCEPT !.status = "COMPLETED", !.completed = TRUE]]
          /\ worker' = [worker EXCEPT ![v].totalJobsCompleted = @ + 1]
      BY <2>1, <3>1 DEF Complete
    <3>3. n \notin CompletedOf(v)
      BY <3>1 DEF Consistent, Sound, Active, CompletedOf
    <3>4. booking[n] \in BookingRow
      BY <2>0
    <3>5. booking'[n].worker = v /\ booking'[n].completed
      BY <2>0, <3>1, <3>2, <3>4 DEF BookingRow
    <3>6. \A b \in BookingIds \ {n} : booking'[b] = booking[b]
      BY <2>0, <3>2
    <3>7. CASE w = v
      <4>1. Then = CompletedOf(w) \cup {n}
        BY <3>5, <3>6, <3>7 DEF CompletedOf
      <4>2. CompletedOf(w) \in SUBSET BookingIds
        BY DEF CompletedOf
      <4>3. Cardinality(Then) = Cardinality(CompletedOf(w)) + 1
        BY <3>3, <3>7, <4>1, <4>2, FinitelyMany, FS_AddElement
      <4>4. worker'[w].totalJobsCompleted = worker[w].totalJobsCompleted + 1
        BY <2>0, <3>2, <3>7 DEF WorkerRow
      <4> QED BY <2>0, <4>3, <4>4
    <3>8. CASE w # v
      <4>1. Then = CompletedOf(w)
        BY <3>1, <3>5, <3>6, <3>8 DEF CompletedOf
      <4>2. worker'[w] = worker[w]
        BY <2>0, <3>2, <3>8
      <4> QED BY <2>0, <4>1, <4>2
    <3> QED BY <3>7, <3>8
  <2>2. ASSUME \A s \in Slots : ~Complete(s)
        PROVE  worker'[w].totalJobsCompleted = Cardinality(Then)
    <3>1. ASSUME NEW b \in BookingIds
          PROVE  /\ booking'[b].completed = booking[b].completed
                 /\ booking[b].completed => booking'[b].worker = booking[b].worker
      <4>1. booking'[b].completed = booking[b].completed
        BY <2>2, OnlyCompleteCompletes
      <4>2. Sound(b) /\ RowStep(b)
        BY RowSteps DEF Consistent
      <4>3. booking[b].completed => Exists(b)
        BY <4>2 DEF Sound, NoBooking
      <4> QED BY <4>1, <4>2, <4>3, RowLasts
    <3>2. Then = CompletedOf(w)
      BY <3>1 DEF CompletedOf
    <3>3. worker'[w].totalJobsCompleted = worker[w].totalJobsCompleted
      BY <2>2, StepsCount, StrikesCountOnce DEF Counting, Strikes, Uncounted, Consistent
    <3> QED BY <2>0, <3>2, <3>3
  <2> QED BY <2>1, <2>2
<1> QED BY <1>1, <1>2, AlwaysConsistent, PTL DEF Spec

\* No strike counts that no booking carries: the count of a worker never exceeds the
\* worker's strike rows (applyStrike, reinstateWorker).
THEOREM StrikesAreBacked == Spec => []StrikesBackCount
<1>1. Init => StrikesBackCount
  <2> SUFFICES ASSUME Init, NEW w \in Workers
               PROVE  worker[w].strikeCount <= Cardinality(StrikesOf(w))
    BY DEF StrikesBackCount, StrikesOf
  <2>1. Cardinality(StrikesOf(w)) \in Nat
    BY FinitelyMany DEF StrikesOf
  <2> QED BY <2>1 DEF Init
<1>2. Consistent /\ StrikesBackCount /\ [Next]_vars => StrikesBackCount'
  <2> SUFFICES ASSUME Consistent, StrikesBackCount, [Next]_vars, NEW w \in Workers
               PROVE  worker'[w].strikeCount <=
                        Cardinality({b \in BookingIds : strike'[b].worker = w})
    BY DEF StrikesBackCount
  <2> DEFINE Then == {b \in BookingIds : strike'[b].worker = w}
  <2>0. /\ worker[w].strikeCount <= Cardinality(StrikesOf(w))
        /\ worker \in [Workers -> WorkerRow] /\ worker[w].strikeCount \in Nat
        /\ strike \in [BookingIds -> StrikeRow]
    BY DEF StrikesBackCount, StrikesOf, Consistent, TypeOK, WorkerRow
  <2>1. /\ Cardinality(StrikesOf(w)) <= Cardinality(Then)
        /\ Cardinality(StrikesOf(w)) \in Nat /\ Cardinality(Then) \in Nat
    <3>1. Then \in SUBSET BookingIds /\ StrikesOf(w) \in SUBSET Then
      BY StrikesLast DEF StrikesOf
    <3>2. IsFiniteSet(Then) /\ Cardinality(Then) \in Nat
      BY <3>1, FinitelyMany
    <3>3. Cardinality(StrikesOf(w)) <= Cardinality(Then)
      BY <3>1, <3>2, FS_Subset
    <3>4. Cardinality(StrikesOf(w)) \in Nat
      BY FinitelyMany DEF StrikesOf
    <3> QED BY <3>2, <3>3, <3>4
  <2> HIDE DEF Then
  <2>2. ASSUME worker'[w].strikeCount \in {0, worker[w].strikeCount}
        PROVE  worker'[w].strikeCount <= Cardinality(Then)
    <3>1. 0 <= Cardinality(Then) /\ worker[w].strikeCount <= Cardinality(Then)
      BY <2>0, <2>1
    <3> QED BY <2>2, <3>1
  <2>3. ASSUME NEW s \in Slots, Complete(s)
        PROVE  worker'[w].strikeCount = worker[w].strikeCount
    BY <2>3 DEF Complete, Consistent, TypeOK, WorkerRow
  <2>4. ASSUME NEW n \in BookingIds, NEW v \in Workers, MayStrike(n), Strikes(n, v)
        PROVE  worker'[w].strikeCount <= Cardinality(Then)
    <3>1. worker'[w].strikeCount = worker[w].strikeCount + (IF w = v THEN 1 ELSE 0)
      BY <2>4, StrikesCountOnce DEF Strikes, Consistent
    <3>2. CASE w # v
      <4>1. worker'[w].strikeCount = worker[w].strikeCount
        BY <2>0, <3>1, <3>2
      <4> QED BY <2>2, <4>1
    <3>3. CASE w = v
      <4>1. strike'[n].worker = w /\ \A b \in BookingIds \ {n} : strike'[b] = strike[b]
        BY <2>0, <2>4, <3>3 DEF Strikes, ApplyStrike
      <4>2. Then = StrikesOf(w) \cup {n}
        BY <4>1 DEF Then, StrikesOf
      <4>3. n \notin StrikesOf(w)
        BY <2>4, AccountsAssumption DEF MayStrike, NoStrike, StrikesOf
      <4>4. IsFiniteSet(StrikesOf(w))
        BY FinitelyMany DEF StrikesOf
      <4>5. Cardinality(Then) = Cardinality(StrikesOf(w)) + 1
        BY <4>2, <4>3, <4>4, FS_AddElement
      <4> QED BY <2>0, <2>1, <3>1, <3>3, <4>5
    <3> QED BY <3>2, <3>3
  <2> QED BY <2>2, <2>3, <2>4, StepsCount DEF Counting, Uncounted, Then
<1> QED BY <1>1, <1>2, AlwaysConsistent, PTL DEF Spec
=============================================================================
