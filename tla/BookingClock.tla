---------------------------- MODULE BookingClock ----------------------------
(***************************************************************************)
(* The clock of one booking: how long a request stays open, when a no-show *)
(* can be reported, and when the hourly job gives up on a booking that was *)
(* never started.  The deadlines are computed in Philippine time from an   *)
(* instant that the customer chooses and a window of the day.              *)
(*                                                                         *)
(* Bookings has the same operations with their races and with phases for   *)
(* the time; here a request takes no time, and time is a number of half    *)
(* hours in UTC: every duration in the code is a multiple of that.         *)
(***************************************************************************)
EXTENDS Integers

CONSTANTS
  Starts,     \* when the booking may be made: bounds the times of day
  MaxAdvance, \* BOOKING_MAX_ADVANCE_MS
  MaxMissed,  \* bounds the runs of the jobs that do not happen
  MaxTime     \* bounds the clock

ASSUME TimesAssumption == Starts \subseteq Nat /\ MaxAdvance \in Nat /\ MaxTime \in Nat
ASSUME MissedAssumption == MaxMissed \in Nat

VARIABLES
  now,     \* Date.now()
  booking, \* the row of bookings
  report,  \* its no-show report
  due,     \* jobs that run at this instant and have not yet
  missed,  \* runs that did not happen so far
  ended    \* history: when the booking was swept or expired

clockVars == <<now, booking, report, due, missed, ended>>

Day       == 48
Expiry    == 1  \* BOOKING_PENDING_EXPIRY_MS
PhtOffset == 16 \* PHT_OFFSET_MS
Extra     == 4  \* NO_SHOW_DEADLINE_EXTRA_MS
Grace     == 48 \* STALE_ACCEPTED_GRACE_MS

TimeWindow == {"MORNING", "AFTERNOON", "EVENING"}
\* TIME_WINDOW_END_HOUR_PHT
EndHour == [MORNING |-> 24, AFTERNOON |-> 36, EVENING |-> 42]

\* toPhtDayMs: midnight of the Philippine calendar date, as if it were UTC.
\* Variant: the offset "corrected" to UTC-8.
ToPhtDay_West(t) == ((t + Day - PhtOffset) \div Day) * Day - Day
ToPhtDay(t) == ((t + PhtOffset) \div Day) * Day
WindowEnd(date, window) == ToPhtDay(date) - PhtOffset + EndHour[window]

\* ENDED: rejected, cancelled by a party, completed or a verdict, which Bookings
\* tells apart; SWEPT: cancelled by the system.
Status == {"PENDING", "ACCEPTED", "IN_PROGRESS", "EXPIRED", "SWEPT", "ENDED"}
Booking == [status : Status, created : Nat, date : Nat, window : TimeWindow]

\* assertScheduledDateIsValid
ValidDate(date) == ToPhtDay(date) >= ToPhtDay(now) /\ date <= now + MaxAdvance
\* Dates that can pass it: none is more than a day ago.
Dates == {t \in (now - Day)..(now + MaxAdvance) : t >= 0 /\ ValidDate(t)}

\* The sweep runs every hour.  The expiry job runs every minute: of the thirty runs in
\* half an hour the model keeps one, the last, so that AnsweredInTime allows for more.
JobsAt(t) == IF t % 2 = 0 THEN {"expiry", "stale"} ELSE {"expiry"}

ClockInit ==
  /\ now \in Starts
  /\ \E date \in Dates, window \in TimeWindow :
       booking = [status |-> "PENDING", created |-> now, date |-> date, window |-> window]
  /\ report = "none"
  /\ due = {}
  /\ missed = 0
  /\ ended = 0

-----------------------------------------------------------------------------
(* The parties and the administrator.                                      *)

Moves(from, to) ==
  /\ booking.status \in from
  /\ booking' = [booking EXCEPT !.status = to]
  /\ UNCHANGED <<now, report, due, missed, ended>>

Accept == Moves({"PENDING"}, "ACCEPTED")
Start  == Moves({"ACCEPTED"}, "IN_PROGRESS")
End    == Moves({"PENDING", "ACCEPTED", "IN_PROGRESS"}, "ENDED")

\* A date is validated when the request carries one: the window of a booking may be
\* changed after its date has passed.
Update(date, window) ==
  /\ booking.status = "PENDING"
  /\ date = booking.date \/ ValidDate(date)
  /\ booking' = [booking EXCEPT !.date = date, !.window = window]
  /\ UNCHANGED <<now, report, due, missed, ended>>

\* assertNoShowWindowOpen
Report ==
  /\ booking.status \in {"ACCEPTED", "IN_PROGRESS"} /\ report = "none"
  /\ LET end == WindowEnd(booking.date, booking.window) IN now >= end /\ now <= end + Extra
  /\ report' = "pending"
  /\ UNCHANGED <<now, booking, due, missed, ended>>

Dismiss ==
  /\ report = "pending"
  /\ report' = "dismissed"
  /\ UNCHANGED <<now, booking, due, missed, ended>>

-----------------------------------------------------------------------------
(* The jobs.  A run that finds the server down does not happen.            *)

ExpiryRuns ==
  /\ "expiry" \in due
  /\ due' = due \ {"expiry"}
  /\ IF booking.status = "PENDING" /\ booking.created + Expiry < now
     THEN booking' = [booking EXCEPT !.status = "EXPIRED"] /\ ended' = now
     ELSE UNCHANGED <<booking, ended>>
  /\ UNCHANGED <<now, report, missed>>

\* The query's coarse filter on the date, and the precise one on the window.
Late(date, window) == now > WindowEnd(date, window) + Grace
Stale ==
  /\ booking.status = "ACCEPTED" /\ report = "none"
  /\ booking.date < now - Grace
  /\ Late(booking.date, booking.window)

StaleRuns ==
  /\ "stale" \in due
  /\ due' = due \ {"stale"}
  /\ IF Stale
     THEN booking' = [booking EXCEPT !.status = "SWEPT"] /\ ended' = now
     ELSE UNCHANGED <<booking, ended>>
  /\ UNCHANGED <<now, report, missed>>

RunMissed(job) ==
  /\ job \in due /\ missed < MaxMissed
  /\ due' = due \ {job}
  /\ missed' = missed + 1
  /\ UNCHANGED <<now, booking, report, ended>>

\* The clock stops once nothing depends on it any more.
Awaited ==
  /\ report = "none"
  /\ \/ booking.status \in {"PENDING", "ACCEPTED"}
     \/ booking.status = "IN_PROGRESS" /\ now <= WindowEnd(booking.date, booking.window) + Extra

Tick ==
  /\ due = {} /\ Awaited /\ now < MaxTime
  /\ now' = now + 1
  /\ due' = JobsAt(now + 1)
  /\ UNCHANGED <<booking, report, missed, ended>>

-----------------------------------------------------------------------------
Parties ==
  \/ Accept \/ Start \/ End \/ Report \/ Dismiss
  \/ \E date \in Dates \cup {booking.date}, window \in TimeWindow : Update(date, window)
Jobs == ExpiryRuns \/ StaleRuns \/ \E job \in {"expiry", "stale"} : RunMissed(job)

ClockNext == Parties \/ Jobs \/ Tick

ClockSpec == ClockInit /\ [][ClockNext]_clockVars

-----------------------------------------------------------------------------
(* Correctness.                                                            *)

\* The booking, its report and the jobs keep their shape.
ClockTypeOK ==
  /\ now \in Nat
  /\ booking \in Booking
  /\ report \in {"none", "pending", "dismissed"}
  /\ due \subseteq JobsAt(now)
  /\ missed \in 0..MaxMissed
  /\ ended \in Nat

\* An unanswered request is open for half an hour, and until the next run of the job.
AnsweredInTime == booking.status = "PENDING" => now <= booking.created + Expiry + 1 + missed

\* Whatever date and window it was moved to, and whatever the time of day of that date:
\* a booking that nobody starts or reports holds its worker for no more than the days
\* it may be made ahead, 45 hours and the time between two runs of the jobs.
FreesWorker ==
  booking.status = "ACCEPTED" /\ report = "none" =>
    now <= booking.created + MaxAdvance + Expiry + 1 + 42 + Grace + 2 + 3 * missed

\* A booking is swept a day after its window closed in the Philippines - day k there is
\* the one its date falls on - so never while it can still be reported.
SweptAfterGrace ==
  booking.status = "SWEPT" =>
    \A k \in 0..(booking.date + PhtOffset) :
      k * Day <= booking.date + PhtOffset /\ booking.date + PhtOffset < (k + 1) * Day =>
        ended > k * Day - PhtOffset + EndHour[booking.window] + Grace

\* The deadlines of a booking hold on every date, at every time of day, and after runs
\* of the jobs that did not happen (bookings.cron, bookings.constants).
KeepsDeadlines == AnsweredInTime /\ FreesWorker /\ SweptAfterGrace

\* The dates of a booking go through the phases that Bookings takes for granted, and the
\* jobs end it in no other (getTimeWindowEndUtcMs, assertNoShowWindowOpen, bookings.cron).
Standing ==
  [PENDING |-> "asked", ACCEPTED |-> "held", IN_PROGRESS |-> "begun",
   EXPIRED |-> "lapsed", SWEPT |-> "swept", ENDED |-> "over"]
Phase ==
  LET end == WindowEnd(booking.date, booking.window)
  IN  CASE now < end                          -> "before"
        [] now >= end /\ now <= end + Extra   -> "open"
        [] booking.date < now - Grace /\ Late(booking.date, booking.window) -> "stale"
        [] OTHER                              -> "closed"
Phases == INSTANCE BookingPhases WITH
  standing <- Standing[booking.status],
  expired <- booking.created + Expiry < now,
  window <- Phase,
  listed <- FALSE
FollowsPhases == Phases!Spec
=============================================================================
