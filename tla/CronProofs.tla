----------------------------- MODULE CronProofs -----------------------------
(***************************************************************************)
(* Theorems about the two models in which a scheduled job meets time:      *)
(* BookingClock, for every date, every distance a booking may be made      *)
(* ahead and any number of runs that do not happen, and Push, for any      *)
(* number of users, tokens, tickets and faults.  The two share no names.   *)
(***************************************************************************)
EXTENDS BookingClock, Push, FiniteSetTheorems, TLAPS

USE DEF Day, Expiry, PhtOffset, Extra, Grace

(***************************************************************************)
(* The Philippine calendar.                                                *)
(***************************************************************************)

\* Midnight is the last one before the instant (toPhtDayMs).
LEMMA MidnightBefore ==
  ASSUME NEW t \in Nat
  PROVE  /\ ToPhtDay(t) \in Int
         /\ ToPhtDay(t) <= t + 16 /\ t + 16 < ToPhtDay(t) + 48
  BY DEF ToPhtDay

\* It is the midnight of the day that the instant falls on.
LEMMA MidnightOfDay ==
  ASSUME NEW t \in Nat, NEW k \in Nat, k * 48 <= t + 16, t + 16 < (k + 1) * 48
  PROVE  ToPhtDay(t) = k * 48
  BY DEF ToPhtDay

LEMMA EndHourBounds == \A w \in TimeWindow : EndHour[w] \in 0..42
  BY DEF TimeWindow, EndHour

\* A window closes within 42 half hours of any instant of its day
\* (getTimeWindowEndUtcMs).
LEMMA WindowEndBound ==
  ASSUME NEW date \in Nat, NEW w \in TimeWindow
  PROVE  WindowEnd(date, w) \in Int /\ WindowEnd(date, w) <= date + 42
  BY MidnightBefore, EndHourBounds DEF WindowEnd

LEMMA DatesNat == ASSUME now \in Nat, NEW date \in Dates
                  PROVE  date \in Nat /\ now - 48 <= date /\ date <= now + MaxAdvance
  BY TimesAssumption DEF Dates

(***************************************************************************)
(* Types.                                                                  *)
(***************************************************************************)

\* The booking, its report and the jobs keep their shape.
THEOREM TypeCorrect == ClockSpec => []ClockTypeOK
<1>1. ClockInit => ClockTypeOK
  <2> SUFFICES ASSUME ClockInit PROVE ClockTypeOK
    OBVIOUS
  <2>1. now \in Nat
    BY TimesAssumption DEF ClockInit
  <2>2. PICK date \in Dates, window \in TimeWindow :
          booking = [status |-> "PENDING", created |-> now, date |-> date, window |-> window]
    BY DEF ClockInit
  <2>3. date \in Nat
    BY <2>1, DatesNat
  <2> QED
    BY <2>1, <2>2, <2>3, MissedAssumption DEF ClockInit, ClockTypeOK, Booking, Status
<1>2. ClockTypeOK /\ [ClockNext]_clockVars => ClockTypeOK'
  <2> SUFFICES ASSUME ClockTypeOK, [ClockNext]_clockVars PROVE ClockTypeOK'
    OBVIOUS
  <2> USE DEF ClockTypeOK
  <2>1. CASE Accept \/ Start \/ End
    BY <2>1 DEF Accept, Start, End, Moves, Booking, Status
  <2>2. CASE Report \/ Dismiss
    BY <2>2 DEF Report, Dismiss
  <2>3. ASSUME NEW date \in Dates \cup {booking.date}, NEW window \in TimeWindow, Update(date, window)
        PROVE  ClockTypeOK'
    BY <2>3, DatesNat DEF Update, Booking
  <2>4. CASE ExpiryRuns \/ StaleRuns
    BY <2>4 DEF ExpiryRuns, StaleRuns, Booking, Status
  <2>5. ASSUME NEW job \in {"expiry", "stale"}, RunMissed(job) PROVE ClockTypeOK'
    BY <2>5, MissedAssumption DEF RunMissed
  <2>6. CASE Tick
    BY <2>6 DEF Tick
  <2>7. CASE UNCHANGED clockVars
    BY <2>7 DEF clockVars
  <2> QED
    BY <2>1, <2>2, <2>3, <2>4, <2>5, <2>6, <2>7 DEF ClockNext, Parties, Jobs
<1> QED
  BY <1>1, <1>2, PTL DEF ClockSpec

(***************************************************************************)
(* Deadlines.                                                              *)
(***************************************************************************)

\* What the bounds rest on.  A run of a job that is due may still bring the booking
\* back within the bound of the runs already done.
DateBounds ==
  /\ booking.created <= now
  /\ booking.date <= booking.created + MaxAdvance + 2 + missed
  /\ booking.status = "PENDING" => booking.created - 48 <= booking.date

Answered ==
  booking.status = "PENDING" =>
    now <= booking.created + missed + IF "expiry" \in due THEN 2 ELSE 1

Swept ==
  booking.status = "ACCEPTED" /\ report = "none" =>
    now <= booking.date + 90 + 2 * missed +
           (IF "stale" \in due THEN 2 ELSE IF now % 2 = 0 THEN 0 ELSE 1)

IInv == DateBounds /\ Answered /\ Swept /\ SweptAfterGrace

\* A booking that the stale job leaves alone is not yet 45 hours past its date.
LEMMA NotYetStale ==
  ASSUME ClockTypeOK, booking.status = "ACCEPTED", report = "none", ~Stale
  PROVE  now <= booking.date + 90
  BY WindowEndBound DEF ClockTypeOK, Booking, Stale, Late

\* What the stale job sweeps is a day past the end of its window, on the day that its
\* date falls on in the Philippines.
LEMMA SweptIsStale ==
  ASSUME ClockTypeOK, Stale, NEW k \in Nat,
         k * 48 <= booking.date + 16, booking.date + 16 < (k + 1) * 48
  PROVE  now > k * 48 - 16 + EndHour[booking.window] + 48
  BY MidnightOfDay DEF ClockTypeOK, Booking, Stale, Late, WindowEnd

LEMMA IInvInit == ASSUME ClockInit PROVE IInv
<1>1. now \in Nat
  BY TimesAssumption DEF ClockInit
<1>2. PICK date \in Dates, window \in TimeWindow :
        booking = [status |-> "PENDING", created |-> now, date |-> date, window |-> window]
  BY DEF ClockInit
<1>3. date \in Nat /\ now - 48 <= date /\ date <= now + MaxAdvance
  BY <1>1, DatesNat
<1>4. MaxAdvance \in Nat
  BY TimesAssumption
<1> QED
  BY <1>1, <1>2, <1>3, <1>4 DEF ClockInit, IInv, DateBounds, Answered, Swept, SweptAfterGrace

LEMMA IInvStep ==
  ASSUME ClockTypeOK, ClockTypeOK', IInv, [ClockNext]_clockVars
  PROVE  IInv'
<1> USE TimesAssumption DEF ClockTypeOK, Booking, IInv
<1>1. CASE Accept
  <2>1. booking.status = "PENDING" /\ booking' = [booking EXCEPT !.status = "ACCEPTED"]
        /\ UNCHANGED <<now, report, due, missed, ended>>
    BY <1>1 DEF Accept, Moves
  <2>2. now <= booking.date + 50 + missed
    BY <2>1 DEF DateBounds, Answered
  <2> QED
    BY <2>1, <2>2 DEF DateBounds, Answered, Swept, SweptAfterGrace
<1>2. CASE Start \/ End
  <2>1. booking'.status \in {"IN_PROGRESS", "ENDED"} /\ booking'.created = booking.created
        /\ booking'.date = booking.date /\ UNCHANGED <<now, report, due, missed, ended>>
    BY <1>2 DEF Start, End, Moves
  <2> QED
    BY <2>1 DEF DateBounds, Answered, Swept, SweptAfterGrace
<1>3. CASE Report \/ Dismiss
  BY <1>3 DEF Report, Dismiss, DateBounds, Answered, Swept, SweptAfterGrace
<1>4. ASSUME NEW date \in Dates \cup {booking.date}, NEW window \in TimeWindow, Update(date, window)
      PROVE  IInv'
  <2>1. date = booking.date \/ (date \in Nat /\ now - 48 <= date /\ date <= now + MaxAdvance)
    BY DatesNat
  <2>2. booking.status = "PENDING" /\ booking'.status = "PENDING" /\ booking'.date = date
        /\ booking'.created = booking.created /\ UNCHANGED <<now, report, due, missed, ended>>
    BY <1>4 DEF Update
  <2> QED
    BY <2>1, <2>2 DEF DateBounds, Answered, Swept, SweptAfterGrace
<1>5. CASE ExpiryRuns
  <2>1. CASE booking.status = "PENDING" /\ booking.created + Expiry < now
    BY <1>5, <2>1 DEF ExpiryRuns, DateBounds, Answered, Swept, SweptAfterGrace
  <2>2. CASE ~(booking.status = "PENDING" /\ booking.created + Expiry < now)
    BY <1>5, <2>2 DEF ExpiryRuns, DateBounds, Answered, Swept, SweptAfterGrace
  <2> QED
    BY <2>1, <2>2
<1>6. CASE StaleRuns
  <2>1. CASE Stale
    <3>1. booking'.status = "SWEPT" /\ ended' = now /\ booking'.created = booking.created
          /\ booking'.date = booking.date /\ booking'.window = booking.window
          /\ UNCHANGED <<now, report, missed>>
      BY <1>6, <2>1 DEF StaleRuns
    <3>2. SweptAfterGrace'
      BY <2>1, <3>1, SweptIsStale DEF SweptAfterGrace
    <3> QED
      BY <3>1, <3>2 DEF DateBounds, Answered, Swept
  <2>2. CASE ~Stale
    <3>1. UNCHANGED <<now, booking, report, missed, ended>> /\ due' = due \ {"stale"}
      BY <1>6, <2>2 DEF StaleRuns
    <3>2. Swept'
      BY <2>2, <3>1, NotYetStale DEF Swept
    <3> QED
      BY <3>1, <3>2 DEF DateBounds, Answered, SweptAfterGrace
  <2> QED
    BY <2>1, <2>2
<1>7. ASSUME NEW job \in {"expiry", "stale"}, RunMissed(job) PROVE IInv'
  <2>1. job \in due /\ due' = due \ {job} /\ missed' = missed + 1
        /\ UNCHANGED <<now, booking, report, ended>>
    BY <1>7 DEF RunMissed
  <2>2. "stale" \in due => now % 2 = 0
    BY DEF JobsAt
  <2> QED
    BY <2>1, <2>2 DEF DateBounds, Answered, Swept, SweptAfterGrace
<1>8. CASE Tick
  <2>1. due = {} /\ now' = now + 1 /\ due' = JobsAt(now + 1)
        /\ UNCHANGED <<booking, report, missed, ended>>
    BY <1>8 DEF Tick
  <2>2. "expiry" \in due' /\ ("stale" \in due' <=> now' % 2 = 0)
    BY <2>1 DEF JobsAt
  <2>3. now % 2 = 0 => now' % 2 # 0
    BY <2>1
  <2>4. DateBounds' /\ Answered' /\ SweptAfterGrace'
    BY <2>1, <2>2 DEF DateBounds, Answered, SweptAfterGrace
  <2>5. Swept'
    BY <2>1, <2>2, <2>3 DEF Swept
  <2> QED
    BY <2>4, <2>5
<1>9. CASE UNCHANGED clockVars
  BY <1>9 DEF clockVars, DateBounds, Answered, Swept, SweptAfterGrace
<1> QED
  BY <1>1, <1>2, <1>3, <1>4, <1>5, <1>6, <1>7, <1>8, <1>9 DEF ClockNext, Parties, Jobs

\* The deadlines of a booking hold, and the bound on what an unattended booking costs
\* its worker follows from its date being bounded by its creation.
THEOREM DeadlinesKept == ClockSpec => []KeepsDeadlines
<1>1. ClockInit => IInv
  BY IInvInit
<1>2. ClockTypeOK /\ ClockTypeOK' /\ IInv /\ [ClockNext]_clockVars => IInv'
  BY IInvStep
<1>3. ClockTypeOK /\ IInv => KeepsDeadlines
  BY TimesAssumption DEF ClockTypeOK, Booking, IInv, DateBounds, Answered, Swept,
     KeepsDeadlines, AnsweredInTime, FreesWorker
<1> QED
  BY <1>1, <1>2, <1>3, TypeCorrect, PTL DEF ClockSpec

(***************************************************************************)
(* The phases of a window in Bookings.                                     *)
(***************************************************************************)

EarliestEnd == 24

LEMMA EndsAfterNoon == \A w \in TimeWindow : EarliestEnd <= EndHour[w]
  BY DEF EarliestEnd, TimeWindow, EndHour

\* What Bookings takes for granted about its phases: a booking that has become stale is
\* past its half hour for an answer (WindowAdvances), and no date that can be asked for
\* is stale at once (CreateInserts chooses none, Update only from a closed window).
PhasesInOrder ==
  /\ Late(booking.date, booking.window) => booking.created + Expiry < now
  /\ \A date \in Dates, window \in TimeWindow : ~Late(date, window)

\* The day of the booking does not end before it is made.
CreatedBefore ==
  /\ booking.created <= now
  /\ booking.created < ToPhtDay(booking.date) + Day - PhtOffset

\* A date that can be asked for falls on no day that is over.
LEMMA DayNotOver ==
  ASSUME now \in Nat, NEW date \in Dates
  PROVE  now < ToPhtDay(date) + 32 /\ ToPhtDay(date) \in Int
<1>1. date \in Nat /\ ToPhtDay(date) >= ToPhtDay(now)
  BY DatesNat DEF Dates, ValidDate
<1>2. ToPhtDay(now) \in Int /\ now + 16 < ToPhtDay(now) + 48 /\ ToPhtDay(date) \in Int
  BY <1>1, MidnightBefore
<1> QED BY <1>1, <1>2

\* The phases of a booking follow each other as Bookings has them, for every date, window
\* and instant (assertScheduledDateIsValid, cancelStaleAcceptedBookings).
THEOREM PhasesFollow == ClockSpec => []PhasesInOrder
<1>1. ClockInit => CreatedBefore
  <2> SUFFICES ASSUME ClockInit PROVE CreatedBefore
    OBVIOUS
  <2>1. now \in Nat
    BY TimesAssumption DEF ClockInit
  <2>2. PICK date \in Dates, window \in TimeWindow :
          booking = [status |-> "PENDING", created |-> now, date |-> date, window |-> window]
    BY DEF ClockInit
  <2>3. now < ToPhtDay(date) + 32
    BY <2>1, DayNotOver
  <2> QED BY <2>1, <2>2, <2>3 DEF CreatedBefore
<1>2. ClockTypeOK /\ CreatedBefore /\ [ClockNext]_clockVars => CreatedBefore'
  <2> SUFFICES ASSUME ClockTypeOK, CreatedBefore, [ClockNext]_clockVars PROVE CreatedBefore'
    OBVIOUS
  <2>0. now \in Nat /\ booking \in Booking /\ booking.created \in Nat
    BY DEF ClockTypeOK, Booking
  <2>1. ASSUME NEW date \in Dates \cup {booking.date}, NEW window \in TimeWindow, Update(date, window)
        PROVE  CreatedBefore'
    <3>1. /\ booking'.created = booking.created /\ booking'.date = date
          /\ UNCHANGED now
      BY <2>0, <2>1 DEF Update, Booking
    <3>2. booking.created <= now /\ booking.created < ToPhtDay(booking.date) + 32
      BY DEF CreatedBefore
    <3>3. ASSUME date \in Dates PROVE booking.created < ToPhtDay(date) + 32
      <4>1. now < ToPhtDay(date) + 32 /\ ToPhtDay(date) \in Int
        BY <2>0, <3>3, DayNotOver
      <4> QED BY <2>0, <3>2, <4>1
    <3>4. ToPhtDay(booking'.date) = ToPhtDay(date)
      BY <3>1
    <3>5. booking.created < ToPhtDay(date) + 32
      BY <2>1, <3>2, <3>3
    <3> QED BY <3>1, <3>2, <3>4, <3>5 DEF CreatedBefore, ToPhtDay
  <2>2. CASE /\ now' \in {now, now + 1}
             /\ booking'.created = booking.created /\ booking'.date = booking.date
    BY <2>0, <2>2 DEF CreatedBefore, ToPhtDay
  <2>3. CASE \/ Accept \/ Start \/ End \/ Report \/ Dismiss \/ Jobs \/ Tick \/ UNCHANGED clockVars
    BY <2>0, <2>2, <2>3
       DEF Accept, Start, End, Moves, Report, Dismiss, Jobs, ExpiryRuns, StaleRuns, RunMissed,
           Tick, clockVars, Booking
  <2> QED BY <2>1, <2>3 DEF ClockNext, Parties
<1>3. ClockTypeOK /\ CreatedBefore => PhasesInOrder
  <2> SUFFICES ASSUME ClockTypeOK, CreatedBefore PROVE PhasesInOrder
    OBVIOUS
  <2>0. /\ now \in Nat /\ booking.created \in Nat /\ booking.date \in Nat
        /\ booking.window \in TimeWindow
    BY DEF ClockTypeOK, Booking
  <2>1. ASSUME NEW date \in Nat, NEW window \in TimeWindow, Late(date, window)
        PROVE  ToPhtDay(date) + 56 < now /\ ToPhtDay(date) \in Int
    <3>1. ToPhtDay(date) \in Int /\ EndHour[window] \in 0..42 /\ 24 <= EndHour[window]
      BY MidnightBefore, EndHourBounds, EndsAfterNoon DEF EarliestEnd
    <3> QED BY <2>0, <2>1, <3>1 DEF Late, WindowEnd
  <2>2. Late(booking.date, booking.window) => booking.created + Expiry < now
    BY <2>0, <2>1 DEF CreatedBefore
  <2>3. ASSUME NEW date \in Dates, NEW window \in TimeWindow PROVE ~Late(date, window)
    BY <2>0, <2>1, DatesNat, DayNotOver
  <2> QED BY <2>2, <2>3 DEF PhasesInOrder
<1> QED BY <1>1, <1>2, <1>3, TypeCorrect, PTL DEF ClockSpec

(***************************************************************************)
(* The phases of a booking that both models implement.                     *)
(***************************************************************************)

\* What each phase says of the time.
PhaseTimes ==
  LET end == WindowEnd(booking.date, booking.window)
  IN  /\ end \in Int
      /\ Phase = "before" <=> now < end
      /\ Phase = "open" <=> end <= now /\ now <= end + 4
      /\ Phase = "stale" <=> booking.date < now - 48 /\ now > end + 48
      /\ Phase \in {"before", "open", "closed", "stale"}

LEMMA PhaseIs == ClockTypeOK => PhaseTimes
<1> SUFFICES ASSUME ClockTypeOK PROVE PhaseTimes
  OBVIOUS
<1>1. booking.date \in Nat /\ booking.window \in TimeWindow /\ now \in Nat
  BY DEF ClockTypeOK, Booking
<1>2. WindowEnd(booking.date, booking.window) \in Int
  BY <1>1, WindowEndBound
<1> QED BY <1>1, <1>2 DEF Phase, PhaseTimes, Late

LEMMA PhaseMoves ==
  ASSUME ClockTypeOK, PhaseTimes, PhaseTimes', booking' = booking, now' = now + 1
  PROVE  Phase' \in {Phase, Phases!Later[Phase]}
<1> DEFINE end == WindowEnd(booking.date, booking.window)
<1>1. end' = end /\ end \in Int /\ now \in Nat /\ booking.date \in Nat
  BY DEF WindowEnd, ToPhtDay, ClockTypeOK, Booking, PhaseTimes
<1>2. /\ Phase = "before" <=> now < end
      /\ Phase = "open" <=> end <= now /\ now <= end + 4
      /\ Phase = "stale" <=> booking.date < now - 48 /\ now > end + 48
      /\ Phase \in {"before", "open", "closed", "stale"}
  BY DEF PhaseTimes
<1>3. /\ Phase' = "before" <=> now + 1 < end
      /\ Phase' = "open" <=> end <= now + 1 /\ now + 1 <= end + 4
      /\ Phase' = "stale" <=> booking.date < now + 1 - 48 /\ now + 1 > end + 48
      /\ Phase' \in {"before", "open", "closed", "stale"}
  <2>1. /\ Phase' = "before" <=> now' < end'
        /\ Phase' = "open" <=> end' <= now' /\ now' <= end' + 4
        /\ Phase' = "stale" <=> booking'.date < now' - 48 /\ now' > end' + 48
        /\ Phase' \in {"before", "open", "closed", "stale"}
    BY DEF PhaseTimes
  <2> HIDE DEF end
  <2> QED BY <1>1, <2>1
<1> HIDE DEF end
<1>4. /\ Phases!Later["before"] = "open" /\ Phases!Later["open"] = "closed"
      /\ Phases!Later["closed"] = "stale" /\ Phases!Later["stale"] = "stale"
  BY DEF Phases!Later
<1>5. CASE Phase = "before"
  BY <1>1, <1>2, <1>3, <1>4, <1>5
<1>6. CASE Phase = "open"
  BY <1>1, <1>2, <1>3, <1>4, <1>6
<1>7. CASE Phase = "closed"
  BY <1>1, <1>2, <1>3, <1>4, <1>7
<1>8. CASE Phase = "stale"
  BY <1>1, <1>2, <1>3, <1>4, <1>8
<1> QED BY <1>2, <1>5, <1>6, <1>7, <1>8

\* No booking is made for a time that is stale, or moved to another date that is.
LEMMA FreshPhase ==
  ASSUME PhaseTimes, PhasesInOrder, booking.date \in Dates, booking.window \in TimeWindow
  PROVE  Phase \in Phases!Fresh
BY DEF PhaseTimes, PhasesInOrder, Phases!Fresh, Late

Expired == booking.created + Expiry < now

\* The windows of one day end within nine hours.
LEMMA WindowsOfOneDay ==
  ASSUME NEW date \in Nat, NEW v \in TimeWindow, NEW w \in TimeWindow
  PROVE  WindowEnd(date, v) <= WindowEnd(date, w) + 18
<1>1. /\ EndHour[v] \in 0..42 /\ 24 <= EndHour[v]
      /\ EndHour[w] \in 0..42 /\ 24 <= EndHour[w]
  BY EndHourBounds, EndsAfterNoon DEF EarliestEnd
<1>2. EndHour[v] <= EndHour[w] + 18
  BY <1>1
<1>3. PICK midnight \in Int : midnight = ToPhtDay(date) - PhtOffset
  BY MidnightBefore DEF PhtOffset
<1>4. WindowEnd(date, v) = midnight + EndHour[v] /\ WindowEnd(date, w) = midnight + EndHour[w]
  BY <1>3 DEF WindowEnd
<1> QED BY <1>1, <1>2, <1>3, <1>4

\* So a booking that is moved to another window of its day becomes stale only if its
\* window had closed.
LEMMA OtherWindow ==
  ASSUME ClockTypeOK, PhaseTimes, PhaseTimes', now' = now, booking'.date = booking.date,
         booking'.window \in TimeWindow
  PROVE  Phase' \in Phases!Fresh \cup {Phases!Later[Phase]}
<1>0. now \in Nat /\ booking.date \in Nat /\ booking.window \in TimeWindow
  BY DEF ClockTypeOK, Booking
<1>1. PICK end \in Int :
        /\ end = WindowEnd(booking.date, booking.window)
        /\ Phase = "before" <=> now < end
        /\ Phase = "open" <=> end <= now /\ now <= end + 4
        /\ Phase \in {"before", "open", "closed", "stale"}
  BY DEF PhaseTimes
<1>2. PICK then \in Int :
        /\ then = WindowEnd(booking'.date, booking'.window)
        /\ Phase' = "stale" <=> booking'.date < now' - 48 /\ now' > then + 48
        /\ Phase' \in {"before", "open", "closed", "stale"}
  BY DEF PhaseTimes
<1>3. end <= then + 18
  BY <1>0, <1>1, <1>2, WindowsOfOneDay
<1>4. Phase' = "stale" => Phase \in {"closed", "stale"}
  BY <1>0, <1>1, <1>2, <1>3
<1> QED BY <1>2, <1>4 DEF Phases!Fresh, Phases!Later

LEMMA ClockFollowsPhases ==
  ASSUME ClockTypeOK, ClockTypeOK', PhaseTimes, PhaseTimes', PhasesInOrder, PhasesInOrder',
         [ClockNext]_clockVars
  PROVE  [Phases!Next]_(Phases!vars)
<1>0. booking \in Booking /\ now \in Nat /\ booking.created \in Nat
  BY DEF ClockTypeOK, Booking
<1>1. ASSUME now' = now, booking'.date = booking.date, booking'.window = booking.window
      PROVE  Phase' = Phase
  BY <1>1 DEF Phase, Late, WindowEnd, ToPhtDay
<1>2. ASSUME NEW to, booking' = [booking EXCEPT !.status = to], now' = now
      PROVE  /\ booking'.status = to /\ Expired' = Expired /\ Phase' = Phase
             /\ booking'.created = booking.created
  BY <1>0, <1>1, <1>2 DEF Booking, Expired
<1>3. CASE Accept
  <2>1. Phases!Agree
    BY <1>2, <1>3 DEF Accept, Moves, Phases!Agree, Phases!Move, Standing
  <2> QED BY <2>1 DEF Phases!Next
<1>4. CASE Start
  <2>1. Phases!Begin
    BY <1>2, <1>4 DEF Start, Moves, Phases!Begin, Phases!Move, Standing
  <2> QED BY <2>1 DEF Phases!Next
<1>5. CASE End
  <2>1. Phases!End
    BY <1>2, <1>5 DEF End, Moves, Phases!End, Phases!Move, Phases!Current, Standing
  <2> QED BY <2>1 DEF Phases!Next
<1>6. ASSUME NEW date \in Dates \cup {booking.date}, NEW window \in TimeWindow, Update(date, window)
      PROVE  [Phases!Next]_(Phases!vars)
  <2>1. /\ booking'.date = date /\ booking'.window = window /\ now' = now
        /\ booking'.status = booking.status /\ booking'.created = booking.created
        /\ booking.status = "PENDING"
    BY <1>0, <1>6 DEF Update, Booking
  <2>2. Phase' \in Phases!Fresh \cup {Phases!Later[Phase]}
    <3>1. CASE date \in Dates
      <4>1. ~(now' > WindowEnd(booking'.date, booking'.window) + 48)
        BY <2>1, <3>1 DEF PhasesInOrder, Late
      <4> QED BY <4>1 DEF PhaseTimes, Phases!Fresh
    <3>2. CASE date = booking.date
      BY <2>1, <3>2, OtherWindow
    <3> QED BY <1>6, <3>1, <3>2
  <2>3. Expired' = Expired /\ (Phase' = "stale" => Expired)
    <3>1. Phase' = "stale" => Expired'
      BY DEF PhaseTimes, PhasesInOrder, Late, Expired
    <3>2. Expired' = Expired
      BY <2>1 DEF Expired
    <3> QED BY <3>1, <3>2
  <2>4. Phases!Reschedule
    BY <2>1, <2>2, <2>3 DEF Phases!Reschedule, Standing, Expired
  <2> QED BY <2>4 DEF Phases!Next
<1>7. CASE UNCHANGED <<now, booking>>
  BY <1>1, <1>7 DEF Phases!vars
<1>8. CASE ExpiryRuns
  <2>1. CASE booking.status = "PENDING" /\ booking.created + Expiry < now
    <3>1. booking' = [booking EXCEPT !.status = "EXPIRED"] /\ now' = now
      BY <1>8, <2>1 DEF ExpiryRuns
    <3>2. Phases!Lapse
      BY <1>2, <2>1, <3>1 DEF Phases!Lapse, Phases!Move, Standing, Expired
    <3> QED BY <3>2 DEF Phases!Next
  <2>2. CASE ~(booking.status = "PENDING" /\ booking.created + Expiry < now)
    BY <1>7, <1>8, <2>2 DEF ExpiryRuns
  <2> QED BY <2>1, <2>2
<1>9. CASE StaleRuns
  <2>1. CASE Stale
    <3>1. booking' = [booking EXCEPT !.status = "SWEPT"] /\ now' = now
      BY <1>9, <2>1 DEF StaleRuns
    <3>2. Phase = "stale" /\ booking.status = "ACCEPTED"
      BY <2>1 DEF Stale, Late, PhaseTimes
    <3>3. Phases!Sweep
      BY <1>2, <3>1, <3>2 DEF Phases!Sweep, Phases!Move, Standing, Expired
    <3> QED BY <3>3 DEF Phases!Next
  <2>2. CASE ~Stale
    BY <1>7, <1>9, <2>2 DEF StaleRuns
  <2> QED BY <2>1, <2>2
<1>10. CASE Tick
  <2>1. booking' = booking /\ now' = now + 1
    BY <1>10 DEF Tick
  <2>2. Standing[booking.status] \in Phases!Current
    BY <1>10 DEF Tick, Awaited, Standing, Phases!Current
  <2>3. Phase' \in {Phase, Phases!Later[Phase]}
    BY <2>1, PhaseMoves
  <2>4. Expired' \in {Expired, TRUE}
    <3>1. Expired \in BOOLEAN /\ Expired' \in BOOLEAN
      BY DEF Expired
    <3>2. Expired => Expired'
      BY <1>0, <2>1 DEF Expired
    <3> QED BY <3>1, <3>2, Zenon
  <2>5. Phase' = "stale" => Expired'
    BY DEF PhaseTimes, PhasesInOrder, Late, Expired
  <2>6. Phases!Pass
    BY <2>1, <2>2, <2>3, <2>4, <2>5 DEF Phases!Pass, Expired
  <2> QED BY <2>6 DEF Phases!Next
<1>11. CASE Report \/ Dismiss \/ (\E job \in {"expiry", "stale"} : RunMissed(job))
            \/ UNCHANGED clockVars
  BY <1>7, <1>11 DEF Report, Dismiss, RunMissed, clockVars
<1> QED
  BY <1>3, <1>4, <1>5, <1>6, <1>8, <1>9, <1>10, <1>11 DEF ClockNext, Parties, Jobs

\* The deadlines computed from dates, windows and Philippine midnights go through the
\* phases of BookingPhases, which Bookings goes through as well: what is shown there of
\* races between requests and jobs holds at these times (bookings.constants, bookings.cron).
THEOREM ClockKeepsPhases == ClockSpec => FollowsPhases
<1>1. ClockInit /\ ClockTypeOK /\ PhaseTimes /\ PhasesInOrder => Phases!Init
  <2> SUFFICES ASSUME ClockInit, ClockTypeOK, PhaseTimes, PhasesInOrder PROVE Phases!Init
    OBVIOUS
  <2>1. /\ booking.status = "PENDING" /\ booking.created = now
        /\ booking.date \in Dates /\ booking.window \in TimeWindow
    BY DEF ClockInit
  <2>2. Phase \in Phases!Fresh
    BY <2>1, FreshPhase
  <2>3. (booking.created + Expiry < now) = FALSE
    BY <2>1 DEF ClockTypeOK
  <2> QED BY <2>1, <2>2, <2>3 DEF Phases!Init, Standing
<1>2. /\ ClockTypeOK /\ ClockTypeOK' /\ PhaseTimes /\ PhaseTimes'
      /\ PhasesInOrder /\ PhasesInOrder' /\ [ClockNext]_clockVars
      => [Phases!Next]_(Phases!vars)
  BY ClockFollowsPhases
<1> QED
  BY <1>1, <1>2, PhaseIs, TypeCorrect, PhasesFollow, PTL DEF ClockSpec, FollowsPhases, Phases!Spec

(***************************************************************************)
(* Push: tokens, tickets and receipts.                                     *)
(***************************************************************************)

LEMMA BatchBounded ==
  ASSUME NEW stored \in SUBSET Tickets, NEW batch \in SUBSET stored,
         Cardinality(batch) = IF Cardinality(stored) < Batch THEN Cardinality(stored) ELSE Batch
  PROVE  Cardinality(batch) <= Batch
<1>1. Cardinality(stored) \in Nat
  BY FS_Subset, FS_CardinalityType, TicketsAssumption
<1> QED BY <1>1, BatchAssumption

LEMMA TypedMessages ==
  ASSUME TypeOK, [Next]_vars
  PROVE  TypeOK'
<1> USE BatchAssumption
<1>0. /\ owner \in [Tokens -> Users \cup {NoUser}] /\ device \in [Tokens -> BOOLEAN]
      /\ ticket \in [Tickets -> TicketRow] /\ req \in [Slots -> Request]
      /\ cron \in Job /\ Cardinality(cron.batch) <= Batch
      /\ cron.got \cup cron.resolved \subseteq cron.batch
  BY DEF TypeOK
<1>n. faults \in 0..MaxFaults
  BY DEF TypeOK
<1>f. ASSUME Fault PROVE faults' \in 0..MaxFaults
  BY <1>n, <1>f DEF Fault
<1>i. Idle \in Request /\ NoTicket \in TicketRow
  BY DEF Idle, Request, NoTicket, TicketRow
<1>j. /\ JobIdle \in Job /\ Cardinality(JobIdle.batch) <= Batch
      /\ JobIdle.got \cup JobIdle.resolved \subseteq JobIdle.batch
  BY FS_EmptySet DEF JobIdle, Job
<1>1. ASSUME NEW s \in Slots, Registers(s) PROVE TypeOK'
  <2>1. req[s].user \in Users \cup {NoUser}
    BY <1>0 DEF Request
  <2> QED BY <1>0, <1>n, <1>1, <1>i, <2>1 DEF Registers, TypeOK
<1>2. ASSUME NEW s \in Slots, Expo(s) PROVE TypeOK'
  <2>1. PICK tok \in [Tickets -> Tokens \cup {NoToken}], dead \in SUBSET req[s].to :
          LET used == {k \in Tickets : tok[k] # NoToken}
          IN  /\ used \subseteq Unused
              /\ \A k \in used : tok[k] \in req[s].to \ dead
              /\ ticket' = [k \in Tickets |->
                   IF k \in used
                   THEN [NoTicket EXCEPT !.token = tok[k], !.reached = device[tok[k]]]
                   ELSE ticket[k]]
              /\ req' = [req EXCEPT ![s].to = {}, ![s].dead = dead, ![s].taken = used]
    BY <1>2 DEF Expo
  <2>2. req[s].to \subseteq Tokens
    BY <1>0 DEF Request
  <2>3. ticket' \in [Tickets -> TicketRow]
    <3>1. ASSUME NEW k \in Tickets PROVE ticket'[k] \in TicketRow
      <4>1. CASE tok[k] # NoToken
        <5>1. tok[k] \in Tokens /\ device[tok[k]] \in BOOLEAN
          BY <1>0, <2>1, <2>2, <4>1
        <5>2. ticket'[k] = [NoTicket EXCEPT !.token = tok[k], !.reached = device[tok[k]]]
          BY <2>1, <4>1
        <5> QED BY <5>1, <5>2 DEF NoTicket, TicketRow
      <4>2. CASE tok[k] = NoToken
        BY <1>0, <2>1, <4>2
      <4> QED BY <4>1, <4>2
    <3> QED BY <2>1, <3>1
  <2>4. req' \in [Slots -> Request]
    <3>1. \A r \in Request : \A d \in SUBSET Tokens, u \in SUBSET Tickets :
            [r EXCEPT !.to = {}, !.dead = d, !.taken = u] \in Request
      BY DEF Request
    <3>2. dead \in SUBSET Tokens /\ {k \in Tickets : tok[k] # NoToken} \in SUBSET Tickets
      BY <2>2
    <3>3. req' = [req EXCEPT ![s] = [req[s] EXCEPT !.to = {}, !.dead = dead,
                                       !.taken = {k \in Tickets : tok[k] # NoToken}]]
      BY <1>0, <2>1
    <3> QED BY <1>0, <3>1, <3>2, <3>3
  <2> QED BY <1>0, <1>n, <1>2, <2>3, <2>4 DEF Expo, TypeOK
<1>3. ASSUME NEW s \in Slots, SendStores(s) PROVE TypeOK'
  BY <1>0, <1>n, <1>3, <1>i
     DEF SendStores, TypeOK, TicketRow
<1>4. ASSUME NEW s \in Slots, NEW t \in Tokens,
             SendDrops(s, t) \/ SendDropFails(s, t)
      PROVE  TypeOK'
  <2>1. \A r \in Request : [r EXCEPT !.dead = r.dead \ {t}] \in Request
    BY DEF Request
  <2>2. req' = [req EXCEPT ![s] = [req[s] EXCEPT !.dead = req[s].dead \ {t}]]
    BY <1>4 DEF SendDrops, SendDropFails
  <2>3. req' \in [Slots -> Request]
    BY <1>0, <2>1, <2>2
  <2> QED
    BY <1>0, <1>n, <1>4, <1>f, <2>3
       DEF SendDrops, SendDropFails, DropRow, TypeOK
<1>5. ASSUME NEW s \in Slots, NEW u \in Users, SendArrives(s, u) PROVE TypeOK'
  <2>1. \A to \in SUBSET Tokens :
          [Idle EXCEPT !.op = "send", !.user = u, !.to = to] \in Request
    BY DEF Idle, Request
  <2> QED BY <1>0, <1>n, <1>5, <2>1 DEF SendArrives, TypeOK
<1>6. ASSUME NEW u \in Users, NEW t \in Tokens, AppStarts(u, t) PROVE TypeOK'
  <2>1. [Idle EXCEPT !.op = "register", !.user = u, !.to = {t}] \in Request
    BY DEF Idle, Request
  <2> QED
    BY <1>0, <1>n, <1>6, <2>1
       DEF AppStarts, RegisterArrives, TypeOK
<1>7. ASSUME NEW u \in Users, NEW t \in Tokens, RemoveToken(u, t) PROVE TypeOK'
  BY <1>0, <1>n, <1>7 DEF RemoveToken, DropRow, TypeOK
<1>8. CASE Finds
  <2>1. PICK batch \in SUBSET Stored :
          /\ Cardinality(batch) = IF Cardinality(Stored) < Batch
                                  THEN Cardinality(Stored) ELSE Batch
          /\ cron' = [JobIdle EXCEPT
                        !.step = IF batch = {} THEN "age" ELSE "fetch", !.batch = batch,
                        !.aged = {k \in Tickets : ticket[k].old}]
    BY <1>8 DEF Finds
  <2>2. Stored \in SUBSET Tickets
    BY DEF Stored
  <2>3. Cardinality(batch) <= Batch
    BY <2>1, <2>2, BatchBounded
  <2>4. cron' \in Job /\ cron'.batch = batch /\ cron'.got = {} /\ cron'.resolved = {}
    BY <2>1, <2>2 DEF JobIdle, Job
  <2> QED BY <1>0, <1>n, <1>8, <2>3, <2>4 DEF Finds, TypeOK
<1>9. CASE Fetches
  <2>1. PICK got \in SUBSET cron.batch : cron' = [cron EXCEPT !.step = "handle", !.got = got]
    BY <1>9 DEF Fetches
  <2>2. /\ cron' \in Job /\ cron'.batch = cron.batch /\ cron'.got = got
        /\ cron'.resolved = cron.resolved
    BY <1>0, <2>1 DEF Job
  <2> QED BY <1>0, <1>n, <1>9, <2>2 DEF Fetches, TypeOK
<1>10. ASSUME NEW k \in Tickets, Handles(k) \/ DropFails(k)
       PROVE  TypeOK'
  <2>1. cron' = [cron EXCEPT !.got = @ \ {k}, !.resolved = @ \cup {k}] /\ k \in cron.got
    BY <1>10 DEF Handles, DropFails
  <2>2. /\ cron' \in Job /\ cron'.batch = cron.batch /\ cron'.got = cron.got \ {k}
        /\ cron'.resolved = cron.resolved \cup {k}
    BY <1>0, <2>1 DEF Job
  <2>3. Cardinality(cron'.batch) <= Batch /\ cron'.got \cup cron'.resolved \subseteq cron'.batch
    BY <1>0, <2>1, <2>2
  <2> QED
    BY <1>0, <1>n, <1>10, <1>f, <2>2, <2>3
       DEF Handles, DropFails, DropRow, TypeOK
<1>11. CASE Resolves \/ FetchFails
  <2>1. ticket' \in [Tickets -> TicketRow]
    BY <1>0, <1>11, <1>i DEF Resolves, FetchFails, Deleted
  <2>2. /\ cron' \in Job /\ cron'.batch = cron.batch /\ cron'.got = cron.got
        /\ cron'.resolved = cron.resolved
    BY <1>0, <1>11 DEF Resolves, FetchFails, Job
  <2> QED
    BY <1>0, <1>n, <1>11, <1>f, <2>1, <2>2
       DEF Resolves, FetchFails, TypeOK
<1>12. CASE Ages
  <2>1. ticket' \in [Tickets -> TicketRow]
    BY <1>0, <1>12, <1>i DEF Ages, Deleted
  <2> QED BY <1>0, <1>n, <1>12, <1>j, <2>1 DEF Ages, TypeOK
<1>13. CASE Crash
  <2>1. req' \in [Slots -> Request]
    BY <1>13, <1>i DEF Crash
  <2> QED
    BY <1>0, <1>n, <1>13, <1>f, <1>j, <2>1 DEF Crash, TypeOK
<1>17. ASSUME NEW s \in Slots, SendFails(s) PROVE TypeOK'
  BY <1>0, <1>n, <1>17, <1>f, <1>i DEF SendFails, TypeOK
<1>14. ASSUME NEW t \in Tokens, DeviceGone(t) \/ DeviceBack(t)
       PROVE  TypeOK'
  BY <1>0, <1>n, <1>14
     DEF DeviceGone, DeviceBack, TypeOK
<1>15. ASSUME NEW k \in Tickets, DayPasses(k) PROVE TypeOK'
  <2>1. \A r \in TicketRow : [r EXCEPT !.old = TRUE] \in TicketRow
    BY DEF TicketRow
  <2> QED BY <1>0, <1>n, <1>15, <2>1 DEF DayPasses, TypeOK
<1>16. CASE UNCHANGED vars
  BY <1>16, <1>0, <1>n DEF vars, TypeOK
<1> QED
  BY <1>1, <1>2, <1>3, <1>4, <1>5, <1>6, <1>7, <1>8, <1>9, <1>10, <1>11, <1>12, <1>13,
     <1>14, <1>15, <1>16, <1>17
     DEF Next, Handle, Receipts, Failures

\* Tokens, tickets, requests and the job keep their shape, and a run of the job never has
\* more than its batch in hand (checkPushReceipts).
THEOREM MessagesTypeCorrect == Spec => []TypeOK
<1>1. Init => TypeOK
  <2> SUFFICES ASSUME Init PROVE TypeOK
    OBVIOUS
  <2>1. /\ owner \in [Tokens -> Users \cup {NoUser}] /\ device \in [Tokens -> BOOLEAN]
        /\ ticket \in [Tickets -> TicketRow] /\ req \in [Slots -> Request]
    BY DEF Init, NoTicket, TicketRow, Idle, Request
  <2>2. /\ cron \in Job /\ cron.batch = {} /\ cron.got = {} /\ cron.resolved = {}
    BY DEF Init, JobIdle, Job
  <2>3. Cardinality(cron.batch) <= Batch
    BY <2>2, FS_EmptySet, BatchAssumption
  <2> QED BY <2>1, <2>2, <2>3, BatchAssumption DEF Init, TypeOK
<1>2. TypeOK /\ [Next]_vars => TypeOK'
  BY TypedMessages
<1> QED BY <1>1, <1>2, PTL DEF Spec
-----------------------------------------------------------------------------
(* What keeps a ticket and a registration.                                 *)

\* The tickets that a request has in hand are no rows yet, and no run of the job and no
\* other request knows them; those of a batch are rows until the batch is resolved; only
\* rows age, and what the job found aged and is still a row is an old one.
MessagesInv ==
  /\ \A k \in Tickets : ticket[k].old => ticket[k].stored
  /\ \A s \in Slots : \A k \in req[s].taken :
       ~ticket[k].stored /\ k \notin cron.batch \cup cron.aged
  /\ \A s, r \in Slots : s # r => req[s].taken \cap req[r].taken = {}
  /\ cron.step \in {"fetch", "handle"} => \A k \in cron.batch : ticket[k].stored
  /\ \A k \in cron.aged : ticket[k].stored => ticket[k].old

LEMMA MessagesInvInit == ASSUME Init PROVE MessagesInv
BY DEF Init, MessagesInv, NoTicket, Idle, JobIdle

\* No step but Expo's answer puts tickets in a request's hand.
LEMMA NothingTaken ==
  ASSUME TypeOK, MessagesInv,
         ticket' = ticket, cron' = cron,
         \A s \in Slots : req'[s].taken \subseteq req[s].taken
  PROVE  MessagesInv'
BY DEF MessagesInv

\* What a run of the job does to its own state and to the tickets, none of them in the
\* hand of a request.
LEMMA JobMoves ==
  ASSUME MessagesInv, req' = req,
         \A k \in Tickets : ticket'[k].stored => ticket[k].stored,
         \A k \in Tickets : ticket'[k].old => ticket'[k].stored,
         \A k \in cron'.batch \cup cron'.aged :
            k \in cron.batch \cup cron.aged \/ \A s \in Slots : k \notin req[s].taken,
         cron'.step \in {"fetch", "handle"} => \A k \in cron'.batch : ticket'[k].stored,
         \A k \in cron'.aged : ticket'[k].stored => ticket'[k].old,
         \A s \in Slots : req[s].taken \subseteq Tickets
  PROVE  MessagesInv'
BY DEF MessagesInv

LEMMA MessagesInvStep ==
  ASSUME TypeOK, MessagesInv, [Next]_vars
  PROVE  MessagesInv'
<1>0. /\ ticket \in [Tickets -> TicketRow] /\ req \in [Slots -> Request]
      /\ cron \in Job /\ cron.got \cup cron.resolved \subseteq cron.batch
  BY DEF TypeOK
<1>1. /\ \A s \in Slots : req[s].taken \subseteq Tickets
      /\ cron.batch \subseteq Tickets /\ cron.aged \subseteq Tickets
  BY <1>0 DEF Request, Job
<1>2. ASSUME NEW s \in Slots, Expo(s) PROVE MessagesInv'
  <2>1. PICK tok \in [Tickets -> Tokens \cup {NoToken}], dead \in SUBSET req[s].to :
          LET used == {k \in Tickets : tok[k] # NoToken}
          IN  /\ used \subseteq Unused
              /\ ticket' = [k \in Tickets |->
                   IF k \in used
                   THEN [NoTicket EXCEPT !.token = tok[k], !.reached = device[tok[k]]]
                   ELSE ticket[k]]
              /\ req' = [req EXCEPT ![s].to = {}, ![s].dead = dead, ![s].taken = used]
    BY <1>2 DEF Expo
  <2> DEFINE used == {k \in Tickets : tok[k] # NoToken}
  <2>2. \A k \in used : /\ ~ticket[k].stored /\ k \notin cron.batch /\ k \notin cron.aged
                        /\ \A r \in Slots : k \notin req[r].taken
    <3> SUFFICES ASSUME NEW k \in Tickets, k \in Unused
                 PROVE  /\ ~ticket[k].stored /\ k \notin cron.batch /\ k \notin cron.aged
                        /\ \A r \in Slots : k \notin req[r].taken
      BY <2>1
    <3> DEFINE inHand == UNION {req[r].taken : r \in Slots}
    <3>1. ASSUME NEW r \in Slots PROVE req[r].taken \subseteq inHand
      OBVIOUS
    <3>2. k \notin Stored /\ k \notin inHand /\ k \notin cron.batch /\ k \notin cron.aged
      BY SMT DEF Unused, Stored
    <3> QED BY <3>1, <3>2 DEF Stored
  <2>3. \A k \in used : ~ticket'[k].stored /\ ~ticket'[k].old
    BY <2>1 DEF NoTicket
  <2>4. \A k \in Tickets \ used : ticket'[k] = ticket[k]
    BY <2>1
  <2>5. /\ req'[s].taken = used /\ \A r \in Slots \ {s} : req'[r].taken = req[r].taken
    BY <1>0, <2>1 DEF Request
  <2>6. cron' = cron
    BY <1>2 DEF Expo
  <2> HIDE DEF used
  <2> QED BY <1>1, <2>2, <2>3, <2>4, <2>5, <2>6 DEF MessagesInv
<1>3. ASSUME NEW s \in Slots, SendStores(s) PROVE MessagesInv'
  <2>1. /\ \A k \in req[s].taken : ticket'[k].stored /\ ticket'[k].old = ticket[k].old
        /\ \A k \in Tickets \ req[s].taken : ticket'[k] = ticket[k]
    BY <1>0, <1>1, <1>3 DEF SendStores, TicketRow
  <2>2. /\ req'[s].taken = {} /\ \A r \in Slots \ {s} : req'[r].taken = req[r].taken
    BY <1>0, <1>3 DEF SendStores, Idle
  <2>3. cron' = cron
    BY <1>3 DEF SendStores
  <2> QED BY <1>1, <2>1, <2>2, <2>3 DEF MessagesInv
<1>4. ASSUME NEW s \in Slots,
             \/ Registers(s) \/ SendFails(s)
             \/ \E u \in Users : SendArrives(s, u)
             \/ \E u \in Users, t \in Tokens : RegisterArrives(s, u, t)
             \/ \E t \in Tokens : SendDrops(s, t) \/ SendDropFails(s, t)
      PROVE  MessagesInv'
  <2>1. \A r \in Slots : req'[r].taken \subseteq req[r].taken
    <3>1. \/ \E r \in Request : r.taken = {} /\ req' = [req EXCEPT ![s] = r]
          \/ \E d \in SUBSET Tokens : req' = [req EXCEPT ![s].dead = d]
      <4>1. Idle \in Request /\ Idle.taken = {}
        BY DEF Idle, Request
      <4>2. ASSUME NEW u \in Users, NEW to \in SUBSET Tokens
            PROVE  /\ [Idle EXCEPT !.op = "send", !.user = u, !.to = to] \in
                        {r \in Request : r.taken = {}}
                   /\ [Idle EXCEPT !.op = "register", !.user = u, !.to = to] \in
                        {r \in Request : r.taken = {}}
        BY DEF Idle, Request
      <4>3. CASE Registers(s) \/ SendFails(s)
        BY <4>1, <4>3 DEF Registers, SendFails
      <4>4. ASSUME NEW u \in Users, SendArrives(s, u)
            PROVE  \E r \in Request : r.taken = {} /\ req' = [req EXCEPT ![s] = r]
        BY <4>2, <4>4 DEF SendArrives
      <4>5. ASSUME NEW u \in Users, NEW t \in Tokens, RegisterArrives(s, u, t)
            PROVE  \E r \in Request : r.taken = {} /\ req' = [req EXCEPT ![s] = r]
        <5>1. {t} \in SUBSET Tokens
          OBVIOUS
        <5> QED BY <4>2, <4>5, <5>1 DEF RegisterArrives
      <4>6. ASSUME NEW t \in Tokens, SendDrops(s, t) \/ SendDropFails(s, t)
            PROVE  \E d \in SUBSET Tokens : req' = [req EXCEPT ![s].dead = d]
        BY <1>0, <4>6 DEF SendDrops, SendDropFails, Request
      <4> QED BY <1>4, <4>3, <4>4, <4>5, <4>6
    <3> QED BY <1>0, <3>1 DEF Request
  <2>2. ticket' = ticket /\ cron' = cron
    BY <1>4
       DEF Registers, SendFails, SendArrives, SendDrops,
           RegisterArrives, SendDropFails
  <2> QED BY <2>1, <2>2, NothingTaken
<1>5. CASE \/ \E u \in Users, t \in Tokens : RemoveToken(u, t)
           \/ \E t \in Tokens : DeviceGone(t) \/ DeviceBack(t)
           \/ UNCHANGED vars
  <2>1. req' = req /\ ticket' = ticket /\ cron' = cron
    BY <1>5
       DEF RemoveToken, DeviceGone, DeviceBack, vars
  <2> QED BY <2>1, NothingTaken
<1>6. CASE Finds
  <2>1. PICK batch \in SUBSET Stored :
          cron' = [JobIdle EXCEPT
                     !.step = IF batch = {} THEN "age" ELSE "fetch", !.batch = batch,
                     !.aged = {k \in Tickets : ticket[k].old}]
    BY <1>6 DEF Finds
  <2>2. cron'.batch = batch /\ cron'.aged = {k \in Tickets : ticket[k].old}
    BY <2>1 DEF JobIdle
  <2>3. req' = req /\ ticket' = ticket
    BY <1>6 DEF Finds
  <2> QED BY <1>1, <2>2, <2>3, JobMoves DEF MessagesInv, Stored
<1>7. CASE Fetches \/ FetchFails
           \/ \E k \in Tickets : Handles(k) \/ DropFails(k)
  <2>1. /\ cron'.batch = cron.batch /\ cron'.aged = cron.aged
        /\ cron.step \in {"fetch", "handle"}
    BY <1>0, <1>7
       DEF Fetches, FetchFails, Handles, DropFails, Job
  <2>2. req' = req /\ ticket' = ticket
    BY <1>7 DEF Fetches, FetchFails, Handles, DropFails
  <2> QED BY <1>1, <2>1, <2>2, JobMoves DEF MessagesInv
<1>8. CASE Resolves
  <2>1. \A k \in Tickets : ticket'[k] = IF k \in cron.resolved /\ ticket[k].stored
                                       THEN NoTicket ELSE ticket[k]
    BY <1>8 DEF Resolves, Deleted
  <2>2. /\ cron'.batch = cron.batch /\ cron'.aged = cron.aged /\ cron'.step = "age" /\ req' = req
    BY <1>0, <1>8 DEF Resolves, Job
  <2> QED BY <1>1, <2>1, <2>2, JobMoves DEF MessagesInv, NoTicket
<1>9. CASE Ages
  <2>1. \A k \in Tickets : ticket'[k] = IF k \in cron.aged /\ ticket[k].stored
                                       THEN NoTicket ELSE ticket[k]
    BY <1>9 DEF Ages, Deleted
  <2>2. cron'.batch = {} /\ cron'.aged = {} /\ cron'.step = "idle" /\ req' = req
    BY <1>9 DEF Ages, JobIdle
  <2> QED BY <1>1, <2>1, <2>2, JobMoves DEF MessagesInv, NoTicket
<1>10. CASE Crash
  <2>1. /\ \A s \in Slots : req'[s].taken = {}
        /\ cron'.batch = {} /\ cron'.aged = {} /\ ticket' = ticket
    BY <1>10 DEF Crash, Idle, JobIdle
  <2> QED BY <2>1 DEF MessagesInv
<1>11. ASSUME NEW d \in Tickets, DayPasses(d) PROVE MessagesInv'
  <2>1. /\ ticket'[d].stored /\ ticket'[d].old /\ ticket[d].stored
        /\ \A k \in Tickets \ {d} : ticket'[k] = ticket[k]
    BY <1>0, <1>11 DEF DayPasses, TicketRow
  <2>2. req' = req /\ cron' = cron
    BY <1>11 DEF DayPasses
  <2> QED BY <1>1, <2>1, <2>2, JobMoves DEF MessagesInv
<1> QED
  BY <1>2, <1>3, <1>4, <1>5, <1>6, <1>7, <1>8, <1>9, <1>10, <1>11
     DEF Next, Handle, Receipts, Failures, AppStarts

THEOREM MessagesInvariant == Spec => [](TypeOK /\ MessagesInv)
<1>1. Init => MessagesInv
  BY MessagesInvInit
<1>2. TypeOK /\ MessagesInv /\ [Next]_vars => MessagesInv'
  BY MessagesInvStep
<1> QED BY <1>1, <1>2, MessagesTypeCorrect, PTL DEF Spec

\* A ticket leaves the table only once the run of the job that looked it up has handled
\* its receipt, or when it is more than a day old: neither a crash nor a failed call nor
\* the sends that go on meanwhile cost a ticket whose receipt may still come
\* (checkPushReceipts).
TicketsLast ==
  [][\A k \in Tickets :
       ticket[k].stored /\ ~ticket'[k].stored =>
         \/ cron.step = "handle" /\ cron.got = {} /\ k \in cron.resolved
         \/ ticket[k].old]_vars

THEOREM TicketsKept == Spec => TicketsLast
<1>1. ASSUME TypeOK, MessagesInv, [Next]_vars,
             NEW k \in Tickets, ticket[k].stored, ~ticket'[k].stored
      PROVE  \/ cron.step = "handle" /\ cron.got = {} /\ k \in cron.resolved
             \/ ticket[k].old
  <2>0. ticket \in [Tickets -> TicketRow]
    BY <1>1 DEF TypeOK
  <2>1. CASE Resolves
    BY <1>1, <2>1 DEF Resolves, Deleted
  <2>2. CASE Ages
    BY <1>1, <2>2 DEF Ages, Deleted, MessagesInv
  <2>3. ASSUME NEW s \in Slots, Expo(s) PROVE ticket'[k] = ticket[k]
    <3>1. PICK tok \in [Tickets -> Tokens \cup {NoToken}] :
            LET used == {l \in Tickets : tok[l] # NoToken}
            IN  /\ used \subseteq Unused
                /\ ticket' = [l \in Tickets |->
                     IF l \in used
                     THEN [NoTicket EXCEPT !.token = tok[l], !.reached = device[tok[l]]]
                     ELSE ticket[l]]
      BY <2>3 DEF Expo
    <3>2. k \notin Unused
      BY <1>1 DEF Unused, Stored
    <3> QED BY <3>1, <3>2
  <2>4. ASSUME NEW s \in Slots, SendStores(s) PROVE ticket'[k].stored
    BY <1>1, <2>0, <2>4 DEF SendStores, TicketRow
  <2>5. ASSUME NEW d \in Tickets, DayPasses(d) PROVE ticket'[k].stored
    BY <1>1, <2>0, <2>5 DEF DayPasses, TicketRow
  <2>6. CASE ticket' = ticket
    BY <1>1, <2>6
  <2> QED
    BY <1>1, <2>1, <2>2, <2>3, <2>4, <2>5, <2>6
       DEF Next, Handle, Receipts, Failures,
           AppStarts, RegisterArrives, Registers, RemoveToken,
           SendArrives, SendDrops, Finds, Fetches,
           Handles, SendFails, SendDropFails, FetchFails,
           DropFails, Crash, DeviceGone, DeviceBack,
           vars
<1>2. TypeOK /\ MessagesInv /\ [Next]_vars
      => [\A k \in Tickets :
            ticket[k].stored /\ ~ticket'[k].stored =>
              \/ cron.step = "handle" /\ cron.got = {} /\ k \in cron.resolved
              \/ ticket[k].old]_vars
  BY <1>1
<1> QED BY <1>2, MessagesInvariant, PTL DEF Spec, TicketsLast

\* What may take a registration from its account: the user who removes it, Expo refusing
\* a message to that very token, or the receipt of one that did not arrive, as long as its
\* ticket is a row that the run has looked up.
Lost(t) ==
  \/ \E u \in Users : RemoveToken(u, t)
  \/ \E s \in Slots : req[s].op = "send" /\ t \in req[s].dead
  \/ \E k \in cron.got : ticket[k].stored /\ ticket[k].token = t /\ ~ticket[k].reached

\* A registration never passes from one account to another, whatever registrations,
\* sends and receipts are under way: it can only be lost, and for one of those reasons
\* (registerToken, removeToken, sendToUser, checkPushReceipts).
RegistrationsLast ==
  [][\A t \in Tokens :
       owner[t] # NoUser /\ owner'[t] # owner[t] => owner'[t] = NoUser /\ Lost(t)]_vars

THEOREM RegistrationsKept == Spec => RegistrationsLast
<1>1. ASSUME TypeOK, MessagesInv, [Next]_vars,
             NEW t \in Tokens, owner[t] # NoUser, owner'[t] # owner[t]
      PROVE  owner'[t] = NoUser /\ Lost(t)
  <2>0. /\ owner \in [Tokens -> Users \cup {NoUser}] /\ cron \in Job
        /\ cron.got \subseteq cron.batch
    BY <1>1 DEF TypeOK
  <2>1. ASSUME NEW s \in Slots, Registers(s) PROVE FALSE
    BY <1>1, <2>0, <2>1 DEF Registers
  <2>2. ASSUME NEW u \in Users, NEW r \in Tokens, RemoveToken(u, r)
        PROVE  owner'[t] = NoUser /\ Lost(t)
    <3>1. r = t /\ owner'[t] = NoUser
      BY <1>1, <2>0, <2>2 DEF RemoveToken, DropRow
    <3> QED BY <2>2, <3>1 DEF Lost
  <2>3. ASSUME NEW s \in Slots, NEW r \in Tokens, SendDrops(s, r)
        PROVE  owner'[t] = NoUser /\ Lost(t)
    <3>1. r = t /\ owner'[t] = NoUser
      BY <1>1, <2>0, <2>3 DEF SendDrops, DropRow
    <3> QED BY <2>3, <3>1 DEF Lost, SendDrops
  <2>4. ASSUME NEW k \in Tickets, Handles(k) PROVE owner'[t] = NoUser /\ Lost(t)
    <3>1. /\ ~ticket[k].reached /\ ticket[k].token = t /\ owner'[t] = NoUser
          /\ k \in cron.got /\ cron.step = "handle"
      BY <1>1, <2>0, <2>4 DEF Handles, DropRow
    <3>2. ticket[k].stored
      BY <1>1, <2>0, <3>1 DEF MessagesInv
    <3> QED BY <3>1, <3>2 DEF Lost
  <2>5. owner' # owner
    BY <1>1
  <2> QED
    BY <1>1, <2>1, <2>2, <2>3, <2>4, <2>5
       DEF Next, Handle, Receipts, Failures,
           AppStarts, RegisterArrives, Expo, SendStores,
           SendArrives, Finds, Fetches, Resolves, Ages,
           SendFails, SendDropFails, FetchFails, DropFails,
           Crash, DeviceGone, DeviceBack, DayPasses, vars
<1>2. TypeOK /\ MessagesInv /\ [Next]_vars
      => [\A t \in Tokens :
            owner[t] # NoUser /\ owner'[t] # owner[t]
            => owner'[t] = NoUser /\ Lost(t)]_vars
  BY <1>1
<1> QED BY <1>2, MessagesInvariant, PTL DEF Spec, RegistrationsLast
=============================================================================
