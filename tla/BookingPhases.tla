---------------------------- MODULE BookingPhases ----------------------------
(***************************************************************************)
(* What time does to one booking: the half hour a request stays open, the  *)
(* phases of its no-show window, and what the two cron jobs may make of    *)
(* them.  Bookings has this with its races and takes the phases for        *)
(* granted; BookingClock computes them from dates.  Both implement it.     *)
(***************************************************************************)

VARIABLES
  standing, \* what the booking is to the jobs: see Standing
  expired,  \* whether expiresAt has passed
  window,   \* before its end, two hours of reports, closed, a day later "stale"
  listed    \* whether a run of the sweep has looked it up and not yet updated it

vars == <<standing, expired, window, listed>>

\* Asked for, accepted, started; expired and swept by the jobs; over by anybody else.
Standing == {"none", "asked", "held", "begun", "lapsed", "swept", "over"}
Current  == {"asked", "held", "begun"}
\* The phases a booking may be made or moved to.
Fresh    == {"before", "open", "closed"}
Later    == [before |-> "open", open |-> "closed", closed |-> "stale", stale |-> "stale"]

Init ==
  /\ standing \in {"none", "asked"}
  /\ expired = FALSE
  /\ window \in Fresh
  /\ listed = FALSE

Move(from, to) == standing \in from /\ standing' = to

Ask ==
  /\ Move({"none"}, "asked")
  /\ expired' = FALSE
  /\ window' \in Fresh
  /\ UNCHANGED listed

\* The parties and the administrators.
Agree == Move({"asked"}, "held") /\ UNCHANGED <<expired, window, listed>>
Begin == Move({"held"}, "begun") /\ UNCHANGED <<expired, window, listed>>
End   == Move(Current \cup {"swept"}, "over") /\ UNCHANGED <<expired, window, listed>>
\* update() writes whatever has become of the booking.  A window of the same day that
\* ended hours earlier may be over by a day at once.
Reschedule ==
  /\ standing # "none"
  /\ window' \in Fresh \cup {Later[window]}
  /\ window' = "stale" => expired
  /\ UNCHANGED <<standing, expired, listed>>

\* The jobs.
Lapse == expired /\ Move({"asked"}, "lapsed") /\ UNCHANGED <<expired, window, listed>>
List  ==
  /\ standing = "held" /\ window = "stale"
  /\ listed' = TRUE
  /\ UNCHANGED <<standing, expired, window>>
Sweep ==
  /\ listed \/ window = "stale"
  /\ Move({"held"}, "swept")
  /\ listed' = FALSE
  /\ UNCHANGED <<expired, window>>
\* The update finds it answered, or the run is cut short.
Unlist == listed' = FALSE /\ UNCHANGED <<standing, expired, window>>

\* The half hour is over before the day after the window is.
Pass ==
  /\ standing \in Current
  /\ expired' \in {expired, TRUE}
  /\ window' \in {window, Later[window]}
  /\ window' = "stale" => expired'
  /\ UNCHANGED <<standing, listed>>

Next == \/ Ask \/ Agree \/ Begin \/ End \/ Reschedule
        \/ Lapse \/ List \/ Sweep \/ Unlist \/ Pass

Spec == Init /\ [][Next]_vars

-----------------------------------------------------------------------------
\* Neither job ends a booking that could still be answered: the sweep, which looks at the
\* window alone, comes after the half hour of the request too (bookings.cron).
NotBeforeItsTime == standing \in {"lapsed", "swept"} => expired
=============================================================================
