-------------------------- MODULE BookingLifecycle --------------------------
(***************************************************************************)
(* What the booking engine promises about a booking, whoever acts on it    *)
(* and in whatever order: the statuses of the BookingStatus enum it goes   *)
(* through, and when the parties see each other's contact details.  The    *)
(* cron jobs move any number of bookings in one statement.  Bookings.tla   *)
(* is checked to implement this specification.                             *)
(***************************************************************************)
CONSTANT Ids

VARIABLES
  status,    \* the status of each booking, "NONE" before it is created
  revealed   \* whether its contact details have been revealed

vars == <<status, revealed>>

Closing == {"NO_SHOW", "CUSTOMER_NO_SHOW"}

Init ==
  /\ status = [b \in Ids |-> "NONE"]
  /\ revealed = [b \in Ids |-> FALSE]

Move(B, from, to) ==
  /\ \A b \in B : status[b] \in from
  /\ status' = [b \in Ids |-> IF b \in B THEN to ELSE status[b]]

Request(b) == Move({b}, {"NONE"}, "PENDING") /\ UNCHANGED revealed
Agree(b)   == /\ Move({b}, {"PENDING"}, "ACCEPTED")
              /\ revealed' = [revealed EXCEPT ![b] = TRUE]
Decline(b) == Move({b}, {"PENDING"}, "REJECTED") /\ UNCHANGED revealed
Begin(b)   == Move({b}, {"ACCEPTED"}, "IN_PROGRESS") /\ UNCHANGED revealed
Finish(b)  == Move({b}, {"IN_PROGRESS"}, "COMPLETED") /\ UNCHANGED revealed
Withdraw(b) ==
  Move({b}, {"PENDING", "ACCEPTED", "IN_PROGRESS"}, "CANCELLED") /\ UNCHANGED revealed

\* An administrator's verdict on a no-show closes any booking that was
\* accepted, unless another verdict has closed it.
Verdict(b, to) ==
  /\ revealed[b] /\ status[b] \notin Closing
  /\ Move({b}, {status[b]}, to)
  /\ UNCHANGED revealed

Lapse(B)   == Move(B, {"PENDING"}, "EXPIRED") /\ UNCHANGED revealed
Abandon(B) == Move(B, {"ACCEPTED"}, "CANCELLED") /\ UNCHANGED revealed

Next ==
  \/ \E b \in Ids : \/ Request(b) \/ Agree(b) \/ Decline(b) \/ Begin(b)
                    \/ Finish(b) \/ Withdraw(b)
                    \/ \E to \in Closing : Verdict(b, to)
  \/ \E B \in SUBSET Ids : Lapse(B) \/ Abandon(B)

Spec == Init /\ [][Next]_vars
=============================================================================
