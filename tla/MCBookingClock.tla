--------------------------- MODULE MCBookingClock ---------------------------
(***************************************************************************)
(* Instances of BookingClock for TLC.                                      *)
(***************************************************************************)
EXTENDS BookingClock

\* Eight in the morning, half past three in the afternoon and eleven at night
\* in the Philippines: before, between and after the ends of the windows.
Times == {48, 63, 78}
=============================================================================
