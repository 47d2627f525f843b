----------------------------- MODULE MCBookings -----------------------------
(***************************************************************************)
(* Instances of Bookings for TLC.                                          *)
(***************************************************************************)
EXTENDS Bookings, TLC

\* Slots and booking ids are interchangeable: no action tells two of them apart.
SlotSymmetry == Permutations(Slots)
SlotAndBookingSymmetry == Permutations(Slots) \cup Permutations(BookingIds)
=============================================================================
