------------------------------- MODULE MCOtp -------------------------------
(***************************************************************************)
(* Instances of Otp for TLC.                                               *)
(***************************************************************************)
EXTENDS Otp, TLC

\* No action tells two slots apart.
SlotSymmetry == Permutations(Slots)
=============================================================================
