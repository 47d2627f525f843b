------------------------------ MODULE MCUploads ------------------------------
(***************************************************************************)
(* Instances of Uploads for TLC.                                           *)
(***************************************************************************)
EXTENDS Uploads, TLC

\* No action tells two slots apart, nor two keys of a kind that are not older
\* than encryption.
SlotAndKeySymmetry ==
  Permutations(Slots) \cup Permutations(Credentials \ Legacy) \cup Permutations(Docs \ Legacy)
=============================================================================
