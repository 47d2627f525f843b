----------------------------- MODULE MCSessions -----------------------------
(***************************************************************************)
(* Instances of Sessions for TLC.                                          *)
(***************************************************************************)
EXTENDS Sessions, TLC

\* No action tells two slots, or two tokens, apart.
SlotAndTokenSymmetry == Permutations(Slots) \cup Permutations(Tokens)
=============================================================================
