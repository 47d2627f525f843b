----------------------------- MODULE MCWorkerRow -----------------------------
(***************************************************************************)
(* Instances of WorkerRow for TLC.                                         *)
(***************************************************************************)
EXTENDS WorkerRow, TLC

SlotAndJobSymmetry == Permutations(Slots) \cup Permutations(Jobs)
=============================================================================
