------------------------ MODULE MCWorkerVerification ------------------------
(***************************************************************************)
(* Instances of WorkerVerification for TLC.                                *)
(***************************************************************************)
EXTENDS WorkerVerification, TLC

\* No action tells two slots, or two documents, apart.
SlotAndDocSymmetry == Permutations(Slots) \cup Permutations(Docs)
=============================================================================
