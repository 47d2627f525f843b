------------------------------ MODULE MCPlaces ------------------------------
(***************************************************************************)
(* Instances of Places for TLC.                                            *)
(***************************************************************************)
EXTENDS Places, TLC

\* Names, codes, rows, runs and updates are never told apart.
Symmetry == UNION {Permutations(S) : S \in {Rows, Codes, Names, Runs, Updates}}
=============================================================================
