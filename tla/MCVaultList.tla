---------------------------- MODULE MCVaultList ----------------------------
(* Instances of VaultList for TLC. *)
EXTENDS VaultList, TLC

\* Titles and requests are interchangeable; ids are too.
Symmetry == Permutations(Ids) \cup Permutations(Titles) \cup Permutations(Fetches)
=============================================================================
