----------------------------- MODULE MCAccounts -----------------------------
(* Instances of Accounts for TLC. *)
EXTENDS Accounts, TLC

\* Ids, requests and jobs are interchangeable: no property names one.
Symmetry == Permutations(UserIds) \cup Permutations(Requests) \cup Permutations(JobIds)
=============================================================================
