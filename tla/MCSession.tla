----------------------------- MODULE MCSession -----------------------------
(* Instances of Session for TLC. *)
EXTENDS Session, TLC

\* Accounts, tabs and slots are interchangeable: no property names one.
Symmetry == Permutations(Accounts) \cup Permutations(Tabs) \cup Permutations(Slots)
=============================================================================
