------------------------------- MODULE MCOtp -------------------------------
(* Instances of Otp for TLC. *)
EXTENDS Otp, TLC

\* Codes and requests are interchangeable: no property names one.
Symmetry == Permutations(Codes) \cup Permutations(Issuers) \cup Permutations(Verifiers)
=============================================================================
