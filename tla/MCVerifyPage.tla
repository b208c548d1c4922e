---------------------------- MODULE MCVerifyPage ----------------------------
(* Instance of VerifyPage for TLC. *)
EXTENDS VerifyPage
=============================================================================
