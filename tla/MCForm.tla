------------------------------- MODULE MCForm -------------------------------
(* Instance of Form for TLC. *)
EXTENDS Form
=============================================================================
