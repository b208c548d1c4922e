----------------------------- MODULE MCGenerator ----------------------------
(* Instance of Generator for TLC. *)
EXTENDS Generator
=============================================================================
