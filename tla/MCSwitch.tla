------------------------------ MODULE MCSwitch ------------------------------
(* Small instances of Switch. *)
EXTENDS Switch

CONSTANT a
=============================================================================
