----------------------------- MODULE MCDBImpl -----------------------------
(* Model-checking instance of DBImpl. *)
EXTENDS DBImpl
=============================================================================
