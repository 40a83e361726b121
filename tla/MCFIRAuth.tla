----------------------------- MODULE MCFIRAuth -----------------------------
(* FIRAuth on two accounts, overlapping calls and refreshes.               *)
EXTENDS FIRAuth

CONSTANTS a1, a2, c1, c2, c3, o1, o2, o3
=============================================================================
