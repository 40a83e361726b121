------------------------------ MODULE MCFBSDK ------------------------------
(* FBSDK with two users, overlapping logins and profile requests.          *)
EXTENDS FBSDK

CONSTANTS p1, p2, s1, s2, s3, l1, l2, f1
=============================================================================
