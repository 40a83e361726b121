------------------------------ MODULE MCLevels ------------------------------
(* The tree of leveldb on a few keys and writes.                           *)
EXTENDS Levels
=============================================================================
