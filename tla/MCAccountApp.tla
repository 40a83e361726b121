---------------------------- MODULE MCAccountApp ----------------------------
(* AccountApp with two people and two login screens.                       *)
EXTENDS AccountApp, TLC

CONSTANTS p1, p2, c1, c2, s1, s2, l1, f1

(* No definition tells one person, call, login or request from another.    *)
Symmetry == UNION {Permutations(S) : S \in {Person, Call, Serial, Fetch}}
=============================================================================
