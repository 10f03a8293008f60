------------------------------ MODULE MCUsers ------------------------------
(* Two ids and two overlapping requests for TLC.                             *)
EXTENDS Users, TLC

Symmetry == Permutations(Ids) \cup Permutations(Requests)
=============================================================================
