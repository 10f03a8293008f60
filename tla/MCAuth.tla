------------------------------- MODULE MCAuth -------------------------------
(* Few users and tokens for TLC.                                             *)
EXTENDS Auth, TLC

Symmetry == Permutations(Users) \cup Permutations(Tokens) \cup Permutations(Requests)
=============================================================================
