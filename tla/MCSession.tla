----------------------------- MODULE MCSession ------------------------------
(* Small stores for TLC.                                                     *)
EXTENDS Session, TLC

\* Clients are interchangeable to every action and every safety property.
ClientSymmetry == Permutations(Clients)
=============================================================================
