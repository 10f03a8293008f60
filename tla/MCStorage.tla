----------------------------- MODULE MCStorage -----------------------------
(* One key and few clients for TLC.                                          *)
EXTENDS Storage, TLC

Symmetry == Permutations(Requests) \cup Permutations(Clients)
=============================================================================
