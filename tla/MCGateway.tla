----------------------------- MODULE MCGateway ------------------------------
(* Few clients and requests for TLC.                                         *)
EXTENDS Recency, TLC

CONSTANTS r1, r2

MCRequests == {r1, r2}
MCMessages == [role : {"user", "assistant"}, request : MCRequests]

\* Clients and requests are interchangeable to every handler.
Symmetry == Permutations(Clients) \cup Permutations(MCRequests)
=============================================================================
