---------------------------- MODULE MCRateLimit -----------------------------
(* A short clock and small windows for TLC.                                  *)
EXTENDS RateLimit
=============================================================================
