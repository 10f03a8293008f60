---------------------------- MODULE MCStreaming ----------------------------
(* Two conversations that read the same, for TLC.                            *)
EXTENDS Streaming

MCNormalized == [c \in Conversations |-> IF c = "Hi" THEN "hi" ELSE c]
=============================================================================
