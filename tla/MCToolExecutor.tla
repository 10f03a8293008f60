--------------------------- MODULE MCToolExecutor ---------------------------
(* More calls than slots for TLC.                                            *)
EXTENDS ToolExecutor
=============================================================================
