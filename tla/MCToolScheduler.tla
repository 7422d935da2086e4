--------------------------- MODULE MCToolScheduler ---------------------------
(* Model-checking instance of ToolScheduler: every mix of safe and exclusive *)
(* calls up to MaxCalls.                                                     *)
EXTENDS ToolScheduler
==============================================================================
