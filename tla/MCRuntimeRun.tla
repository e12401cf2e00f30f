---------------------------- MODULE MCRuntimeRun -----------------------------
(* An instance of RuntimeRun for TLC: one tool, which needs approval and has *)
(* a timeout.                                                                *)
EXTENDS RuntimeRun

CONSTANT shell

MCToolName == {shell}
MCNeedsApproval == {shell}
=============================================================================
