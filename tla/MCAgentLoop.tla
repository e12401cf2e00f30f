----------------------------- MODULE MCAgentLoop -----------------------------
(* An instance of AgentLoop for TLC: a tool that needs no approval, one with *)
(* approval and a timeout, one known but not allowed, and an unknown name.   *)
EXTENDS AgentLoop

CONSTANTS calc, shell, hidden, bogus

MCToolName == {calc, shell, hidden, bogus}
MCKnown == {calc, shell, hidden}
MCAllowed == {calc, shell}
MCNeedsApproval == {shell}
MCHasTimeout == {shell}
=============================================================================
