---------------------------- MODULE MCRunReport ------------------------------
(* An instance of RunReport for TLC: batches of one and two calls, also with  *)
(* one identifier for both, over up to two rounds that may repeat it.         *)
EXTENDS RunReport

CONSTANTS x, y

MCCallId == {x, y}
MCModes == {"stream", "run", "command"}
MCBatches == {<<>>, <<x>>, <<x, y>>, <<x, x>>}
=============================================================================
