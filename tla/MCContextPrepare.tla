-------------------------- MODULE MCContextPrepare --------------------------
(* An instance of ContextPrepare for TLC: every short sequence of messages, *)
(* to compare the validator with its definition, and longer ones of several *)
(* whole turns.                                                             *)
EXTENDS ContextPrepare

MCMessage ==
  {User} \cup {Assistant(n) : n \in 0..2} \cup {ToolResult(k, "success") : k \in 1..2}

Turns == {<<User, Assistant(0)>>,
          <<User, Assistant(1), ToolResult(1, "success"), Assistant(0)>>}

MCTranscripts ==
  UNION {[1..n -> MCMessage] : n \in 0..3}
    \cup {<<User, Assistant(2)>> \o <<a, b>> : a, b \in MCMessage}
    \cup {a \o b \o <<User>> : a, b \in Turns}
    \cup {a \o b \o c \o <<User>> : a, b, c \in Turns}

MCWindows == {0, 6, 9, 12, 15, 40}
MCReserves == {0, 2, 50}
MCMargins == {-1, 0, 1, 50}
=============================================================================
