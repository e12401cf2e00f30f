--------------------------- MODULE MCSessionIndex ----------------------------
(***************************************************************************)
(* Two requests of a server and a command, over two sessions: one from     *)
(* before owners were kept, one of another user.                           *)
(***************************************************************************)
EXTENDS SessionIndex

CONSTANTS a, b, c, s1, s2, local, other

MCServer == {a, b}
MCCommand == {c}
MCUser == {local, other}
MCField == {"provider", "prompt"}
MCByRequest == {"provider"}
MCAtCreation == {{"prompt"}}
MCIndex0 ==
  LET plain == [f \in MCField |-> Default]
  IN <<[id |-> s1, owner |-> None, config |-> plain],
       [id |-> s2, owner |-> other, config |-> plain]>>

=============================================================================
