--------------------------- MODULE MCSessionService --------------------------
(* Instances of SessionService for TLC: three requests for one session, one  *)
(* of them a stream.                                                         *)
EXTENDS SessionService, TLC

CONSTANTS r1, r2, r3, free

MCRequest == {r1, r2, r3}
MCTurnOf(r) == CASE r = r1 -> 1 [] r = r2 -> 2 [] r = r3 -> 3
MCFile0 ==
  <<MessageLine(0, Message(100, "user")),
    MessageLine(1, Message(100, "answer")),
    LeafLine(2, 0)>>
OneStream == {r1}
=============================================================================
