---------------------------- MODULE MCSessionTurn ----------------------------
(* Instances of SessionTurn for TLC: a session that has committed one turn,  *)
(* and a new one.                                                            *)
EXTENDS SessionTurn

\* A first turn, numbered 100 so that it differs from the turns of the model.
UsedFile ==
  <<MessageLine(0, Message(100, "user")),
    MessageLine(1, Message(100, "answer")),
    LeafLine(2, 0)>>

NewFile == <<>>

\* The passing run is of a session the theorems are about.
ASSUME UsedFileIsUndamaged == File0 = UsedFile /\ OversizedRoles = {} /\ ~CanTear => Undamaged
=============================================================================
