--------------------------- MODULE ConversationLog ---------------------------
(***************************************************************************)
(* What a durable session promises its caller: a log of whole turns that   *)
(* grows by one turn at a time, at one instant, and a caller who is told   *)
(* that a turn completed only once the turn is in the log.  Nothing is     *)
(* ever taken from the log, whatever fails or restarts.                    *)
(***************************************************************************)
EXTENDS Naturals, Sequences

CONSTANTS
  Log0,          \* the log found at the start
  IsTurn(_),     \* whether a sequence of messages is one whole turn
  TurnOf(_)      \* the turn a message belongs to

VARIABLES
  log,    \* the messages of the committed turns
  told    \* the turns reported as completed

Turns == {TurnOf(log[i]) : i \in 1..Len(log)}

LogInit == log = Log0 /\ told = {}

\* One whole turn is added, one that was not there before.
Commit ==
  /\ Len(log') > Len(log)
  /\ SubSeq(log', 1, Len(log)) = log
  /\ IsTurn(SubSeq(log', Len(log) + 1, Len(log')))
  /\ TurnOf(log'[Len(log')]) \notin Turns
  /\ UNCHANGED told

\* A committed turn is reported.
Acknowledge ==
  /\ \E t \in Turns \ told : told' = told \cup {t}
  /\ UNCHANGED log

LogNext == Commit \/ Acknowledge

LogSpec == LogInit /\ [][LogNext]_<<log, told>>
=============================================================================
