----------------------------- MODULE Transcript -----------------------------
(***************************************************************************)
(* The messages of a conversation as the Agent sees them (message.go), and *)
(* the order in which a provider accepts them.                             *)
(*                                                                         *)
(* Text is left out.  A tool call is identified by its position in the     *)
(* assistant message that asks for it, and a result by the call it is for. *)
(***************************************************************************)
EXTENDS Naturals, Sequences

Statuses == {"success", "error", "denied", "timeout", "canceled", "skipped"}

User == [role |-> "user", calls |-> 0, id |-> 0, status |-> "none"]
Assistant(n) == [role |-> "assistant", calls |-> n, id |-> 0, status |-> "none"]
ToolResult(i, s) == [role |-> "tool", calls |-> 0, id |-> i, status |-> s]

-----------------------------------------------------------------------------
(* Calls and results pair up *)

\* The order toLLMMessages accepts: the results of an assistant message's
\* calls follow it at once, one for each call, in the order of the calls.
Paired(m) ==
  /\ \A i \in 1..Len(m) :
       m[i].role = "assistant" =>
         \A k \in 1..m[i].calls :
           i + k <= Len(m) /\ m[i + k].role = "tool" /\ m[i + k].id = k
  /\ \A i \in 1..Len(m) :
       m[i].role = "tool" =>
         \E j \in 1..(i - 1) :
           m[j].role = "assistant" /\ m[j].calls >= i - j /\ m[i].id = i - j

-----------------------------------------------------------------------------
(* The validator *)

Ids(n) == [k \in 1..n |-> k]

\* What the validator knows before a message: the ids of the calls without a
\* result, or that it has refused a message.
Waiting(ids) == [refused |-> FALSE, pending |-> ids]
Refused == [refused |-> TRUE, pending |-> <<>>]

\* validateToolResultOrder for one message, and the ids pending after it.
AfterMessage(state, message) ==
  LET pending == state.pending
  IN  CASE state.refused -> Refused
        [] ~state.refused /\ message.role = "tool" ->
             IF pending # <<>> /\ message.id = Head(pending)
               THEN Waiting(Tail(pending)) ELSE Refused
        [] ~state.refused /\ message.role # "tool" ->
             IF pending = <<>> THEN Waiting(Ids(message.calls)) ELSE Refused

\* Mutant of Accepted: nothing is checked after the last message.
AcceptedWithoutEnd(m) ==
  LET after[i \in 0..Len(m)] ==
        IF i = 0 THEN Waiting(<<>>) ELSE AfterMessage(after[i - 1], m[i])
  IN  m # <<>> /\ ~after[Len(m)].refused

\* toLLMMessages returns no error: the loop over the messages, with the two
\* checks around it.
Accepted(m) ==
  LET after[i \in 0..Len(m)] ==
        IF i = 0 THEN Waiting(<<>>) ELSE AfterMessage(after[i - 1], m[i])
  IN  m # <<>> /\ after[Len(m)] = Waiting(<<>>)

=============================================================================
