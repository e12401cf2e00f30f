--------------------------- MODULE ContextPrepare ---------------------------
(***************************************************************************)
(* contextPolicy.prepare (internal/agent/context.go): what of a transcript *)
(* goes to the provider in each round of a run, and the summary that stands*)
(* in for what does not.                                                   *)
(*                                                                         *)
(* Tokens are weights, added up as approximateTokenEstimator does: every   *)
(* message and every tool call weighs something.  The system prompt, the   *)
(* memory and the tool schemas are in every projection and weigh Fixed.    *)
(* The replaceable estimator and compactor may fail at every call, and the *)
(* compactor may return a summary of any weight.                           *)
(***************************************************************************)
EXTENDS Integers, Sequences, Transcript

CONSTANTS
  Transcripts,   \* transcripts a request may come with
  Windows,       \* ContextOptions.ContextWindow
  Reserves,      \* ContextOptions.OutputTokenReserve
  Margins,       \* ContextOptions.SafetyMargin
  Fixed,         \* weight of prompt, memory and tool schemas
  MaxSummary,    \* bound: weight of the text of a summary
  MaxCalls,      \* bound: tool calls in one assistant message
  MaxRounds      \* bound: rounds after the first

\* A message of a transcript: only the assistant asks for tool calls.
MessageType ==
  {m \in [role : {"user", "assistant", "tool"}, calls : 0..MaxCalls,
          id : 0..MaxCalls, status : Statuses \cup {"none"}] :
     m.role # "assistant" => m.calls = 0}

ASSUME ContextAssumption ==
  /\ MaxCalls \in Nat
  /\ MaxRounds \in Nat
  /\ MaxSummary \in Nat
  /\ Fixed \in Nat
  /\ Windows \subseteq Int /\ Reserves \subseteq Int /\ Margins \subseteq Int
  /\ \A m \in Transcripts : m \in Seq(MessageType)

VARIABLES
  options,    \* ContextOptions: window, reserve, margin, compactor present
  summary,    \* weight of the request's existing summary, 0 for none
  messages,   \* the transcript of the run
  round,      \* rounds so far
  pc,         \* "request", "prepare", "prune", "prepared" or "failed"
  from,       \* the projection starts with this message
  condensed,  \* weight of the compactor's summary in this round, 0 for none
  candidate,  \* messages the summary candidate of this round replaces
  error       \* class of the error prepare returned

vars == <<options, summary, messages, round, pc, from, condensed, candidate, error>>

-----------------------------------------------------------------------------
(* Weights and budget *)

Weight(message) == 1 + message.calls

Total(m) ==
  LET upTo[i \in 0..Len(m)] == IF i = 0 THEN 0 ELSE upTo[i - 1] + Weight(m[i])
  IN  upTo[Len(m)]

\* A summary is one more message around its text; none weighs nothing.
SummaryWeight(text) == IF text = 0 THEN 0 ELSE 1 + text

Suffix(i) == SubSeq(messages, i, Len(messages))

\* The estimate of a projection: the messages from i on, with a summary.
Estimate(i, text) == Fixed + SummaryWeight(text) + Total(Suffix(i))

Enabled == options.window > 0

NonNegative(x) == IF x < 0 THEN 0 ELSE x

\* Deductions that never go below zero.
Deduct(budget, x) == IF NonNegative(x) >= budget THEN 0 ELSE budget - NonNegative(x)

\* Mutant of InputBudget: the margin is left out.
BudgetWithoutMargin == Deduct(options.window, options.reserve)

InputBudget == Deduct(Deduct(options.window, options.reserve), options.margin)

-----------------------------------------------------------------------------
(* Turns *)

IsUser(i) == messages[i].role = "user"

\* lastUserMessageIndex: the current turn starts with the last user message.
CurrentStart ==
  CHOOSE i \in 1..Len(messages) :
    IsUser(i) /\ \A j \in (i + 1)..Len(messages) : ~IsUser(j)

History == SubSeq(messages, 1, CurrentStart - 1)

\* splitHistoryTurns: every user message of the history but the first starts
\* a turn, and the first message starts one whatever it is.
TurnStarts == {1} \cup {i \in 1..(CurrentStart - 1) : IsUser(i)}

LaterTurns == {i \in TurnStarts : i > from}

\* Mutant of OldestLater: a message goes instead of a turn.
NextMessage == from + 1

\* Where the second of the turns that are left starts.
OldestLater == CHOOSE i \in LaterTurns : \A j \in LaterTurns : i <= j

-----------------------------------------------------------------------------
(* Actions *)

Init ==
  /\ options \in [window : Windows, reserve : Reserves, margin : Margins,
                  compactor : BOOLEAN]
  /\ summary \in 0..MaxSummary
  /\ messages \in Transcripts
  /\ round = 0
  /\ pc = "request"
  /\ from = 1
  /\ condensed = 0
  /\ candidate = 0
  /\ error = "none"

Fails(class) == pc' = "failed" /\ error' = class

\* The Agent checks the transcript of a request before the first round.
Request ==
  /\ pc = "request"
  /\ IF /\ messages # <<>>
        /\ messages[Len(messages)] = User
        /\ Paired(messages)
       THEN pc' = "prepare" /\ UNCHANGED error
       ELSE Fails("request")
  /\ UNCHANGED <<options, summary, messages, round, from, condensed, candidate>>

\* Without a window everything is sent.  Otherwise what must be sent at all,
\* the current turn, has to fit.
Begin ==
  /\ pc = "prepare"
  /\ from' = 1
  /\ condensed' = 0
  /\ candidate' = 0
  /\ IF ~Paired(messages)
       THEN Fails("projection")
       ELSE IF ~Enabled
       THEN pc' = "prepared" /\ UNCHANGED error
       ELSE IF Estimate(CurrentStart, 0) > InputBudget
       THEN Fails("budget")
       ELSE pc' = "prune" /\ UNCHANGED error
  /\ UNCHANGED <<options, summary, messages, round>>

\* The estimator returns an error or a negative count, in any of its calls.
EstimationFails ==
  /\ pc \in {"prepare", "prune"}
  /\ Enabled
  /\ Fails("estimation")
  /\ UNCHANGED <<options, summary, messages, round, from, condensed, candidate>>

OverBudget == Estimate(from, summary) > InputBudget

\* The oldest of several turns of the history is left out.
Prune ==
  /\ pc = "prune"
  /\ OverBudget
  /\ LaterTurns # {}
  /\ from' = OldestLater
  /\ IF Paired(Suffix(from'))
       THEN UNCHANGED <<pc, error>>
       ELSE Fails("projection")
  /\ UNCHANGED <<options, summary, messages, round, condensed, candidate>>

Fits ==
  /\ pc = "prune"
  /\ ~OverBudget
  /\ pc' = "prepared"
  /\ UNCHANGED <<options, summary, messages, round, from, condensed, candidate, error>>

\* What the current turn and the frame of a summary leave for its text.
RoomForText == InputBudget - Estimate(CurrentStart, 0) - 1

\* Mutant of NeedsCompactor: whole turns are not given up first.
NeedsCompactorAtOnce == pc = "prune" /\ OverBudget

\* One turn of history and the existing summary are too much together.
NeedsCompactor == pc = "prune" /\ OverBudget /\ LaterTurns = {}

CannotCompact ==
  /\ NeedsCompactor
  /\ ~options.compactor \/ RoomForText <= 0
  /\ Fails("budget")
  /\ UNCHANGED <<options, summary, messages, round, from, condensed, candidate>>

\* The compactor's error, or a summary without id or text.
CompactionFails ==
  /\ NeedsCompactor
  /\ options.compactor /\ RoomForText > 0
  /\ Fails("compaction")
  /\ UNCHANGED <<options, summary, messages, round, from, condensed, candidate>>

\* Mutant of Replaced: what pruning left is taken for the history.
ReplacedAfterPruning == CurrentStart - from

\* The summary stands for the whole history, pruned or not.
Replaced == Len(History)

\* The compactor's summary replaces the history and the existing summary.
Compact(text) ==
  /\ NeedsCompactor
  /\ options.compactor /\ RoomForText > 0
  /\ IF Estimate(CurrentStart, text) > InputBudget
       THEN Fails("budget") /\ UNCHANGED <<from, condensed, candidate>>
       ELSE /\ pc' = "prepared"
            /\ from' = CurrentStart
            /\ condensed' = text
            /\ candidate' = Replaced
            /\ UNCHANGED error
  /\ UNCHANGED <<options, summary, messages, round>>

Results(n) == [k \in 1..n |-> ToolResult(k, "success")]

\* The provider asks for n tools; their results join the transcript and the
\* loop prepares again.
NextRound(n) ==
  /\ pc = "prepared"
  /\ round < MaxRounds
  /\ round' = round + 1
  /\ messages' = messages \o <<Assistant(n)>> \o Results(n)
  /\ pc' = "prepare"
  /\ UNCHANGED <<options, summary, from, condensed, candidate, error>>

Next ==
  \/ Request \/ Begin \/ EstimationFails \/ Prune \/ Fits
  \/ CannotCompact \/ CompactionFails
  \/ \E text \in 1..MaxSummary : Compact(text)
  \/ \E n \in 1..MaxCalls : NextRound(n)

Spec == Init /\ [][Next]_vars

-----------------------------------------------------------------------------
(* Properties *)

PCs == {"request", "prepare", "prune", "prepared", "failed"}
Errors == {"none", "request", "projection", "estimation", "compaction", "budget"}

\* The type of every variable.
TypeOK ==
  /\ options \in [window : Windows, reserve : Reserves, margin : Margins,
                  compactor : BOOLEAN]
  /\ summary \in 0..MaxSummary
  /\ messages \in Seq(MessageType)
  /\ round \in 0..MaxRounds
  /\ pc \in PCs
  /\ from \in Nat \ {0}
  /\ condensed \in 0..MaxSummary
  /\ candidate \in Nat
  /\ error \in Errors

\* The loop that validates the order of results (message.go L49-128) accepts
\* exactly the transcripts whose calls and results pair up.  The types of the
\* variables are part of it.
OrderAgrees ==
  /\ TypeOK
  /\ Accepted(messages) <=> messages # <<>> /\ Paired(messages)

\* What the provider gets in this round.
Sent == Estimate(from, IF condensed > 0 THEN condensed ELSE summary)

\* Whatever is left out, the provider is never sent a call without its
\* result or a result without its call, and after the check of the request
\* no projection fails (L242-258).
PreparedIsPaired ==
  /\ pc = "prepared" => Paired(Suffix(from))
  /\ error # "projection"

\* The starts of turns the history can be cut at.
Cuts == {i \in 1..Len(messages) : i <= CurrentStart /\ (i = 1 \/ IsUser(i))}

\* What is sent leaves room for the answer and the margin, however large the
\* two are, and no turn is left out needlessly: with any earlier turn it would
\* not have fitted (L190-201 and L242-258).
LongestFittingSuffixIsSent ==
  pc = "prepared" =>
    /\ Enabled =>
         Sent + NonNegative(options.reserve) + NonNegative(options.margin) <= options.window
    /\ from \in Cuts
    /\ \A i \in Cuts : i < from => Enabled /\ Estimate(i, summary) > InputBudget

\* After compaction every message of the transcript is either sent or
\* replaced by the summary the Session may keep, none of them both
\* (L289-311; session.go cuts its history by this count).
SentOrReplaced ==
  pc = "prepared" /\ condensed > 0 => candidate + Len(Suffix(from)) = Len(messages)

\* Preparation gives up over the budget only where the newest turn of the
\* history, the current turn and the existing summary do not fit together
\* (L215-217, L266-284).
BudgetErrorIsForced ==
  error = "budget" =>
    \A i \in Cuts : (i < CurrentStart \/ CurrentStart = 1) =>
      Estimate(i, summary) > InputBudget

=============================================================================
