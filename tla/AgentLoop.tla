------------------------------ MODULE AgentLoop ------------------------------
(***************************************************************************)
(* The goroutine of internal/agent/loop.go that runs one Agent run, and    *)
(* the governed tool set (governed_tools.go) it executes calls with.       *)
(*                                                                         *)
(* The run answers one user message.  Each chat round prepares the         *)
(* context, opens a provider stream and forwards it; a round that ends     *)
(* with tool calls executes them one after the other and starts the next   *)
(* round.  All events go through one bounded channel, and the run context  *)
(* may be canceled between any two steps.                                  *)
(*                                                                         *)
(* The provider, the executors, the approval gate, the context policy and  *)
(* the caller that cancels are the environment: what they return is        *)
(* chosen with \E.                                                         *)
(***************************************************************************)
EXTENDS Naturals, Sequences, FiniteSets, Transcript

CONSTANTS
  ToolName,        \* names a provider may ask for
  Known,           \* names known to the request (KnownToolNames and allowed)
  Allowed,         \* names the request may execute
  NeedsApproval,   \* allowed tools with Policy.RequiresApproval
  HasTimeout,      \* allowed tools with Policy.Timeout > 0
  ContextEnabled,  \* contextPolicy.enabled()
  MaxSteps,        \* tool-calling rounds the Agent allows
  MaxCalls,        \* bound: tool calls in one assistant message
  MaxDeltas,       \* bound: deltas in one provider stream
  StreamCap        \* capacity of the event channel (64 in the code)

ASSUME ToolAssumption ==
  /\ Allowed \subseteq Known
  /\ Known \subseteq ToolName
  /\ NeedsApproval \subseteq Allowed
  /\ HasTimeout \subseteq Allowed
  /\ ContextEnabled \in BOOLEAN

ASSUME BoundAssumption ==
  /\ MaxSteps \in Nat
  /\ MaxCalls \in Nat \ {0}
  /\ MaxDeltas \in Nat
  /\ StreamCap \in Nat \ {0}

VARIABLES
  gate,      \* whether the request carries an ApprovalGate
  ctx,       \* "live", or "done" once canceled or past its deadline
  stream,    \* buffered events of the channel returned by startStream
  pc,        \* where the run goroutine is; "closed" after close(stream)
  inSelect,  \* a pending emit passed its ctx check before ctx was done
  round,     \* chatRound
  deltas,    \* deltas received in this round
  messages,  \* the transcript the run works on
  calls,     \* names called by the last assistant message
  idx,       \* the call being processed
  decision,  \* what the gate said about that call
  outcome,   \* status of that call
  canceled,  \* batchCanceled
  failure    \* class of the error the run is about to report

agentVars == <<stream, pc, inSelect, round, deltas, messages, calls, idx,
               decision, outcome, canceled, failure>>
vars == <<gate, ctx, agentVars>>

-----------------------------------------------------------------------------
(* Data *)

\* isCancellationError tells the two classes of errors apart.
ErrorClasses == {"cancel", "plain"}

EventKinds ==
  {"RunStart", "TurnStart", "ContextPrepared", "SummaryCandidate",
   "MessageStart", "Delta", "MessageEnd", "ToolStart", "ApprovalRequested",
   "ApprovalDecided", "ToolEnd", "TurnEnd", "RunEnd", "Error"}

\* n is the index of the tool call an event is about, and the number of calls
\* a MessageEnd carries; info is a status, a decision or an error class.
Event(kind, n, info) == [kind |-> kind, n |-> n, info |-> info]
Plain(kind) == Event(kind, 0, "none")

-----------------------------------------------------------------------------
(* Sending *)

\* Mutant of HasRoom: one event too many.
HasRoomOffByOne == Len(stream) <= StreamCap

HasRoom == Len(stream) < StreamCap

Goto(from, to) == pc = from /\ pc' = to

\* emitEvent: with a done ctx nothing is sent, unless the check was passed
\* before; with a full channel the goroutine waits for room or for ctx.
\* A background emit ignores the run context.
EmitOn(background, from, event, sent, dropped) ==
  /\ inSelect' = FALSE
  /\ \/ /\ background \/ ctx = "live" \/ inSelect
        /\ HasRoom
        /\ stream' = Append(stream, event)
        /\ Goto(from, sent)
     \/ /\ ~background
        /\ ctx = "done"
        /\ Goto(from, dropped)
        /\ UNCHANGED stream

\* Mutant of Emit: the send looks at no context.
EmitBlocking(from, event, sent, dropped) == EmitOn(TRUE, from, event, sent, dropped)

Emit(from, event, sent, dropped) == EmitOn(FALSE, from, event, sent, dropped)

\* The program points whose next step is an emit under the run context.
Emitting ==
  {"runStart", "turnStart", "contextPrepared", "summary", "messageStart",
   "delta", "messageEnd", "turnEnd", "runEnd", "toolStart", "approvalRequest",
   "approvalMissing", "approvalDecided", "toolEnd", "fail"}

\* The run context ends: Cancel, a client that goes away, or a deadline.
CancelRun ==
  /\ ctx = "live"
  /\ ctx' = "done"
  /\ inSelect' \in (IF pc \in Emitting THEN BOOLEAN ELSE {FALSE})
  /\ UNCHANGED <<gate, stream, pc, round, deltas, messages, calls, idx, decision,
                 outcome, canceled, failure>>

-----------------------------------------------------------------------------
(* The run up to the provider *)

Init ==
  /\ gate \in BOOLEAN
  /\ ctx = "live"
  /\ stream = <<>>
  /\ pc = "start"
  /\ inSelect = FALSE
  /\ round = 0
  /\ deltas = 0
  /\ messages = <<User>>
  /\ calls = <<>>
  /\ idx = 0
  /\ decision = "none"
  /\ outcome = "none"
  /\ canceled = FALSE
  /\ failure = "plain"

\* What a step that only moves the program counter leaves alone.
Control == <<round, deltas, messages, calls, idx, decision, outcome, canceled>>

\* Invalid tools or messages are reported as an error; a run that is already
\* canceled never starts.
Start ==
  /\ \/ Goto("start", "fail") /\ failure' = "plain"
     \/ ctx = "live" /\ Goto("start", "runStart") /\ UNCHANGED failure
     \/ ctx = "done" /\ Goto("start", "cancelTry") /\ failure' = "cancel"
  /\ UNCHANGED <<gate, ctx, stream, inSelect, Control>>

EmitRunStart ==
  /\ Emit("runStart", Plain("RunStart"), "turnStart", "closed")
  /\ UNCHANGED <<gate, ctx, Control, failure>>

EmitTurnStart ==
  /\ Emit("turnStart", Plain("TurnStart"), "prepare", "closed")
  /\ UNCHANGED <<gate, ctx, Control, failure>>

\* prepare fails on a transcript it cannot project, and on the budget, the
\* estimator or the compactor when a context window is configured.  Only
\* then does it report what it selected, and sometimes a summary.
Prepare ==
  /\ \/ /\ Paired(messages)
        /\ Goto("prepare", IF ContextEnabled THEN "contextPrepared" ELSE "open")
        /\ UNCHANGED failure
     \/ /\ ~Paired(messages) \/ ContextEnabled
        /\ Goto("prepare", "fail")
        /\ failure' \in (IF ContextEnabled THEN ErrorClasses ELSE {"plain"})
  /\ UNCHANGED <<gate, ctx, stream, inSelect, Control>>

EmitContextPrepared ==
  /\ \E next \in {"summary", "open"} :
       Emit("contextPrepared", Plain("ContextPrepared"), next, "closed")
  /\ UNCHANGED <<gate, ctx, Control, failure>>

EmitSummaryCandidate ==
  /\ Emit("summary", Plain("SummaryCandidate"), "open", "closed")
  /\ UNCHANGED <<gate, ctx, Control, failure>>

\* A chat round that failed: the error is sent over a full channel only when
\* the run context is done (emitCancellation), else it is an ordinary emit.
RoundFails(from, class) ==
  /\ Goto(from, IF ctx = "done" THEN "cancelTry" ELSE "fail")
  /\ failure' = class

-----------------------------------------------------------------------------
(* One chat round: streamAssistantMessage *)

OpenStream ==
  /\ \/ Goto("open", "messageStart") /\ UNCHANGED failure
     \/ \E class \in ErrorClasses : RoundFails("open", class)
  /\ deltas' = 0
  /\ UNCHANGED <<gate, ctx, stream, inSelect, round, messages, calls, idx, decision,
                 outcome, canceled>>

\* An emit that loses to ctx returns ctx.Err(), so the round fails canceled.
EmitMessageStart ==
  /\ Emit("messageStart", Plain("MessageStart"), "receive", "cancelTry")
  /\ failure' = "cancel"
  /\ UNCHANGED <<gate, ctx, Control>>

ReceiveDelta ==
  /\ deltas < MaxDeltas
  /\ Goto("receive", "delta")
  /\ deltas' = deltas + 1
  /\ UNCHANGED <<gate, ctx, stream, inSelect, round, messages, calls, idx, decision,
                 outcome, canceled, failure>>

EmitDelta ==
  /\ Emit("delta", Plain("Delta"), "receive", "cancelTry")
  /\ failure' = "cancel"
  /\ UNCHANGED <<gate, ctx, Control>>

RoundsUsedUp == round >= MaxSteps

\* Done carries the complete message.  Tool calls after the last allowed
\* round are an error, and the message is not reported.
ReceiveDone ==
  /\ \E n \in 0..MaxCalls : calls' \in [1..n -> ToolName]
  /\ IF calls' # <<>> /\ RoundsUsedUp
       THEN Goto("receive", "fail") /\ failure' = "plain"
       ELSE Goto("receive", "messageEnd") /\ UNCHANGED failure
  /\ UNCHANGED <<gate, ctx, stream, inSelect, round, deltas, messages, idx, decision,
                 outcome, canceled>>

\* An error event, an invalid Done, or a stream closed without Done.
ReceiveError ==
  /\ \E class \in ErrorClasses : RoundFails("receive", class)
  /\ UNCHANGED <<gate, ctx, stream, inSelect, Control>>

\* Mutant of ReceiveCanceled: a select without the ctx.Done case.
ReceiveIgnoresCancel == FALSE

ReceiveCanceled ==
  /\ ctx = "done"
  /\ RoundFails("receive", "cancel")
  /\ UNCHANGED <<gate, ctx, stream, inSelect, Control>>

EmitMessageEnd ==
  /\ Emit("messageEnd", Event("MessageEnd", Len(calls), "none"), "roundDone", "cancelTry")
  /\ failure' = "cancel"
  /\ UNCHANGED <<gate, ctx, Control>>

\* The loop after a round: a canceled run stops, an answer ends the turn, and
\* tool calls start a batch.
RoundDone ==
  /\ IF ctx = "done"
       THEN Goto("roundDone", "cancelTry") /\ failure' = "cancel" /\ UNCHANGED messages
       ELSE /\ Goto("roundDone", IF calls = <<>> THEN "turnEnd" ELSE "toolStart")
            /\ messages' = Append(messages, Assistant(Len(calls)))
            /\ UNCHANGED failure
  /\ idx' = 1
  /\ canceled' = FALSE
  /\ UNCHANGED <<gate, ctx, stream, inSelect, round, deltas, calls, decision, outcome>>

EmitTurnEnd ==
  /\ Emit("turnEnd", Plain("TurnEnd"), "runEnd", "closed")
  /\ UNCHANGED <<gate, ctx, Control, failure>>

EmitRunEnd ==
  /\ Emit("runEnd", Plain("RunEnd"), "closed", "closed")
  /\ UNCHANGED <<gate, ctx, Control, failure>>

-----------------------------------------------------------------------------
(* One tool call *)

Call == calls[idx]

\* After a canceled call the rest of the batch is reported over a background
\* context, and skipped.
EmitToolStart ==
  /\ EmitOn(canceled, "toolStart", Event("ToolStart", idx, "none"),
            IF canceled THEN "toolEnd" ELSE "execute", "closed")
  /\ decision' = "none"
  /\ outcome' = IF canceled THEN "skipped" ELSE "none"
  /\ UNCHANGED <<gate, ctx, round, deltas, messages, calls, idx, canceled, failure>>

\* execute finishes a call with a status; the loop then reports its end.
Finish(from, status) == Goto(from, "toolEnd") /\ outcome' = status

CallLeaves == <<gate, ctx, round, deltas, messages, calls, idx, canceled, failure>>

\* The checks before approval and execution, in their order.
Execute ==
  /\ pc = "execute"
  /\ \/ Call \notin Known /\ Finish("execute", "skipped")
     \/ Call \in Known \ Allowed /\ Finish("execute", "denied")
     \/ Call \in Allowed /\ Finish("execute", "error")  \* invalid arguments
     \/ /\ Call \in Allowed
        /\ Goto("execute", IF Call \in NeedsApproval THEN "approvalRequest" ELSE "executing")
        /\ UNCHANGED outcome
  /\ UNCHANGED <<CallLeaves, stream, inSelect, decision>>

\* A request nobody can observe cancels the call.
RequestApproval ==
  /\ Emit("approvalRequest", Event("ApprovalRequested", idx, "none"),
          IF gate THEN "deciding" ELSE "approvalMissing", "toolEnd")
  /\ outcome' = IF pc' = "toolEnd" THEN "canceled" ELSE outcome
  /\ UNCHANGED <<CallLeaves, decision>>

MissingGate ==
  /\ Emit("approvalMissing", Event("ApprovalDecided", idx, "denied"), "toolEnd", "toolEnd")
  /\ outcome' = "denied"
  /\ UNCHANGED <<CallLeaves, decision>>

\* The gate answers, or fails: a failure under a done ctx is a cancellation.
Decide ==
  /\ Goto("deciding", "approvalDecided")
  /\ decision' \in {"approved", "denied"} \cup
                   {IF ctx = "done" THEN "canceled" ELSE "gateError"}
  /\ UNCHANGED <<CallLeaves, stream, inSelect, outcome>>

\* Mutant of Approved: a gate that fails does not deny.
ApprovedUnlessDenied == decision # "denied"

Approved == decision = "approved"

\* The decision is reported, but execution does not depend on whether the
\* event went out.
EmitDecision ==
  LET next == IF Approved THEN "executing" ELSE "toolEnd"
  IN /\ Emit("approvalDecided", Event("ApprovalDecided", idx, decision), next, next)
     /\ outcome' = CASE Approved -> outcome
                     [] decision = "canceled" -> "canceled"
                     [] OTHER -> "denied"
     /\ UNCHANGED <<CallLeaves, decision>>

\* The status of a finished executor call: result is "ok" or an error class,
\* and expired says that the tool's own deadline has passed.
ExecutorStatus(result, expired) ==
  CASE expired /\ ctx = "live" -> "timeout"
    [] ctx = "done" \/ expired \/ result = "cancel" -> "canceled"
    [] result = "plain" -> "error"
    [] OTHER -> "success"

ExecutorReturns ==
  /\ pc = "executing"
  /\ \E result \in {"ok"} \cup ErrorClasses :
       \E expired \in (IF Call \in HasTimeout THEN BOOLEAN ELSE {FALSE}) :
         Finish("executing", ExecutorStatus(result, expired))
  /\ UNCHANGED <<CallLeaves, stream, inSelect, decision>>

\* Mutant of MoreCalls: a canceled call breaks out of the batch.
MoreCallsUnlessStopped == idx < Len(calls) /\ outcome # "canceled"

MoreCalls == idx < Len(calls)

\* Mutant of Stops: an earlier cancellation in the batch is forgotten.
StopsForgets == outcome = "canceled"

\* The batch is canceled, by this call or before it.
Stops == canceled \/ outcome = "canceled"

AfterBatch == IF Stops THEN "cancelTry" ELSE "prepare"

\* The end of a call: the result joins the transcript only once its event is
\* out.  A canceled call, and each call skipped after it, is reported over a
\* background context.
EmitToolEnd ==
  /\ EmitOn(Stops, "toolEnd", Event("ToolEnd", idx, outcome),
            IF MoreCalls THEN "toolStart" ELSE AfterBatch, "closed")
  /\ IF pc' = "closed"
       THEN UNCHANGED <<messages, canceled, idx, round, failure>>
       ELSE /\ messages' = Append(messages, ToolResult(idx, outcome))
            /\ canceled' = Stops
            /\ idx' = IF MoreCalls THEN idx + 1 ELSE idx
            /\ round' = IF MoreCalls \/ Stops THEN round ELSE round + 1
            /\ failure' = IF Stops THEN "cancel" ELSE failure
  /\ UNCHANGED <<gate, ctx, deltas, calls, decision, outcome>>

-----------------------------------------------------------------------------
(* Ending in an error *)

\* Mutant of Fail: the loop goes on after it reported an error.
FailGoesOn ==
  /\ Emit("fail", Event("Error", 0, failure), "prepare", "closed")
  /\ UNCHANGED <<gate, ctx, Control, failure>>

Fail ==
  /\ Emit("fail", Event("Error", 0, failure), "closed", "closed")
  /\ UNCHANGED <<gate, ctx, Control, failure>>

\* emitCancellation: try to send, and if the channel was full drop its
\* oldest event (unless the reader has just emptied it) to make room.
CancelTry ==
  /\ IF HasRoom
       THEN stream' = Append(stream, Event("Error", 0, failure)) /\ Goto("cancelTry", "closed")
       ELSE Goto("cancelTry", "cancelDrop") /\ UNCHANGED stream
  /\ inSelect' = FALSE
  /\ UNCHANGED <<gate, ctx, Control, failure>>

CancelDrop ==
  /\ Goto("cancelDrop", "closed")
  /\ stream' = Append(IF stream = <<>> THEN <<>> ELSE Tail(stream), Event("Error", 0, failure))
  /\ UNCHANGED <<gate, ctx, inSelect, Control, failure>>

-----------------------------------------------------------------------------
(* Behaviours *)

\* The goroutine's own steps, those that wait only for the channel.
RunStep ==
  \/ Start \/ EmitRunStart \/ EmitTurnStart \/ Prepare \/ EmitContextPrepared
  \/ EmitSummaryCandidate \/ OpenStream \/ EmitMessageStart \/ EmitDelta
  \/ ReceiveCanceled \/ EmitMessageEnd \/ RoundDone \/ EmitTurnEnd \/ EmitRunEnd
  \/ EmitToolStart \/ Execute \/ RequestApproval \/ MissingGate \/ EmitDecision
  \/ EmitToolEnd \/ Fail \/ CancelTry \/ CancelDrop

\* The steps that wait for the provider, the gate or an executor.
ProviderStep == ReceiveDelta \/ ReceiveDone \/ ReceiveError
ToolStep == Decide \/ ExecutorReturns

AgentStep == RunStep \/ ProviderStep \/ ToolStep

\* The reader of the stream takes the oldest event.
Read ==
  /\ stream # <<>>
  /\ stream' = Tail(stream)
  /\ UNCHANGED <<gate, ctx, pc, inSelect, round, deltas, messages, calls, idx, decision,
                 outcome, canceled, failure>>

Next == AgentStep \/ CancelRun \/ Read

Spec == Init /\ [][Next]_vars

\* The scheduler runs a ready goroutine.  The gate and the executors get a
\* context and are assumed to answer once it is done.  Nothing is assumed of
\* the provider, nor of the reader: Runtime.Run leaves its loop over the stream
\* when a send of its own loses to a done context (runtime.go L135-137).
FairSpec ==
  /\ Spec
  /\ WF_vars(RunStep)
  /\ WF_vars(ctx = "done" /\ ToolStep)

-----------------------------------------------------------------------------
(* Properties *)

PCs ==
  Emitting \cup {"start", "prepare", "open", "receive", "roundDone", "execute",
                 "deciding", "executing", "cancelTry", "cancelDrop", "closed"}

Infos == Statuses \cup ErrorClasses \cup
         {"none", "approved", "gateError"}

EventType == [kind : EventKinds, n : 0..MaxCalls, info : Infos]

MessageType ==
  [role : {"user", "assistant", "tool"}, calls : 0..MaxCalls,
   id : 0..MaxCalls, status : Statuses \cup {"none"}]

\* The type of every variable.
TypeOK ==
  /\ gate \in BOOLEAN
  /\ ctx \in {"live", "done"}
  /\ stream \in Seq(EventType)
  /\ Len(stream) <= StreamCap
  /\ pc \in PCs
  /\ inSelect \in BOOLEAN
  /\ round \in Nat
  /\ deltas \in 0..MaxDeltas
  /\ messages \in Seq(MessageType)
  /\ calls \in Seq(ToolName)
  /\ Len(calls) <= MaxCalls
  /\ idx \in 0..MaxCalls
  /\ decision \in {"none", "approved", "denied", "canceled", "gateError"}
  /\ outcome \in Statuses \cup {"none"}
  /\ canceled \in BOOLEAN
  /\ failure \in ErrorClasses

Terminal(event) == event.kind \in {"RunEnd", "Error"}

\* A terminal event is the last thing the run sends: after it the channel is
\* closed.  (stream, L49-219: every emit of an Error or RunEnd is followed by
\* a return, also the one that makes room in a full channel.)
TerminalIsLast ==
  \A i \in 1..Len(stream) :
    Terminal(stream[i]) => i = Len(stream) /\ pc = "closed"

\* A canceled call ends the run: the calls after it are skipped, and no later
\* round shows the cancellation to the provider (L169-216).
CancellationEndsBatch ==
  \A i \in 1..Len(messages) :
    messages[i].status = "canceled" =>
      /\ \A j \in (i + 1)..Len(messages) : messages[j].status = "skipped"
      /\ pc \in {"toolStart", "toolEnd", "cancelTry", "cancelDrop", "closed"}

\* An executor runs only for a tool the request allows, and when the tool
\* needs approval only after the gate approved this very call, with the
\* batch not canceled (execute, governed_tools.go L302-412).
GovernedExecution ==
  pc = "executing" =>
    /\ Call \in Allowed
    /\ Call \in NeedsApproval => gate /\ decision = "approved"
    /\ ~canceled

\* Every call is answered before the provider is asked again, whatever became
\* of the calls of earlier rounds (an unpaired transcript would fail in
\* toLLMMessages, message.go L49-77), and at the end of every run whose
\* context is live, also after a call that its executor canceled.  Only the
\* end of the context leaves calls without a result (L150-217).
CallsResulted ==
  pc \in {"prepare", "open"} \/ (pc = "closed" /\ ctx = "live") => Paired(messages)

\* The goroutine waits for room with an event of a canceled batch, which goes
\* out over a background context (L170, L198-200).
Stuck ==
  /\ ~HasRoom
  /\ \/ pc = "toolStart" /\ canceled
     \/ pc = "toolEnd" /\ Stops

\* When the run context ends the goroutine comes to its end, whether or not
\* the stream is read and even if the provider never sends another event
\* (L234-270 selects on ctx.Done), if the gate and the executors heed their
\* context.  One case is left: a call was canceled, nobody reads the full
\* channel any more, and the goroutine waits for room forever.
CancelStopsRun == <>[](ctx = "done" => pc = "closed" \/ Stuck)

=============================================================================
