----------------------------- MODULE RuntimeRun ------------------------------
(***************************************************************************)
(* Runtime.Run (internal/agent/runtime.go): the goroutine that forwards    *)
(* the events of one Agent run to its caller, turns the run's last event   *)
(* into one of three terminal events, and asks the memory extractor before *)
(* it reports completion.  It composes AgentLoop, whose stream it reads,   *)
(* with a caller that rebuilds the transcript from the events it receives, *)
(* as session.go does.                                                     *)
(***************************************************************************)
EXTENDS AgentLoop

CONSTANTS
  HasExtractor,  \* whether the request carries a MemoryExtractor
  OutCap         \* capacity of the channel returned by Run (64 in the code)

ASSUME RuntimeAssumption == HasExtractor \in BOOLEAN /\ OutCap \in Nat \ {0}

VARIABLES
  out,         \* buffered events of the channel returned by Run
  rpc,         \* where the forwarding goroutine is
  held,        \* the events it still has to send before it reads again
  background,  \* whether it sends them over a background context
  terminal,    \* terminal: a terminal event has been sent
  received     \* what the caller has received

runtimeVars == <<out, rpc, held, background, terminal>>
pipeVars == <<vars, runtimeVars, received>>

TerminalKinds == {"RunCompleted", "RunFailed", "RunCanceled"}
IsTerminal(event) == event.kind \in TerminalKinds

-----------------------------------------------------------------------------

\* The caller's transcript starts with the user message it sent.
RuntimeInit ==
  /\ Init
  /\ out = <<>>
  /\ rpc = "receive"
  /\ held = <<>>
  /\ background = FALSE
  /\ terminal = FALSE
  /\ received = [transcript |-> <<User>>, last |-> "none"]

\* The terminal event an Error of the run becomes.
ErrorTerminal(event) ==
  IF event.info = "cancel" \/ ctx = "done" THEN Plain("RunCanceled") ELSE Plain("RunFailed")

\* range underlying: take the oldest event and decide what to send for it.
Forward ==
  LET event == Head(stream)
  IN /\ rpc = "receive"
     /\ stream # <<>>
     /\ stream' = Tail(stream)
     /\ CASE event.kind = "RunEnd" /\ ~terminal ->
               /\ rpc' = IF HasExtractor THEN "extract" ELSE "try"
               /\ held' = <<Plain("RunCompleted")>>
          [] event.kind = "Error" /\ ~terminal ->
               /\ rpc' = "try"
               /\ held' = <<ErrorTerminal(event)>>
          [] Terminal(event) /\ terminal -> UNCHANGED <<rpc, held>>
          [] OTHER -> rpc' = "try" /\ held' = <<event>>
     /\ UNCHANGED <<gate, ctx, pc, inSelect, round, deltas, messages, calls, idx, decision,
                    outcome, canceled, failure, out, background, terminal, received>>

\* The extractor fails, proposes candidates, or proposes none; whatever it
\* says comes before RunCompleted and does not change it.
Extract ==
  /\ rpc = "extract"
  /\ rpc' = "try"
  /\ \E kinds \in {<<"MemoryExtractionFailed">>, <<"MemoryCandidate">>, <<>>} :
       held' = [i \in 1..Len(kinds) |-> Plain(kinds[i])] \o held
  /\ UNCHANGED <<vars, out, background, terminal, received>>

OutHasRoom == Len(out) < OutCap

\* Mutant of Terminates: a cancellation does not count as the terminal event.
TerminatesUnlessCanceled(event) ==
  terminal \/ event.kind \in {"RunCompleted", "RunFailed"}

Terminates(event) == terminal \/ IsTerminal(event)

\* emitRuntimeEvent, when the event goes out.
SendHeld ==
  /\ OutHasRoom
  /\ out' = Append(out, Head(held))
  /\ held' = Tail(held)
  /\ terminal' = Terminates(Head(held))
  /\ rpc' = CASE Len(held) > 1 -> "try"
              [] background -> "closed"
              [] OTHER -> "receive"

\* Mutant of TrySend: an event that finds the channel full is dropped.
TrySendOrDrop ==
  /\ rpc = "try"
  /\ IF OutHasRoom
       THEN SendHeld
       ELSE rpc' = "receive" /\ held' = <<>> /\ UNCHANGED <<out, terminal>>
  /\ UNCHANGED <<vars, background, received>>

\* It first tries without looking at ctx, and only then waits.
TrySend ==
  /\ rpc = "try"
  /\ IF OutHasRoom
       THEN SendHeld
       ELSE rpc' = "wait" /\ UNCHANGED <<out, held, terminal>>
  /\ UNCHANGED <<vars, background, received>>

\* Waiting for room or for ctx; losing to ctx ends the goroutine.
WaitSend ==
  /\ rpc = "wait"
  /\ \/ SendHeld
     \/ /\ ~background
        /\ ctx = "done"
        /\ rpc' = "closed"
        /\ UNCHANGED <<out, held, terminal>>
  /\ UNCHANGED <<vars, background, received>>

\* Mutant of StreamClosed: no terminal event is made up.
StreamClosedSilently ==
  /\ rpc = "receive"
  /\ pc = "closed"
  /\ stream = <<>>
  /\ rpc' = "closed"
  /\ UNCHANGED <<vars, out, held, background, terminal, received>>

\* Mutant of StreamClosed: only a run with a terminal event ends.
StreamClosedIfTerminal ==
  /\ rpc = "receive"
  /\ terminal
  /\ pc = "closed"
  /\ stream = <<>>
  /\ rpc' = "closed"
  /\ UNCHANGED <<vars, out, held, background, terminal, received>>

\* The Agent closed its stream.  A run without a terminal event is given one,
\* sent over a background context.
StreamClosed ==
  /\ rpc = "receive"
  /\ pc = "closed"
  /\ stream = <<>>
  /\ IF terminal
       THEN rpc' = "closed" /\ UNCHANGED <<held, background>>
       ELSE /\ rpc' = "try"
            /\ held' = <<Plain(IF ctx = "done" THEN "RunCanceled" ELSE "RunFailed")>>
            /\ background' = TRUE
  /\ UNCHANGED <<vars, out, terminal, received>>

RuntimeStep == Forward \/ Extract \/ TrySend \/ WaitSend \/ StreamClosed

\* The caller takes the oldest event; a complete message or a tool result
\* joins the transcript it keeps (session.go, applyTerminalEvent).
Receive ==
  LET event == Head(out)
  IN /\ out # <<>>
     /\ out' = Tail(out)
     /\ received' =
          CASE event.kind = "MessageEnd" ->
                 [received EXCEPT !.transcript = Append(@, Assistant(event.n))]
            [] event.kind = "ToolEnd" ->
                 [received EXCEPT !.transcript = Append(@, ToolResult(event.n, event.info))]
            [] IsTerminal(event) -> [received EXCEPT !.last = event.kind]
            [] OTHER -> received
     /\ UNCHANGED <<vars, rpc, held, background, terminal>>

AgentOrCancel == (AgentStep \/ CancelRun) /\ UNCHANGED <<runtimeVars, received>>

RuntimeNext == AgentOrCancel \/ RuntimeStep \/ Receive

RuntimeSpec == RuntimeInit /\ [][RuntimeNext]_pipeVars

\* The scheduler runs both goroutines.  A caller that never cancels is
\* promised an end only if the provider, the gate and the executors answer.
Runs ==
  /\ WF_pipeVars(RunStep /\ UNCHANGED <<runtimeVars, received>>)
  /\ WF_pipeVars(RuntimeStep)

Answers ==
  /\ SF_pipeVars((ReceiveDone \/ ReceiveError) /\ UNCHANGED <<runtimeVars, received>>)
  /\ WF_pipeVars(ToolStep /\ UNCHANGED <<runtimeVars, received>>)

Listens == WF_pipeVars(Receive)

FairRuntimeSpec == RuntimeSpec /\ Runs /\ Answers /\ Listens

-----------------------------------------------------------------------------
(* Properties *)

OutKinds == (EventKinds \ {"RunEnd", "Error"}) \cup TerminalKinds \cup
            {"MemoryCandidate", "MemoryExtractionFailed"}
OutEvent == [kind : OutKinds, n : 0..MaxCalls, info : Infos]

\* The type of every variable.
RuntimeTypeOK ==
  /\ TypeOK
  /\ out \in Seq(OutEvent)
  /\ Len(out) <= OutCap
  /\ rpc \in {"receive", "extract", "try", "wait", "closed"}
  /\ held \in Seq(OutEvent)
  /\ background \in BOOLEAN
  /\ terminal \in BOOLEAN
  /\ received \in [transcript : Seq(MessageType), last : TerminalKinds \cup {"none"}]

\* The terminal event is the last event of the channel, it comes at most
\* once, and nothing is sent once the caller has it (Run, L92-172).  The
\* types of the variables, and with them the two capacities, are part of it.
OneTerminal ==
  /\ RuntimeTypeOK
  /\ \A i \in 1..Len(out) :
       IsTerminal(out[i]) => i = Len(out) /\ terminal /\ received.last = "none"
  /\ received.last # "none" => out = <<>> /\ terminal
  /\ terminal => pc = "closed" /\ stream = <<>> /\ held = <<>>

\* A caller told that the run completed holds exactly the transcript the run
\* worked on: no message or result was lost or reordered on the two channels,
\* every call is answered, and the last message is the model's answer.
CompletedIsWhole ==
  received.last = "RunCompleted" =>
    /\ received.transcript = messages
    /\ Paired(messages)
    /\ messages[Len(messages)] = Assistant(0)

\* The channel closes without a terminal event only when the context was done
\* and the caller had let it fill up (emitRuntimeEvent, L174-190).
SilentEndMeansOverflow ==
  rpc = "closed" /\ ~terminal => ctx = "done" /\ held # <<>>

\* Canceled or not, the forwarding goroutine ends when its caller listens.
ForwardingEnds == <>(rpc = "closed")

\* The Agent's goroutine ends as well, unless the forwarding goroutine left
\* its loop at a done context (L122-137) and a canceled batch finds the stream
\* full: then it is blocked for good.
AgentGoroutineEnds == <>[](pc = "closed" \/ (rpc = "closed" /\ ctx = "done" /\ Stuck))

=============================================================================
