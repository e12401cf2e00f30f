------------------------------ MODULE RunReport ------------------------------
(***************************************************************************)
(* How the client of a turn learns of it.  The Session (session.go,        *)
(* runPrompt) passes the events of its Runtime on through a channel; they  *)
(* are read by forwardStreamEvents (application/service/session.go), which *)
(* turns them into the events of a stream that the HTTP handler writes, by *)
(* collectRunResult, which makes the one reply of Run of them, or by       *)
(* collectRunOutput of the command line (cmd/cli/main.go).                 *)
(*                                                                         *)
(* The Runtime is the environment.  Each provider message brings pieces of *)
(* text and a batch of calls, and each call is started and ended before    *)
(* the next (AgentLoop, RuntimeRun).  The arguments of a call, the digest  *)
(* of them in the event that starts it, and the content and error mark of  *)
(* its result are its number in the turn; its identifier is what the       *)
(* provider says, and may repeat.                                          *)
(***************************************************************************)
EXTENDS Integers, SequencesExt

CONSTANTS
  Modes,      \* the ways to ask: "stream", "run" and "command"
  CallId,     \* identifiers of tool calls
  Batches,    \* the identifiers of the calls of one message; <<>> is an answer
  MaxRounds,  \* bound: messages with calls in a turn
  MaxPieces,  \* bound: text deltas of a message
  OutCap      \* capacity of the Session's channel (64 in the code)

ASSUME ReportAssumption ==
  /\ Modes \subseteq {"stream", "run", "command"}
  /\ \A batch \in Batches : batch \in Seq(CallId)
  /\ {MaxRounds, MaxPieces} \subseteq Nat
  /\ OutCap \in Nat \ {0}

VARIABLES
  mode,     \* how this client asks
  ctx,      \* the context of the request
  todo,     \* the events of the last message and its calls still to come
  seen,     \* the events the Session has received: the turn so far
  session,  \* the Session's goroutine and the event in its hand
  kept,     \* the turn is committed
  recorded, \* its use is recorded in the metadata store
  out,      \* the Session's channel
  reader,   \* the loop over that channel: its locals
  handed,   \* what the HTTP handler has taken from the stream and not written
  told      \* what the client was told

runtime == <<todo, seen>>
vars == <<mode, ctx, runtime, session, kept, recorded, out, reader, handed, told>>

-----------------------------------------------------------------------------
(* Events *)

Blank == [kind |-> "none", text |-> <<>>, calls |-> <<>>, id |-> "none",
          n |-> 0]

Delta(piece) == [Blank EXCEPT !.kind = "delta", !.text = <<piece>>]
MessageEnd(text, calls) == [Blank EXCEPT !.kind = "message", !.text = text, !.calls = calls]
Started(call) == [Blank EXCEPT !.kind = "start", !.id = call.id, !.n = call.n]
Ended(call) == [Blank EXCEPT !.kind = "end", !.id = call.id, !.n = call.n]
Completed == [Blank EXCEPT !.kind = "completed"]
Failed == [Blank EXCEPT !.kind = "failed"]

\* The ErrorEvent of a Prompt that starts no run.
Refused == [Blank EXCEPT !.kind = "refused"]

\* What a client is told besides deltas: a call with the arguments shown for
\* it, a result, and the terminal events.
ToolCall(id, n) == [Blank EXCEPT !.kind = "tool_call", !.id = id, !.n = n]
ToolResult(event) == [Blank EXCEPT !.kind = "tool_result", !.id = event.id, !.n = event.n]
Done(answer) == [Blank EXCEPT !.kind = "done", !.text = answer]
Error == [Blank EXCEPT !.kind = "error"]

\* The reply of Run, and what the command line prints, also hold the steps.
NewStep(id, args) == [id |-> id, args |-> args, result |-> 0]
DoneWith(answer, steps) == [Done(answer) EXCEPT !.calls = steps]

-----------------------------------------------------------------------------
(* The Runtime *)

\* How many events of a kind the turn has had.
Count(kind) == Cardinality({i \in 1..Len(seen) : seen[i].kind = kind})

\* Where the message is that the i-th event of the turn belongs to, and the last.
MessageOf(i) == Max({m \in 1..i : seen[m].kind = "message"})
LastMessage == seen[MessageOf(Len(seen))]

Init ==
  /\ mode \in Modes
  /\ ctx = "live"
  /\ todo = <<>>
  /\ seen = <<>>
  /\ session = [at |-> "prompt", event |-> Blank]
  /\ kept = FALSE
  /\ recorded = FALSE
  /\ out = <<>>
  /\ reader = [at |-> "loop", event |-> Blank, answer |-> <<>>, steps |-> <<>>,
               stepOf |-> [id \in CallId |-> 0], argsOf |-> [id \in CallId |-> 0]]
  /\ handed = Blank
  /\ told = <<>>

\* The command line runs under a background context.
EndContext ==
  /\ ctx = "live"
  /\ mode # "command"
  /\ ctx' = "done"
  /\ UNCHANGED <<mode, runtime, session, kept, recorded, out, reader, handed, told>>

\* The run has its answer.
Answered == seen # <<>> /\ todo = <<>> /\ LastMessage.calls = <<>>

\* The events of some calls, one after the other.
CallEvents(calls) ==
  [k \in 1..2 * Len(calls) |-> IF k % 2 = 1 THEN Started(calls[(k + 1) \div 2])
                               ELSE Ended(calls[k \div 2])]

\* The events of a message of some pieces of text and a batch of calls.
MessageEvents(pieces, batch) ==
  LET m == Count("message") + 1
      n == Count("end")
      text == [k \in 1..pieces |-> <<m, k>>]
      calls == [k \in 1..Len(batch) |-> [id |-> batch[k], n |-> n + k]]
  IN  [k \in 1..pieces |-> Delta(text[k])] \o <<MessageEnd(text, calls)>> \o CallEvents(calls)

\* The provider sends its next message; one without calls has a text.
ProviderAnswers ==
  /\ session.at = "receive"
  /\ todo = <<>>
  /\ ~Answered
  /\ \E pieces \in 0..MaxPieces, batch \in Batches :
       /\ batch = <<>> => pieces > 0
       /\ batch # <<>> => Count("message") < MaxRounds
       /\ todo' = MessageEvents(pieces, batch)
  /\ UNCHANGED <<mode, ctx, seen, session, kept, recorded, out, reader, handed, told>>

-----------------------------------------------------------------------------
(* The Session *)

\* Prompt: under a done context no run starts, and the stream holds an error.
Prompt ==
  /\ session.at = "prompt"
  /\ IF ctx = "live"
       THEN session' = [session EXCEPT !.at = "receive"] /\ UNCHANGED out
       ELSE session' = [session EXCEPT !.at = "closed"] /\ out' = <<Refused>>
  /\ UNCHANGED <<mode, ctx, runtime, kept, recorded, reader, handed, told>>

\* Mutant of Skips: the Session tries to send whatever the context is.
NeverSkips == FALSE

\* Events that arrive after the end of the context are not passed on.
Skips == ctx = "done"

\* An event of the Runtime joins the turn.
Receive ==
  /\ session.at = "receive"
  /\ todo # <<>>
  /\ todo' = Tail(todo)
  /\ seen' = Append(seen, Head(todo))
  /\ session' = IF Skips THEN session ELSE [at |-> "emit", event |-> Head(todo)]
  /\ UNCHANGED <<mode, ctx, kept, recorded, out, reader, handed, told>>

HasRoom == Len(out) < OutCap

\* Mutant of Emit: the send waits for room alone.
EmitOnly ==
  /\ session.at = "emit"
  /\ HasRoom /\ out' = Append(out, session.event)
  /\ session' = [session EXCEPT !.at = "receive"]
  /\ UNCHANGED <<mode, ctx, runtime, kept, recorded, reader, handed, told>>

\* emitSessionEvent: a select between room in the channel and the context.
Emit ==
  /\ session.at = "emit"
  /\ \/ HasRoom /\ out' = Append(out, session.event)
     \/ ctx = "done" /\ UNCHANGED out
  /\ session' = [session EXCEPT !.at = "receive"]
  /\ UNCHANGED <<mode, ctx, runtime, kept, recorded, reader, handed, told>>

\* The run completes; the turn is committed, or the append fails.
RunCompletes ==
  /\ session.at = "receive"
  /\ Answered
  /\ \/ kept' = TRUE /\ session' = [at |-> "terminal", event |-> Completed]
     \/ UNCHANGED kept /\ session' = [at |-> "terminal", event |-> Failed]
  /\ UNCHANGED <<mode, ctx, runtime, recorded, out, reader, handed, told>>

\* The run fails, is canceled, or ends without a terminal event: the readers
\* make the same of each.
RunFails ==
  /\ session.at = "receive"
  /\ session' = [at |-> "terminal", event |-> Failed]
  /\ UNCHANGED <<mode, ctx, runtime, kept, recorded, out, reader, handed, told>>

\* emitSessionTerminal waits for room whatever becomes of the context.
EmitTerminal ==
  /\ session.at = "terminal"
  /\ HasRoom
  /\ out' = Append(out, session.event)
  /\ session' = [session EXCEPT !.at = "closed"]
  /\ UNCHANGED <<mode, ctx, runtime, kept, recorded, reader, handed, told>>

-----------------------------------------------------------------------------
(* The readers: forwardStreamEvents, collectRunResult, collectRunOutput *)

Go(at) == [reader EXCEPT !.at = at]
ThenSend(event, r) == [r EXCEPT !.at = "send", !.event = event]

Replies(event) == told' = Append(told, event) /\ reader' = Go("closed")

\* The next event of the channel, for the readers that look at its kind.
Take(kinds) ==
  /\ reader.at = "loop"
  /\ out # <<>>
  /\ Head(out).kind \in kinds
  /\ out' = Tail(out)
  /\ UNCHANGED <<mode, ctx, runtime, session, kept, recorded, handed>>

\* Pieces of text are for streams only.
TakeDelta ==
  /\ Take({"delta"})
  /\ reader' = IF mode # "stream" THEN reader
               ELSE ThenSend(Head(out), [reader EXCEPT !.answer = @ \o Head(out).text])
  /\ UNCHANGED told

\* The calls of a message with an identifier.
CallsWith(id, calls) == {k \in 1..Len(calls) : calls[k].id = id}

\* argumentsByCallID after a message: later calls overwrite earlier ones.
ArgsAfter(args, calls) ==
  [id \in CallId |-> IF CallsWith(id, calls) = {} THEN args[id]
                     ELSE calls[Max(CallsWith(id, calls))].n]

TakeMessage ==
  /\ Take({"message"})
  /\ LET event == Head(out)
     IN reader' = [reader EXCEPT
          !.argsOf = ArgsAfter(@, event.calls),
          !.answer = IF event.calls = <<>> THEN event.text ELSE @]
  /\ UNCHANGED told

\* A step begins, with the arguments remembered for its identifier.
TakeStart ==
  /\ Take({"start"})
  /\ LET id == Head(out).id
         step == NewStep(id, reader.argsOf[id])
     IN reader' = IF mode = "stream" THEN ThenSend(ToolCall(id, reader.argsOf[id]), reader)
                  ELSE [reader EXCEPT !.stepOf[id] = Len(reader.steps) + 1,
                                      !.steps = Append(@, step)]
  /\ UNCHANGED told

\* The step that the identifier stands for has its result.
TakeEnd ==
  /\ Take({"end"})
  /\ LET event == Head(out)
         known == reader.stepOf[event.id] # 0
         steps == IF known THEN reader.steps
                  ELSE Append(reader.steps, NewStep(event.id, 0))
         i == IF known THEN reader.stepOf[event.id] ELSE Len(steps)
     IN reader' = IF mode = "stream" THEN ThenSend(ToolResult(event), reader)
                  ELSE [reader EXCEPT
                    !.stepOf[event.id] = i,
                    !.steps = [steps EXCEPT ![i].result = event.n]]
  /\ UNCHANGED told

\* A stream records the use as soon as the run has completed; the others read
\* on, to the end of the channel.
TakeCompleted ==
  /\ Take({"completed"})
  /\ reader' = IF mode = "stream" THEN Go("record") ELSE reader
  /\ UNCHANGED told

\* Mutant of TakeFailed: the stream ends without a word.
TakeFailedSilently ==
  /\ Take({"failed"})
  /\ IF mode = "stream" THEN reader' = Go("closed") /\ UNCHANGED told ELSE Replies(Error)

TakeFailed ==
  /\ Take({"failed"})
  /\ IF mode = "stream" THEN reader' = ThenSend(Error, reader) /\ UNCHANGED told
     ELSE Replies(Error)

\* The service does not look at an ErrorEvent; the command line does.
TakeRefused ==
  /\ Take({"refused"})
  /\ IF mode = "command" THEN Replies(Error) ELSE UNCHANGED <<reader, told>>

\* The channel is closed: a stream ends, the others record the use.
ChannelEnds ==
  /\ reader.at = "loop"
  /\ out = <<>> /\ session.at = "closed"
  /\ reader' = Go(IF mode = "stream" THEN "closed" ELSE "record")
  /\ UNCHANGED <<mode, ctx, runtime, session, kept, recorded, out, handed, told>>

\* Mutant of CanRecord: the metadata store looks at no context.
CanRecordAlways == TRUE

\* The metadata store refuses a request whose context is done.
CanRecord == ctx = "live"

\* persistRunSuccess, touchManagedSession; then the last word to the client.
Record ==
  /\ reader.at = "record"
  /\ \/ /\ CanRecord
        /\ recorded' = TRUE
        /\ IF mode = "stream"
             THEN reader' = ThenSend(Done(reader.answer), reader) /\ UNCHANGED told
             ELSE Replies(DoneWith(reader.answer, reader.steps))
     \/ /\ UNCHANGED recorded
        /\ IF mode = "stream"
             THEN reader' = ThenSend(Error, reader) /\ UNCHANGED told
             ELSE Replies(Error)
  /\ UNCHANGED <<mode, ctx, runtime, session, kept, out, handed>>

\* sendStreamEvent: a select between the handler, which takes an event when it
\* has written the one before, and the context, whose end ends the stream.
Send ==
  /\ reader.at = "send"
  /\ \/ /\ handed = Blank
        /\ handed' = reader.event
        /\ reader' = Go(IF reader.event.kind \in {"done", "error"} THEN "closed" ELSE "loop")
     \/ /\ ctx = "done"
        /\ UNCHANGED handed
        /\ reader' = Go("closed")
  /\ UNCHANGED <<mode, ctx, runtime, session, kept, recorded, out, told>>

\* The handler writes an event to the client.
Write ==
  /\ handed # Blank
  /\ told' = Append(told, handed)
  /\ handed' = Blank
  /\ UNCHANGED <<mode, ctx, runtime, session, kept, recorded, out, reader>>

-----------------------------------------------------------------------------
(* Behaviours *)

SessionStep == Prompt \/ ProviderAnswers \/ Receive \/ Emit \/ RunCompletes \/ RunFails \/ EmitTerminal

ReaderStep ==
  \/ TakeDelta \/ TakeMessage \/ TakeStart \/ TakeEnd
  \/ TakeCompleted \/ TakeFailed \/ TakeRefused
  \/ ChannelEnds \/ Record \/ Send

Next == EndContext \/ SessionStep \/ ReaderStep \/ Write

Spec == Init /\ [][Next]_vars

\* Every goroutine runs, every run ends, and a write to a client returns.
FairSpec == Spec /\ WF_vars(SessionStep) /\ WF_vars(ReaderStep) /\ WF_vars(Write)

-----------------------------------------------------------------------------
(* Properties *)

Kinds == {"delta", "message", "start", "end", "completed", "failed", "refused"}
ToldKinds == {"delta", "tool_call", "tool_result", "done", "error"}

\* The type of every variable.
TypeOK ==
  /\ mode \in Modes
  /\ ctx \in {"live", "done"}
  /\ \A i \in 1..Len(seen) : seen[i].kind \in Kinds
  /\ session.at \in {"prompt", "receive", "emit", "terminal", "closed"}
  /\ {kept, recorded} \subseteq BOOLEAN
  /\ Len(out) <= OutCap
  /\ \A i \in 1..Len(out) : out[i].kind \in Kinds
  /\ reader.at \in {"loop", "send", "record", "closed"}
  /\ \A id \in CallId : reader.stepOf[id] \in 0..Len(reader.steps)
  /\ handed.kind \in ToldKinds \cup {"none"}
  /\ \A i \in 1..Len(told) : told[i].kind \in ToldKinds

IsTerminal(event) == event.kind \in {"done", "error"}

\* The message of the i-th event, of a call, gives its identifier to more calls.
Repeated(i) == \E k, l \in CallsWith(seen[i].id, seen[MessageOf(i)].calls) : k # l

\* The arguments to be shown for the i-th event, of a call: the call's own.  Where
\* its message repeats the identifier, those of the last call that has it pass.
ArgsShown(i) ==
  IF ~Repeated(i) THEN seen[i].n
  ELSE LET calls == seen[MessageOf(i)].calls
       IN  calls[Max(CallsWith(seen[i].id, calls))].n

\* The turn up to the i-th event as the steps of a reply, and as a stream: its
\* text, and each call followed by its result.
Step(i) ==
  IF seen[i].kind # "end" THEN <<>>
  ELSE <<[id |-> seen[i].id, args |-> ArgsShown(i), result |-> seen[i].n]>>
StepsTo(i) == FlattenSeq([k \in 1..i |-> Step(k)])

Said(i) ==
  CASE seen[i].kind = "delta" -> <<seen[i]>>
    [] seen[i].kind = "start" -> <<ToolCall(seen[i].id, ArgsShown(i))>>
    [] seen[i].kind = "end" -> <<ToolResult(seen[i])>>
    [] OTHER -> <<>>
SaidTo(i) == FlattenSeq([k \in 1..i |-> Said(k)])

\* What a client was told before the terminal event.
Body == IF told # <<>> /\ IsTerminal(Last(told)) THEN Front(told) ELSE told

\* At every moment a streaming client has been told the turn as it happened,
\* up to some point: nothing is missing in between, doubled or out of order,
\* each call has the result of that call and its arguments, also when another
\* message has used its identifier, and after a terminal event comes nothing
\* (runPrompt L177, forwardStreamEvents L559-611).  Excused is a message that
\* repeats an identifier: each call with it is told with the arguments of the
\* last (L586-589).
ToldInOrder ==
  mode = "stream" =>
    /\ IsPrefix(Body, SaidTo(Len(seen)))
    /\ \A i \in 1..Len(told) : IsTerminal(told[i]) => i = Len(told)

\* A client is told "done" only of a turn that is committed and recorded, with
\* the text of its last message as the answer, and has by then been told of
\* every step of the turn, with the arguments and the result of its call: also
\* when the context ended on the way and events were dropped, which the terminal
\* event does not say (runPrompt L177-179, collectRunResult L623-663).  The
\* arguments are excused as above, where a message repeats an identifier.
DoneTellsTheTurn ==
  told # <<>> /\ Last(told).kind = "done" =>
    /\ kept /\ recorded
    /\ Last(told).text = LastMessage.text
    /\ IF mode = "stream" THEN Body = SaidTo(Len(seen)) ELSE Last(told).calls = StepsTo(Len(seen))

Over == reader.at = "closed" /\ handed = Blank

\* A client that is still there is told how its turn ended, and an error means
\* that the turn was not both committed and recorded; a stream ends without a
\* word only when its context has ended (forwardStreamEvents L594-609).  The
\* types of the variables are part of it.
AnsweredUnlessGone ==
  /\ TypeOK
  /\ Over =>
       \/ told # <<>> /\ Last(told).kind = "done"
       \/ told # <<>> /\ Last(told).kind = "error" /\ ~(kept /\ recorded)
       \/ mode = "stream" /\ ctx = "done"

\* The Session waits for room in the channel of a reader that has gone.
Stuck == session.at = "terminal" /\ ~HasRoom /\ reader.at = "closed"

\* Every request ends, and with it the Session's goroutine, unless its reader
\* left it with a full channel and the terminal event to send (session.go L257
\* looks at no context).
ReportEnds == <>(Over /\ (session.at = "closed" \/ Stuck))

=============================================================================
