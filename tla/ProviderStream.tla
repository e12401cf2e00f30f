--------------------------- MODULE ProviderStream ---------------------------
(***************************************************************************)
(* One streamed answer of the OpenAI-compatible provider                   *)
(* (internal/llms/openai_compatible.go): the goroutine that reads the      *)
(* response, merges the fragments of tool calls and sends normalised       *)
(* events over a channel of capacity one, and the reader of that channel,  *)
(* which is the Agent or CollectChat.                                      *)
(*                                                                         *)
(* A text fragment is the number of the payload it came with.  The         *)
(* arguments of a tool call arrive in pieces; what matters of the JSON is  *)
(* whether the pieces make a valid value.                                  *)
(***************************************************************************)
EXTENDS Integers, SequencesExt

CONSTANTS
  Payloads,    \* SSE payloads the server may send
  MaxPayloads  \* bound: payloads of one response

Roles == {"assistant", "user"}
Pieces == {"none", "whole", "head", "tail"}

\* One entry of delta.tool_calls.
CallDeltas == [index : Int, id : BOOLEAN, name : BOOLEAN, args : Pieces]

\* A decoded chunk with a choice.  "none" stands for an absent role.
Chunk(role, text, reasoning, calls, finish) ==
  [kind |-> "chunk", role |-> role, text |-> text, reasoning |-> reasoning,
   calls |-> calls, finish |-> finish]

\* An empty data line, [DONE], a payload that is not JSON, an error object,
\* and a chunk without choices (a usage report).
OtherKinds == {"blank", "done", "malformed", "error", "usage"}
Other(kind) == [Chunk("none", FALSE, FALSE, <<>>, FALSE) EXCEPT !.kind = kind]

ASSUME PayloadAssumption ==
  /\ MaxPayloads \in Nat
  /\ \A p \in Payloads :
       /\ p.kind \in OtherKinds \cup {"chunk"}
       /\ p.role \in Roles \cup {"none"}
       /\ {p.text, p.reasoning, p.finish} \subseteq BOOLEAN
       /\ p.calls \in Seq(CallDeltas)

VARIABLES
  ctx,       \* the context of the request, "live" or "done"
  wire,      \* the payloads read so far
  pc,        \* where the goroutine is
  role,      \* the locals of the goroutine: the role,
  content,   \*   the text
  toolCalls, \*   and the calls merged so far
  ending,    \* the chunk in hand has a finish_reason
  pending,   \* the event the goroutine is about to send
  events,    \* the channel
  received,  \* the delta events the reader took
  outcome,   \* what the reader makes of the stream
  answer     \* the message it ended with

local == <<role, content, toolCalls, ending>>
reader == <<received, outcome, answer>>
streamVars == <<ctx, wire, pc, local, pending, events, reader>>

-----------------------------------------------------------------------------
(* Events *)

NoMessage == [role |-> "none", text |-> <<>>, calls |-> <<>>]

Event(type, text, reasoning, calls, message) ==
  [type |-> type, text |-> text, reasoning |-> reasoning, calls |-> calls,
   message |-> message]

\* text is the number of a payload, or 0.
Delta(text, reasoning, calls) == Event("delta", text, reasoning, calls, NoMessage)
Failure == Event("error", 0, FALSE, <<>>, NoMessage)
Done(message) == Event("done", 0, FALSE, <<>>, message)

IsEmpty(event) == event.text = 0 /\ ~event.reasoning /\ event.calls = <<>>

-----------------------------------------------------------------------------
(* Tool calls *)

\* A call of which nothing has arrived.
BlankCall == [id |-> FALSE, name |-> FALSE, args |-> <<>>]

ArgsPieces(piece) == IF piece = "none" THEN <<>> ELSE <<piece>>

\* A call with one more fragment: id and name are set, arguments appended.
Extended(call, delta) ==
  [id   |-> call.id \/ delta.id,
   name |-> call.name \/ delta.name,
   args |-> call.args \o ArgsPieces(delta.args)]

\* The list padded with blank calls so that it has the index (from 0).
Padded(calls, index) ==
  [k \in 1..(IF index + 1 > Len(calls) THEN index + 1 ELSE Len(calls)) |->
     IF k <= Len(calls) THEN calls[k] ELSE BlankCall]

MergeOne(calls, delta) ==
  LET padded == Padded(calls, delta.index)
  IN  [padded EXCEPT ![delta.index + 1] = Extended(@, delta)]

Mergeable(deltas) == \A k \in 1..Len(deltas) : deltas[k].index >= 0

\* mergeOpenAIStreamToolCalls, for deltas without a negative index.
Merge(calls, deltas) ==
  LET merged[k \in 0..Len(deltas)] ==
        IF k = 0 THEN calls ELSE MergeOne(merged[k - 1], deltas[k])
  IN  merged[Len(deltas)]

ValidArgs(args) == args \in {<<"whole">>, <<"head", "tail">>}

ValidCall(call) == call.id /\ call.name /\ ValidArgs(call.args)

\* Mutant of CallsAreValid: blank calls that fill gaps are not looked at.
CallsAreValidButGaps(calls) ==
  \A k \in 1..Len(calls) : ValidCall(calls[k]) \/ calls[k] = BlankCall

\* validateOpenAIStreamToolCalls.
CallsAreValid(calls) == \A k \in 1..Len(calls) : ValidCall(calls[k])

\* openAIStreamMessage: calls of which nothing arrived are left out.
StreamMessage(r, text, calls) ==
  [role |-> r, text |-> text,
   calls |-> FlattenSeq([k \in 1..Len(calls) |->
                           IF calls[k] = BlankCall THEN <<>> ELSE <<calls[k]>>])]

-----------------------------------------------------------------------------
(* The goroutine *)

StreamInit ==
  /\ ctx = "live"
  /\ wire = <<>>
  /\ pc = "request"
  /\ role = "assistant"
  /\ content = <<>>
  /\ toolCalls = <<>>
  /\ ending = FALSE
  /\ pending = Failure
  /\ events = <<>>
  /\ received = <<>>
  /\ outcome = "none"
  /\ answer = NoMessage

\* The request is answered with a status other than 2xx, or not at all:
\* ChatStream returns an error and starts no goroutine.
RequestFails ==
  /\ pc = "request"
  /\ pc' = "closed"
  /\ outcome' = "error"
  /\ UNCHANGED <<ctx, wire, local, pending, events, received, answer>>

Respond ==
  /\ pc = "request"
  /\ pc' = "check"
  /\ UNCHANGED <<ctx, wire, local, pending, events, reader>>

\* The goroutine sends the event next, and then goes to the given place.
SendNext(event) == pending' = event /\ pc' = IF event.type = "delta" THEN "sendDelta" ELSE "sendLast"

Finished(r, text, calls) ==
  IF CallsAreValid(calls) THEN Done(StreamMessage(r, text, calls)) ELSE Failure

\* The top of the loop: a done context ends the stream.
CheckContext ==
  /\ pc = "check"
  /\ IF ctx = "done"
       THEN SendNext(Failure)
       ELSE pc' = "read" /\ UNCHANGED pending
  /\ UNCHANGED <<ctx, wire, local, events, reader>>

\* Mutant of ReadFails: the loop tries again.
ReadFailsAndRetries ==
  /\ pc = "read"
  /\ pc' = "check"
  /\ UNCHANGED <<ctx, wire, local, pending, events, reader>>

\* The body ends, the client's timeout expires, the context ends, or the
\* connection breaks: an error in every case.
ReadFails ==
  /\ pc = "read"
  /\ SendNext(Failure)
  /\ UNCHANGED <<ctx, wire, local, events, reader>>

Take(p) ==
  /\ pc = "read"
  /\ Len(wire) < MaxPayloads
  /\ wire' = Append(wire, p)

\* Payloads that carry nothing.
ReadNothing(p) ==
  /\ p.kind \in {"blank", "usage"}
  /\ Take(p)
  /\ pc' = "check"
  /\ UNCHANGED <<ctx, local, pending, events, reader>>

ReadMarker(p) ==
  /\ p.kind = "done"
  /\ Take(p)
  /\ SendNext(Finished(role, content, toolCalls))
  /\ UNCHANGED <<ctx, local, events, reader>>

ReadRefused(p) ==
  /\ p.kind \in {"malformed", "error"} \/ ~Mergeable(p.calls)
  /\ Take(p)
  /\ SendNext(Failure)
  /\ UNCHANGED <<ctx, local, events, reader>>

\* A chunk with a choice: the locals change, and what the reader can show is
\* sent before the message that a finish_reason completes.
ReadChunk(p) ==
  /\ p.kind = "chunk" /\ Mergeable(p.calls)
  /\ Take(p)
  /\ role' = IF p.role = "none" THEN role ELSE p.role
  /\ content' = IF p.text THEN Append(content, Len(wire')) ELSE content
  /\ toolCalls' = Merge(toolCalls, p.calls)
  /\ ending' = p.finish
  /\ LET delta == Delta(IF p.text THEN Len(wire') ELSE 0, p.reasoning, p.calls)
     IN  IF ~IsEmpty(delta)
           THEN SendNext(delta)
           ELSE IF p.finish
           THEN SendNext(Finished(role', content', toolCalls'))
           ELSE pc' = "check" /\ UNCHANGED pending
  /\ UNCHANGED <<ctx, events, reader>>

Read ==
  \E p \in Payloads : ReadNothing(p) \/ ReadMarker(p) \/ ReadRefused(p) \/ ReadChunk(p)

HasRoom == events = <<>>

\* A send waits for room and looks at no context.
SendDelta ==
  /\ pc = "sendDelta"
  /\ HasRoom
  /\ events' = Append(events, pending)
  /\ IF ending
       THEN SendNext(Finished(role, content, toolCalls))
       ELSE pc' = "check" /\ UNCHANGED pending
  /\ UNCHANGED <<ctx, wire, local, reader>>

SendLast ==
  /\ pc = "sendLast"
  /\ HasRoom
  /\ events' = Append(events, pending)
  /\ pc' = "closed"
  /\ UNCHANGED <<ctx, wire, local, pending, reader>>

-----------------------------------------------------------------------------
(* The reader *)

\* validateProviderDoneRole and validateAssistantMessage.
Usable(message) ==
  /\ message.role = "assistant"
  /\ message.text # <<>> \/ message.calls # <<>>

\* streamAssistantMessage and CollectChat end with the first event that is
\* not a delta, or with an error when the channel closes before one.
Receive ==
  /\ outcome = "none"
  /\ \/ /\ events # <<>>
        /\ events' = Tail(events)
        /\ LET event == Head(events)
           IN  \/ /\ event.type = "delta"
                  /\ received' = Append(received, event)
                  /\ UNCHANGED <<outcome, answer>>
               \/ /\ event.type = "error"
                  /\ outcome' = "error"
                  /\ UNCHANGED <<received, answer>>
               \/ /\ event.type = "done"
                  /\ outcome' = IF Usable(event.message) THEN "answer" ELSE "error"
                  /\ answer' = event.message
                  /\ UNCHANGED received
     \/ /\ events = <<>> /\ pc = "closed"
        /\ outcome' = "closed"
        /\ UNCHANGED <<events, received, answer>>
  /\ UNCHANGED <<ctx, wire, pc, local, pending>>

\* The run context ends, and the Agent stops reading; CollectChat reads on.
EndContext ==
  /\ ctx = "live"
  /\ ctx' = "done"
  /\ UNCHANGED <<wire, pc, local, pending, events, reader>>

Leave ==
  /\ ctx = "done"
  /\ outcome = "none" /\ pc # "request"
  /\ outcome' = "left"
  /\ UNCHANGED <<ctx, wire, pc, local, pending, events, received, answer>>

ProviderStep == CheckContext \/ Read \/ ReadFails \/ SendDelta \/ SendLast

StreamNext == RequestFails \/ Respond \/ ProviderStep \/ Receive \/ EndContext \/ Leave

StreamSpec == StreamInit /\ [][StreamNext]_streamVars

\* The client has a timeout (120 s by default) that covers the body, so that
\* a request is answered or fails, and a read returns.  A reader of the
\* channel reads on or leaves.
FairStreamSpec ==
  /\ StreamSpec
  /\ WF_streamVars(RequestFails \/ Respond)
  /\ WF_streamVars(ProviderStep)
  /\ WF_streamVars(Receive \/ Leave)

-----------------------------------------------------------------------------
(* Properties *)

\* The type of every variable; the channel never holds more than one event.
StreamTypeOK ==
  /\ ctx \in {"live", "done"}
  /\ wire \in Seq(Payloads) /\ Len(wire) <= MaxPayloads
  /\ pc \in {"request", "check", "read", "sendDelta", "sendLast", "closed"}
  /\ role \in Roles
  /\ content \in Seq(1..MaxPayloads)
  /\ \A k \in 1..Len(toolCalls) :
       toolCalls[k].args \in Seq(Pieces \ {"none"}) /\ toolCalls[k].id \in BOOLEAN
  /\ ending \in BOOLEAN
  /\ {pending.type} \cup {events[k].type : k \in 1..Len(events)} \subseteq {"delta", "error", "done"}
  /\ Len(events) <= 1
  /\ \A k \in 1..Len(received) : received[k].type = "delta"
  /\ outcome \in {"none", "answer", "error", "closed", "left"}

\* What a reader was shown by some events: the text, the calls, and the
\* arguments of the call with an index.
TextOf(shown) ==
  FlattenSeq([k \in 1..Len(shown) |-> IF shown[k].text = 0 THEN <<>> ELSE <<shown[k].text>>])

IndexesOf(shown) ==
  UNION {{shown[k].calls[j].index : j \in 1..Len(shown[k].calls)} : k \in 1..Len(shown)}

PiecesOf(deltas, i) ==
  FlattenSeq([j \in 1..Len(deltas) |->
                IF deltas[j].index = i THEN ArgsPieces(deltas[j].args) ELSE <<>>])
ArgsOf(shown, i) == FlattenSeq([k \in 1..Len(shown) |-> PiecesOf(shown[k].calls, i)])

\* An answer is exactly what the reader was shown on the way, each call whole
\* and none missing in between, and it comes only from a stream that said it
\* was complete: a stream that breaks off is never an answer (L125-205).  The
\* types of the variables are part of it.
AnswerIsWhatWasStreamed ==
  /\ StreamTypeOK
  /\ outcome = "answer" =>
       /\ wire[Len(wire)].finish \/ wire[Len(wire)].kind = "done"
       /\ answer.text = TextOf(received)
       /\ IndexesOf(received) = {k - 1 : k \in 1..Len(answer.calls)}
       /\ \A k \in 1..Len(answer.calls) :
            ValidCall(answer.calls[k]) /\ answer.calls[k].args = ArgsOf(received, k - 1)

\* The goroutine waits for a reader that has left.
Stuck == outcome = "left" /\ pc \in {"sendDelta", "sendLast"} /\ ~HasRoom

\* Whatever the server sends or does not send, the goroutine ends, the
\* response is closed, and a reader that stays gets a done or an error first
\* and never just a closed channel; unless the reader left the goroutine with
\* a full channel, which its sends cannot give up on (L125-205).
EndsUnlessStuck == <>[](Stuck \/ (pc = "closed" /\ outcome \in {"answer", "error", "left"}))

=============================================================================
