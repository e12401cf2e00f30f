----------------------------- MODULE AgentProofs -----------------------------
(***************************************************************************)
(* Proofs about AgentLoop, for every set of tools, every approval policy   *)
(* and every value of the bounds; then about RuntimeRun, for every         *)
(* capacity of its two channels and every moment of the cancellation: the  *)
(* caller gets at most one terminal event and nothing after it, gets none  *)
(* only when the context ended on a full channel, and is told of a         *)
(* completed run only with all its messages.  Each theorem rests on an     *)
(* inductive invariant, whose proof takes the actions of Next one by one.  *)
(***************************************************************************)
EXTENDS RuntimeRun, TLAPS

-----------------------------------------------------------------------------
(* The agent loop: types *)

\* Sending an event of the right type between two program points keeps the
\* types of the channel and of the program counter, and never overfills the
\* channel.
LEMMA EmitOnType ==
  ASSUME TypeOK,
         NEW anyway \in BOOLEAN,
         NEW from,
         NEW event \in EventType,
         NEW sent \in PCs,
         NEW dropped \in PCs,
         EmitOn(anyway, from, event, sent, dropped)
  PROVE  /\ stream' \in Seq(EventType)
         /\ Len(stream') <= StreamCap
         /\ pc' \in PCs
         /\ inSelect' \in BOOLEAN
<1>1. /\ stream \in Seq(EventType) /\ Len(stream) <= StreamCap /\ StreamCap \in Nat
      /\ pc' \in {sent, dropped} /\ inSelect' = FALSE
  BY BoundAssumption DEF BoundAssumption, TypeOK, EmitOn, Goto
<1>2. \/ HasRoom /\ stream' = Append(stream, event)
      \/ stream' = stream
  BY DEF EmitOn
<1>3. CASE stream' = stream
  BY <1>1, <1>3
<1>4. CASE HasRoom /\ stream' = Append(stream, event)
  <2>1. Append(stream, event) \in Seq(EventType)
    BY <1>1
  <2>2. Len(Append(stream, event)) = Len(stream) + 1 /\ Len(stream) \in Nat
    BY <1>1
  <2>3. Len(stream') <= StreamCap
    BY <1>1, <1>4, <2>2 DEF HasRoom
  <2>4. stream' \in Seq(EventType)
    BY <1>4, <2>1
  <2> QED BY <1>1, <2>3, <2>4
<1> QED BY <1>2, <1>3, <1>4

\* The events of the run have the type of events.
LEMMA EventsTyped ==
  /\ \A kind \in EventKinds : Plain(kind) \in EventType
  /\ \A kind \in EventKinds, n \in 0..MaxCalls, info \in Infos :
       Event(kind, n, info) \in EventType
  BY BoundAssumption DEF BoundAssumption, Plain, Event, EventType, Infos

\* The variables keep their types: a step that sends nothing.
LEMMA QuietTypeStep ==
  ASSUME TypeOK,
         \/ Start \/ Prepare \/ OpenStream \/ ReceiveDelta \/ ReceiveError
         \/ ReceiveCanceled \/ Decide \/ Execute \/ ExecutorReturns \/ CancelRun
  PROVE  TypeOK'
<1> USE DEF TypeOK, PCs, Emitting, Goto, Control, ErrorClasses
<1>1. CASE Start       BY <1>1 DEF Start
<1>2. CASE Prepare     BY <1>2 DEF Prepare
<1>3. CASE OpenStream  BY <1>3, BoundAssumption DEF BoundAssumption, OpenStream, RoundFails
<1>4. CASE ReceiveDelta
  BY <1>4, BoundAssumption DEF BoundAssumption, ReceiveDelta
<1>5. CASE ReceiveError    BY <1>5 DEF ReceiveError, RoundFails
<1>6. CASE ReceiveCanceled BY <1>6 DEF ReceiveCanceled, RoundFails
<1>7. CASE Decide      BY <1>7 DEF Decide, CallLeaves
<1>8. CASE Execute     BY <1>8 DEF Execute, Finish, CallLeaves, Statuses
<1>9. CASE ExecutorReturns
  BY <1>9 DEF ExecutorReturns, ExecutorStatus, Finish, CallLeaves, Statuses
<1>10. CASE CancelRun
  <2>1. ctx' = "done" /\ inSelect' \in BOOLEAN
    BY <1>10 DEF CancelRun
  <2> QED BY <1>10, <2>1 DEF CancelRun
<1> QED BY <1>1, <1>2, <1>3, <1>4, <1>5, <1>6, <1>7, <1>8, <1>9, <1>10

\* The variables keep their types: a step that sends an event.
LEMMA SendingTypeStep ==
  ASSUME TypeOK,
         \/ EmitRunStart \/ EmitTurnStart \/ EmitContextPrepared
         \/ EmitSummaryCandidate \/ EmitMessageStart \/ EmitDelta
         \/ EmitMessageEnd \/ EmitTurnEnd \/ EmitRunEnd \/ EmitToolStart
         \/ RequestApproval \/ MissingGate \/ EmitDecision \/ Fail
  PROVE  TypeOK'
<1> DEFINE Channel == /\ stream' \in Seq(EventType)
                      /\ Len(stream') <= StreamCap
                      /\ pc' \in PCs
                      /\ inSelect' \in BOOLEAN
<1> HIDE DEF Channel
<1>a. \A x \in {"turnStart", "prepare", "summary", "open", "receive", "cancelTry",
                "roundDone", "runEnd", "closed", "toolEnd", "execute", "deciding",
                "approvalMissing", "executing"} : x \in PCs
  BY DEF PCs, Emitting
<1>b. /\ idx \in 0..MaxCalls /\ Len(calls) \in 0..MaxCalls
      /\ outcome \in Infos /\ decision \in Infos /\ failure \in Infos /\ canceled \in BOOLEAN
  BY BoundAssumption DEF BoundAssumption, TypeOK, Infos, Statuses, ErrorClasses
<1>c. ASSUME NEW anyway \in BOOLEAN, NEW from, NEW event \in EventType,
             NEW sent \in PCs, NEW dropped \in PCs,
             EmitOn(anyway, from, event, sent, dropped)
      PROVE  Channel
  BY <1>c, EmitOnType DEF Channel
<1>d. /\ "none" \in Infos /\ "denied" \in Infos
      /\ {"RunStart", "TurnStart", "ContextPrepared", "SummaryCandidate", "MessageStart",
          "Delta", "MessageEnd", "ToolStart", "ApprovalRequested", "ApprovalDecided",
          "TurnEnd", "RunEnd", "Error"} \subseteq EventKinds
  BY DEF Infos, Statuses, EventKinds
<1>1. CASE EmitRunStart
  <2>1. Channel
    BY <1>1, <1>a, <1>c, <1>d, EventsTyped DEF EmitRunStart, Emit
  <2> QED BY <1>1, <2>1 DEF EmitRunStart, Control, TypeOK, Channel, ErrorClasses
<1>2. CASE EmitTurnStart
  <2>1. Channel
    BY <1>2, <1>a, <1>c, <1>d, EventsTyped DEF EmitTurnStart, Emit
  <2> QED BY <1>2, <2>1 DEF EmitTurnStart, Control, TypeOK, Channel, ErrorClasses
<1>3. CASE EmitSummaryCandidate
  <2>1. Channel
    BY <1>3, <1>a, <1>c, <1>d, EventsTyped DEF EmitSummaryCandidate, Emit
  <2> QED BY <1>3, <2>1 DEF EmitSummaryCandidate, Control, TypeOK, Channel, ErrorClasses
<1>4. CASE EmitMessageStart
  <2>1. Channel
    BY <1>4, <1>a, <1>c, <1>d, EventsTyped DEF EmitMessageStart, Emit
  <2> QED BY <1>4, <2>1 DEF EmitMessageStart, Control, TypeOK, Channel, ErrorClasses
<1>5. CASE EmitDelta
  <2>1. Channel
    BY <1>5, <1>a, <1>c, <1>d, EventsTyped DEF EmitDelta, Emit
  <2> QED BY <1>5, <2>1 DEF EmitDelta, Control, TypeOK, Channel, ErrorClasses
<1>6. CASE EmitTurnEnd
  <2>1. Channel
    BY <1>6, <1>a, <1>c, <1>d, EventsTyped DEF EmitTurnEnd, Emit
  <2> QED BY <1>6, <2>1 DEF EmitTurnEnd, Control, TypeOK, Channel, ErrorClasses
<1>7. CASE EmitRunEnd
  <2>1. Channel
    BY <1>7, <1>a, <1>c, <1>d, EventsTyped DEF EmitRunEnd, Emit
  <2> QED BY <1>7, <2>1 DEF EmitRunEnd, Control, TypeOK, Channel, ErrorClasses
<1>8. CASE EmitContextPrepared
  <2>1. PICK next \in {"summary", "open"} :
          Emit("contextPrepared", Plain("ContextPrepared"), next, "closed")
    BY <1>8 DEF EmitContextPrepared
  <2>2. Channel
    BY <2>1, <1>a, <1>c, <1>d, EventsTyped DEF Emit
  <2> QED BY <1>8, <2>2 DEF EmitContextPrepared, Control, TypeOK, Channel
<1>9. CASE EmitMessageEnd
  <2>1. Event("MessageEnd", Len(calls), "none") \in EventType
    BY <1>b, <1>d, EventsTyped
  <2>2. Channel
    BY <1>9, <2>1, <1>a, <1>b, <1>c DEF EmitMessageEnd, Emit
  <2> QED BY <1>9, <2>2 DEF EmitMessageEnd, Control, CallLeaves, TypeOK, Channel, ErrorClasses, Statuses
<1>10. CASE EmitToolStart
  <2>1. Event("ToolStart", idx, "none") \in EventType
    BY <1>b, <1>d, EventsTyped
  <2>2. Channel
    BY <1>10, <2>1, <1>a, <1>b, <1>c DEF EmitToolStart, Emit
  <2> QED BY <1>10, <2>2 DEF EmitToolStart, Control, CallLeaves, TypeOK, Channel, ErrorClasses, Statuses
<1>11. CASE RequestApproval
  <2>1. Event("ApprovalRequested", idx, "none") \in EventType
    BY <1>b, <1>d, EventsTyped
  <2>2. Channel
    BY <1>11, <2>1, <1>a, <1>b, <1>c DEF RequestApproval, Emit
  <2> QED BY <1>11, <2>2 DEF RequestApproval, Control, CallLeaves, TypeOK, Channel, ErrorClasses, Statuses
<1>12. CASE MissingGate
  <2>1. Event("ApprovalDecided", idx, "denied") \in EventType
    BY <1>b, <1>d, EventsTyped
  <2>2. Channel
    BY <1>12, <2>1, <1>a, <1>b, <1>c DEF MissingGate, Emit
  <2> QED BY <1>12, <2>2 DEF MissingGate, Control, CallLeaves, TypeOK, Channel, ErrorClasses, Statuses
<1>13. CASE EmitDecision
  <2>1. Event("ApprovalDecided", idx, decision) \in EventType
    BY <1>b, <1>d, EventsTyped
  <2>2. Channel
    BY <1>13, <2>1, <1>a, <1>b, <1>c DEF EmitDecision, Emit
  <2> QED BY <1>13, <2>2 DEF EmitDecision, Control, CallLeaves, TypeOK, Channel, ErrorClasses, Statuses
<1>14. CASE Fail
  <2>1. Event("Error", 0, failure) \in EventType
    BY <1>b, <1>d, EventsTyped, BoundAssumption DEF BoundAssumption
  <2>2. Channel
    BY <1>14, <2>1, <1>a, <1>b, <1>c DEF Fail, Emit
  <2> QED BY <1>14, <2>2 DEF Fail, Control, CallLeaves, TypeOK, Channel, ErrorClasses, Statuses
<1> QED BY <1>1, <1>2, <1>3, <1>4, <1>5, <1>6, <1>7, <1>8, <1>9, <1>10, <1>11, <1>12, <1>13, <1>14

\* A message of the right type joins the transcript.
LEMMA MessagesTyped ==
  ASSUME TypeOK
  PROVE  /\ Append(messages, Assistant(Len(calls))) \in Seq(MessageType)
         /\ outcome \in Statuses \cup {"none"} =>
              Append(messages, ToolResult(idx, outcome)) \in Seq(MessageType)
<1>1. Assistant(Len(calls)) \in MessageType
  BY BoundAssumption DEF BoundAssumption, TypeOK, Assistant, MessageType
<1>2. outcome \in Statuses \cup {"none"} => ToolResult(idx, outcome) \in MessageType
  BY BoundAssumption DEF BoundAssumption, TypeOK, ToolResult, MessageType
<1>3. messages \in Seq(MessageType)
  BY DEF TypeOK
<1> QED BY <1>1, <1>2, <1>3

\* Removing the oldest event keeps the type of the channel.
LEMMA TailTyped ==
  ASSUME TypeOK, stream # <<>>
  PROVE  Tail(stream) \in Seq(EventType) /\ Len(Tail(stream)) = Len(stream) - 1
  BY DEF TypeOK

\* The variables keep their types: a step that changes the transcript, the
\* calls of the batch, or more of the channel than one event.
LEMMA BatchTypeStep ==
  ASSUME TypeOK,
         ReceiveDone \/ RoundDone \/ EmitToolEnd \/ CancelTry \/ CancelDrop \/ Read
  PROVE  TypeOK'
<1>a. \A x \in {"messageEnd", "fail", "turnEnd", "toolStart", "cancelTry", "closed",
                "prepare", "cancelDrop"} : x \in PCs
  BY DEF PCs, Emitting
<1>b. Event("Error", 0, failure) \in EventType /\ Event("ToolEnd", idx, outcome) \in EventType
  BY EventsTyped, BoundAssumption
     DEF BoundAssumption, TypeOK, EventKinds, Infos, ErrorClasses, Statuses
<1>1. CASE ReceiveDone
  <2>1. PICK n \in 0..MaxCalls : calls' \in [1..n -> ToolName]
    BY <1>1 DEF ReceiveDone
  <2>2. calls' \in Seq(ToolName) /\ Len(calls') <= MaxCalls
    BY <2>1, BoundAssumption DEF BoundAssumption
  <2> QED BY <1>1, <1>a, <2>2 DEF ReceiveDone, Goto, TypeOK, ErrorClasses
<1>2. CASE RoundDone
  <2>1. messages' \in Seq(MessageType)
    BY <1>2, MessagesTyped DEF RoundDone, TypeOK
  <2>2. idx' \in 0..MaxCalls
    BY <1>2, BoundAssumption DEF BoundAssumption, RoundDone
  <2> QED BY <1>2, <1>a, <2>1, <2>2 DEF RoundDone, Goto, TypeOK, ErrorClasses
<1>3. CASE EmitToolEnd
  <2>1. /\ stream' \in Seq(EventType) /\ Len(stream') <= StreamCap
        /\ pc' \in PCs /\ inSelect' \in BOOLEAN
    BY <1>3, <1>a, <1>b, EmitOnType DEF EmitToolEnd, AfterBatch, Stops, TypeOK
  <2>2. messages' \in Seq(MessageType)
    BY <1>3, MessagesTyped DEF EmitToolEnd, TypeOK
  <2>3. idx' \in 0..MaxCalls /\ round' \in Nat
    BY <1>3, BoundAssumption DEF BoundAssumption, EmitToolEnd, MoreCalls, TypeOK
  <2>4. canceled' \in BOOLEAN /\ failure' \in ErrorClasses
    BY <1>3 DEF EmitToolEnd, Stops, TypeOK, ErrorClasses
  <2> QED BY <1>3, <2>1, <2>2, <2>3, <2>4 DEF EmitToolEnd, TypeOK
<1>4. CASE CancelTry
  <2>1. Append(stream, Event("Error", 0, failure)) \in Seq(EventType)
        /\ Len(Append(stream, Event("Error", 0, failure))) = Len(stream) + 1
    BY <1>b DEF TypeOK
  <2>2. HasRoom => stream' \in Seq(EventType) /\ Len(stream') <= StreamCap
    <3> SUFFICES ASSUME HasRoom PROVE stream' \in Seq(EventType) /\ Len(stream') <= StreamCap
      OBVIOUS
    <3>1. stream' = Append(stream, Event("Error", 0, failure))
      BY <1>4 DEF CancelTry
    <3>2. Len(stream) < StreamCap /\ Len(stream) \in Nat
      BY DEF HasRoom, TypeOK
    <3> QED BY <2>1, <3>1, <3>2, BoundAssumption DEF BoundAssumption
  <2>3. ~HasRoom => stream' \in Seq(EventType) /\ Len(stream') <= StreamCap
    BY <1>4 DEF CancelTry, TypeOK
  <2>4. stream' \in Seq(EventType) /\ Len(stream') <= StreamCap
    BY <2>2, <2>3
  <2> QED BY <1>4, <1>a, <2>4 DEF CancelTry, Goto, Control, TypeOK
<1>5. CASE CancelDrop
  <2> DEFINE kept == IF stream = <<>> THEN <<>> ELSE Tail(stream)
  <2>1. kept \in Seq(EventType) /\ Len(kept) < StreamCap
    BY TailTyped, BoundAssumption DEF BoundAssumption, TypeOK
  <2>2. Append(kept, Event("Error", 0, failure)) \in Seq(EventType)
        /\ Len(Append(kept, Event("Error", 0, failure))) = Len(kept) + 1
    BY <1>b, <2>1
  <2>3. stream' = Append(kept, Event("Error", 0, failure))
    BY <1>5 DEF CancelDrop
  <2>4. stream' \in Seq(EventType) /\ Len(stream') <= StreamCap
    BY <2>1, <2>2, <2>3, BoundAssumption DEF BoundAssumption
  <2> QED BY <1>5, <1>a, <2>4 DEF CancelDrop, Goto, Control, TypeOK
<1>6. CASE Read
  <2>1. stream' \in Seq(EventType) /\ Len(stream') <= StreamCap
    BY <1>6, TailTyped, BoundAssumption DEF BoundAssumption, Read, TypeOK
  <2> QED BY <1>6, <2>1 DEF Read, TypeOK
<1> QED BY <1>1, <1>2, <1>3, <1>4, <1>5, <1>6

\* The initial state has the types.
LEMMA InitType == Init => TypeOK
<1> SUFFICES ASSUME Init PROVE TypeOK
  OBVIOUS
<1>1. messages \in Seq(MessageType)
  <2>1. User \in MessageType
    BY BoundAssumption DEF BoundAssumption, User, MessageType
  <2> QED BY <2>1 DEF Init
<1>2. stream \in Seq(EventType) /\ Len(stream) <= StreamCap
  BY BoundAssumption DEF BoundAssumption, Init
<1>3. calls \in Seq(ToolName) /\ Len(calls) <= MaxCalls
  BY BoundAssumption DEF BoundAssumption, Init
<1>4. deltas \in 0..MaxDeltas /\ idx \in 0..MaxCalls /\ round \in Nat
  BY BoundAssumption DEF BoundAssumption, Init
<1> QED BY <1>1, <1>2, <1>3, <1>4 DEF Init, TypeOK, PCs, ErrorClasses

\* Every step keeps the types.
LEMMA TypeStep == TypeOK /\ [Next]_vars => TypeOK'
<1> SUFFICES ASSUME TypeOK, [Next]_vars PROVE TypeOK'
  OBVIOUS
<1>1. CASE UNCHANGED vars
  BY <1>1 DEF vars, agentVars, TypeOK
<1>2. CASE Next
  BY <1>2, QuietTypeStep, SendingTypeStep, BatchTypeStep
     DEF Next, AgentStep, RunStep, ProviderStep, ToolStep
<1> QED BY <1>1, <1>2

\* The run's variables always have their types: in particular the event
\* channel never holds more than its capacity, and a batch is never longer
\* than the bound.
THEOREM TypeCorrect == Spec => []TypeOK
  BY InitType, TypeStep, PTL DEF Spec

-----------------------------------------------------------------------------
(* The terminal event *)

\* As long as the channel is open no terminal event is in it.
LEMMA NoTerminalYet ==
  ASSUME TerminalIsLast, pc # "closed"
  PROVE  \A i \in 1..Len(stream) : ~Terminal(stream[i])
  BY DEF TerminalIsLast

\* An event sent from an open channel keeps a terminal event last, if sending
\* a terminal event closes the channel.
LEMMA SendKeepsTerminalLast ==
  ASSUME TypeOK, TerminalIsLast, pc # "closed",
         NEW kept \in Seq(EventType),
         \A i \in 1..Len(kept) : ~Terminal(kept[i]),
         NEW event \in EventType,
         stream' = Append(kept, event),
         Terminal(event) => pc' = "closed"
  PROVE  TerminalIsLast'
<1>1. /\ Len(Append(kept, event)) = Len(kept) + 1
      /\ Len(kept) \in Nat
      /\ Append(kept, event)[Len(kept) + 1] = event
      /\ \A i \in 1..Len(kept) : Append(kept, event)[i] = kept[i]
  OBVIOUS
<1> SUFFICES ASSUME NEW i \in 1..(Len(kept) + 1), Terminal(Append(kept, event)[i])
             PROVE  i = Len(kept) + 1 /\ pc' = "closed"
  BY <1>1 DEF TerminalIsLast, Terminal
<1>2. CASE i \in 1..Len(kept)
  BY <1>1, <1>2 DEF Terminal
<1>3. CASE i = Len(kept) + 1
  BY <1>1, <1>3 DEF Terminal
<1> QED BY <1>1, <1>2, <1>3

\* The same for a step that emits.
LEMMA EmitKeepsTerminalLast ==
  ASSUME TypeOK, TerminalIsLast,
         NEW anyway \in BOOLEAN, NEW from, NEW event \in EventType,
         NEW sent, NEW dropped,
         from # "closed",
         Terminal(event) => sent = "closed",
         EmitOn(anyway, from, event, sent, dropped)
  PROVE  TerminalIsLast'
<1>1. pc # "closed"
  BY DEF EmitOn, Goto
<1>2. \A i \in 1..Len(stream) : ~Terminal(stream[i])
  BY <1>1, NoTerminalYet
<1>3. CASE stream' = stream
  BY <1>2, <1>3 DEF TerminalIsLast, Terminal
<1>4. CASE stream' = Append(stream, event) /\ pc' = sent
  BY <1>1, <1>2, <1>4, SendKeepsTerminalLast DEF TypeOK
<1> QED BY <1>3, <1>4 DEF EmitOn, Goto

\* Every step keeps the terminal event last.
LEMMA TerminalStep == TypeOK /\ TerminalIsLast /\ [Next]_vars => TerminalIsLast'
<1> SUFFICES ASSUME TypeOK, TerminalIsLast, [Next]_vars PROVE TerminalIsLast'
  OBVIOUS
<1>a. ASSUME UNCHANGED stream, pc # "closed" \/ UNCHANGED pc
      PROVE  TerminalIsLast'
  BY <1>a, NoTerminalYet DEF TerminalIsLast, Terminal
<1>b. /\ idx \in 0..MaxCalls /\ Len(calls) \in 0..MaxCalls /\ 0 \in 0..MaxCalls
      /\ outcome \in Infos /\ decision \in Infos /\ failure \in Infos /\ canceled \in BOOLEAN
      /\ "none" \in Infos /\ "denied" \in Infos
  BY BoundAssumption DEF BoundAssumption, TypeOK, Infos, Statuses, ErrorClasses
<1>c. /\ \A kind \in {"RunStart", "TurnStart", "ContextPrepared", "SummaryCandidate",
                     "MessageStart", "Delta", "TurnEnd"} :
           Plain(kind) \in EventType /\ ~Terminal(Plain(kind))
      /\ \A kind \in {"MessageEnd", "ToolStart", "ApprovalRequested", "ApprovalDecided",
                     "ToolEnd"}, n \in 0..MaxCalls, info \in Infos :
           Event(kind, n, info) \in EventType /\ ~Terminal(Event(kind, n, info))
      /\ Plain("RunEnd") \in EventType /\ Event("Error", 0, failure) \in EventType
  BY <1>b, EventsTyped DEF EventKinds, Terminal, Plain, Event
<1> DEFINE Error == Event("Error", 0, failure)
<1>1. CASE Start \/ Prepare \/ OpenStream \/ ReceiveDelta \/ ReceiveDone \/ ReceiveError
              \/ ReceiveCanceled \/ RoundDone \/ Execute \/ Decide \/ ExecutorReturns \/ CancelRun
  BY <1>1, <1>a
     DEF Start, Prepare, OpenStream, ReceiveDelta, ReceiveDone, ReceiveError, ReceiveCanceled,
         RoundDone, Execute, Decide, ExecutorReturns, CancelRun, RoundFails, Finish, CallLeaves, Goto
<1>2. CASE EmitRunStart \/ EmitTurnStart \/ EmitSummaryCandidate \/ EmitMessageStart
              \/ EmitDelta \/ EmitTurnEnd \/ EmitContextPrepared
  BY <1>2, <1>c, EmitKeepsTerminalLast
     DEF EmitRunStart, EmitTurnStart, EmitSummaryCandidate, EmitMessageStart,
         EmitDelta, EmitTurnEnd, EmitContextPrepared, Emit
<1>3. CASE EmitMessageEnd \/ EmitToolStart \/ RequestApproval \/ MissingGate \/ EmitDecision \/ EmitToolEnd
  <2>1. Stops \in BOOLEAN
    BY <1>b DEF Stops
  <2> QED BY <1>3, <1>b, <1>c, <2>1, EmitKeepsTerminalLast
          DEF EmitMessageEnd, EmitToolStart, RequestApproval, MissingGate, EmitDecision, EmitToolEnd, Emit
<1>4. CASE EmitRunEnd
  BY <1>4, <1>c, EmitKeepsTerminalLast DEF EmitRunEnd, Emit
<1>5. CASE Fail
  BY <1>5, <1>c, EmitKeepsTerminalLast DEF Fail, Emit
<1>6. CASE CancelTry
  <2>1. pc # "closed"
    BY <1>6 DEF CancelTry, Goto
  <2>2. CASE stream' = Append(stream, Error) /\ pc' = "closed"
    BY <1>c, <2>1, <2>2, NoTerminalYet, SendKeepsTerminalLast DEF TypeOK
  <2>3. CASE UNCHANGED stream
    BY <1>a, <2>1, <2>3
  <2> QED BY <1>6, <2>2, <2>3 DEF CancelTry, Goto
<1>7. CASE CancelDrop
  <2> DEFINE kept == IF stream = <<>> THEN <<>> ELSE Tail(stream)
  <2>1. pc # "closed" /\ pc' = "closed" /\ stream' = Append(kept, Error)
    BY <1>7 DEF CancelDrop, Goto
  <2>2. stream \in Seq(EventType)
    BY DEF TypeOK
  <2>3. kept \in Seq(EventType) /\ Len(kept) <= Len(stream)
        /\ \A i \in 1..Len(kept) : i + 1 \in 1..Len(stream) /\ kept[i] = stream[i + 1]
    BY <2>2
  <2>4. \A i \in 1..Len(kept) : ~Terminal(kept[i])
    BY <2>1, <2>3, NoTerminalYet
  <2> HIDE DEF kept
  <2> QED BY <1>c, <2>1, <2>3, <2>4, SendKeepsTerminalLast
<1>8. CASE Read
  <2>1. stream \in Seq(EventType) /\ stream # <<>> /\ stream' = Tail(stream) /\ pc' = pc
    BY <1>8 DEF Read, TypeOK
  <2>2. /\ Len(stream') = Len(stream) - 1
        /\ \A i \in 1..Len(stream') : i + 1 \in 1..Len(stream) /\ stream'[i] = stream[i + 1]
    BY <2>1
  <2> SUFFICES ASSUME NEW i \in 1..Len(stream'), Terminal(stream'[i])
               PROVE  i = Len(stream') /\ pc' = "closed"
    BY DEF TerminalIsLast, Terminal
  <2>3. Terminal(stream[i + 1])
    BY <2>2 DEF Terminal
  <2>4. i + 1 = Len(stream) /\ pc = "closed"
    BY <2>2, <2>3 DEF TerminalIsLast
  <2>5. Len(stream) \in Nat /\ Len(stream') = Len(stream) - 1 /\ pc' = pc
    BY <2>1, <2>2
  <2>6. i \in Nat
    BY <2>5
  <2>7. i = Len(stream')
    BY <2>4, <2>5, <2>6
  <2> QED BY <2>4, <2>5, <2>7
<1>9. CASE UNCHANGED vars
  BY <1>9, <1>a DEF vars, agentVars
<1> QED BY <1>1, <1>2, <1>3, <1>4, <1>5, <1>6, <1>7, <1>8, <1>9
        DEF Next, AgentStep, RunStep, ProviderStep, ToolStep

\* A terminal event is the last thing any run sends, whatever the capacity of
\* its channel and whenever it is canceled.
THEOREM TerminalLast == Spec => []TerminalIsLast
<1>1. Init => TypeOK /\ TerminalIsLast
  BY InitType DEF Init, TerminalIsLast
<1>2. TypeOK /\ TerminalIsLast /\ [Next]_vars => TypeOK' /\ TerminalIsLast'
  BY TypeStep, TerminalStep
<1> QED BY <1>1, <1>2, PTL DEF Spec

-----------------------------------------------------------------------------
(* Governed execution *)

\* Why an executor is only reached through the checks of execute: what each
\* program point on the way to it already knows about the call.
GovernedInv ==
  /\ pc \in {"execute", "approvalRequest", "approvalMissing", "deciding",
            "approvalDecided", "executing"} => ~canceled
  /\ pc \in {"approvalRequest", "approvalMissing", "deciding", "approvalDecided",
            "executing"} => Call \in Allowed
  /\ pc \in {"deciding", "approvalDecided"} => gate
  /\ pc = "executing" /\ Call \in NeedsApproval => gate /\ decision = "approved"

\* Every step keeps it.
LEMMA GovernedStep == GovernedInv /\ [Next]_vars => GovernedInv'
<1> SUFFICES ASSUME GovernedInv, [Next]_vars PROVE GovernedInv'
  OBVIOUS
<1>a. ASSUME pc' \notin {"execute", "approvalRequest", "approvalMissing", "deciding",
                        "approvalDecided", "executing"}
      PROVE  GovernedInv'
  BY <1>a DEF GovernedInv
<1>1. CASE Start \/ EmitRunStart \/ EmitTurnStart \/ Prepare \/ EmitContextPrepared
           \/ EmitSummaryCandidate \/ OpenStream \/ EmitMessageStart \/ ReceiveDelta
  BY <1>1, <1>a
     DEF Start, EmitRunStart, EmitTurnStart, Prepare, EmitContextPrepared,
         EmitSummaryCandidate, OpenStream, EmitMessageStart, ReceiveDelta,
         RoundFails, Emit, EmitOn, Goto
<1>2. CASE EmitDelta \/ ReceiveDone \/ ReceiveError \/ ReceiveCanceled \/ EmitMessageEnd
           \/ RoundDone \/ EmitTurnEnd \/ EmitRunEnd \/ Fail \/ CancelTry \/ CancelDrop
  BY <1>2, <1>a
     DEF EmitDelta, ReceiveDone, ReceiveError, ReceiveCanceled, EmitMessageEnd,
         RoundDone, EmitTurnEnd, EmitRunEnd, Fail, CancelTry, CancelDrop,
         RoundFails, Emit, EmitOn, Goto
<1>3. CASE EmitToolStart
  BY <1>3 DEF EmitToolStart, EmitOn, Goto, GovernedInv
<1>4. CASE Execute
  BY <1>4 DEF Execute, Finish, CallLeaves, Goto, GovernedInv, Call
<1>5. CASE RequestApproval
  BY <1>5 DEF RequestApproval, Emit, EmitOn, CallLeaves, Goto, GovernedInv, Call
<1>6. CASE MissingGate
  BY <1>6, <1>a DEF MissingGate, Emit, EmitOn, Goto
<1>7. CASE Decide
  BY <1>7 DEF Decide, CallLeaves, Goto, GovernedInv, Call
<1>8. CASE EmitDecision
  BY <1>8 DEF EmitDecision, Approved, Emit, EmitOn, CallLeaves, Goto, GovernedInv, Call
<1>9. CASE ExecutorReturns
  BY <1>9, <1>a DEF ExecutorReturns, Finish, Goto
<1>10. CASE EmitToolEnd
  <2>1. pc' \in {IF MoreCalls THEN "toolStart" ELSE AfterBatch, "closed"}
    BY <1>10 DEF EmitToolEnd, EmitOn, Goto
  <2>2. AfterBatch \in {"cancelTry", "prepare"}
    BY DEF AfterBatch
  <2> QED BY <2>1, <2>2, <1>a
<1>11. CASE CancelRun \/ Read \/ UNCHANGED vars
  <2>1. /\ gate' = gate /\ pc' = pc /\ canceled' = canceled
        /\ calls' = calls /\ idx' = idx /\ decision' = decision
    BY <1>11 DEF CancelRun, Read, vars, agentVars
  <2> QED BY <2>1 DEF GovernedInv, Call
<1> QED BY <1>1, <1>2, <1>3, <1>4, <1>5, <1>6, <1>7, <1>8, <1>9, <1>10, <1>11
        DEF Next, AgentStep, RunStep, ProviderStep, ToolStep

\* No tool executes unless the request allows it and, when it needs approval,
\* the gate approved this call: for every policy and every interleaving with
\* cancellation.
THEOREM Governed == Spec => []GovernedExecution
<1>1. Init => GovernedInv
  BY DEF Init, GovernedInv
<1>2. GovernedInv => GovernedExecution
  BY DEF GovernedInv, GovernedExecution
<1> QED BY <1>1, <1>2, GovernedStep, PTL DEF Spec

-----------------------------------------------------------------------------
(* Batches: a cancellation ends its batch and the run, and no call is left  *)
(* without a result unless the context of the run has ended.                *)

-----------------------------------------------------------------------------
(* A transcript that ends in a batch *)

\* The messages before position s are paired by themselves.
PairedBefore(m, s) ==
  \A i \in 1..(s - 1) :
    /\ m[i].role = "assistant" =>
         \A k \in 1..m[i].calls :
           i + k <= s - 1 /\ m[i + k].role = "tool" /\ m[i + k].id = k
    /\ m[i].role = "tool" =>
         \E j \in 1..(i - 1) :
           m[j].role = "assistant" /\ m[j].calls >= i - j /\ m[i].id = i - j

\* The message at s asks for n calls, and the d messages after it are the
\* results of the first d of them.
OpensAt(m, s, n, d) ==
  /\ m[s] = Assistant(n)
  /\ \A k \in 1..d : m[s + k].role = "tool" /\ m[s + k].id = k

\* The last message with calls asks for n of them, d have their result, and
\* what comes before is paired by itself.
OpenBatch(m, n, d) ==
  /\ n \in Nat /\ d \in 0..n /\ Len(m) - d \in Nat \ {0}
  /\ OpensAt(m, Len(m) - d, n, d)
  /\ PairedBefore(m, Len(m) - d)

\* A message joins a transcript at its end.
LEMMA AppendFacts ==
  ASSUME NEW m \in Seq(MessageType), NEW x
  PROVE  /\ Len(Append(m, x)) = Len(m) + 1 /\ Len(m) \in Nat
         /\ Append(m, x)[Len(m) + 1] = x
         /\ \A i \in 1..Len(m) : Append(m, x)[i] = m[i]
  OBVIOUS

\* A message asks for a number of calls.
LEMMA CallsCounted ==
  ASSUME NEW m \in Seq(MessageType), NEW i \in 1..Len(m)
  PROVE  m[i].calls \in Nat
<1>1. m[i] \in MessageType
  OBVIOUS
<1>2. m[i].calls \in 0..MaxCalls /\ MaxCalls \in Nat
  BY <1>1, BoundAssumption DEF BoundAssumption, MessageType
<1> QED
  BY <1>2

\* An assistant message opens a batch.
LEMMA BatchOpens ==
  ASSUME NEW m \in Seq(MessageType), Paired(m), NEW n \in Nat
  PROVE  OpenBatch(Append(m, Assistant(n)), n, 0)
<1> DEFINE b == Append(m, Assistant(n))
<1>1. /\ Len(b) = Len(m) + 1 /\ Len(m) \in Nat /\ b[Len(b)] = Assistant(n)
      /\ \A i \in 1..Len(m) : b[i] = m[i]
  BY AppendFacts
<1> HIDE DEF b
<1>2. ASSUME NEW i \in 1..Len(m)
      PROVE  /\ b[i].role = "assistant" =>
                  \A k \in 1..b[i].calls :
                    i + k <= Len(m) /\ b[i + k].role = "tool" /\ b[i + k].id = k
             /\ b[i].role = "tool" =>
                  \E j \in 1..(i - 1) :
                    b[j].role = "assistant" /\ b[j].calls >= i - j /\ b[i].id = i - j
  <2>1. b[i] = m[i] /\ i \in Nat \ {0}
    BY <1>1
  <2>2. ASSUME b[i].role = "assistant", NEW k \in 1..b[i].calls
        PROVE  i + k <= Len(m) /\ b[i + k].role = "tool" /\ b[i + k].id = k
    <3>1. k \in Nat \ {0}
      <4>1. m[i].calls \in Nat
        BY <2>1, CallsCounted
      <4> QED
        BY <2>1, <4>1
    <3>2. i + k <= Len(m) /\ m[i + k].role = "tool" /\ m[i + k].id = k
      BY <2>1, <2>2 DEF Paired
    <3>3. i + k \in 1..Len(m)
      BY <1>1, <2>1, <3>1, <3>2
    <3> QED
      BY <1>1, <3>2, <3>3
  <2>3. ASSUME b[i].role = "tool"
        PROVE  \E j \in 1..(i - 1) :
                 b[j].role = "assistant" /\ b[j].calls >= i - j /\ b[i].id = i - j
    <3>1. PICK j \in 1..(i - 1) :
            m[j].role = "assistant" /\ m[j].calls >= i - j /\ m[i].id = i - j
      BY <2>1, <2>3 DEF Paired
    <3>2. j \in 1..Len(m)
      BY <1>1, <2>1
    <3> QED
      BY <1>1, <2>1, <3>1, <3>2
  <2> QED
    BY <2>2, <2>3
<1> QED
  <2>1. Len(b) - 0 = Len(b) /\ Len(b) - 1 = Len(m) /\ Len(b) \in Nat \ {0} /\ 0 \in 0..n
    BY <1>1
  <2>2. PairedBefore(b, Len(b))
    BY <1>2, <2>1 DEF PairedBefore
  <2>3. OpensAt(b, Len(b), n, 0)
    BY <1>1 DEF OpensAt
  <2>4. OpenBatch(b, n, 0)
    BY <2>1, <2>2, <2>3 DEF OpenBatch
  <2> QED
    BY <2>4 DEF b

\* The result of the next call joins it.
LEMMA BatchGrows ==
  ASSUME NEW m \in Seq(MessageType), NEW n, NEW d, OpenBatch(m, n, d), d < n, NEW status
  PROVE  OpenBatch(Append(m, ToolResult(d + 1, status)), n, d + 1)
<1> DEFINE x == ToolResult(d + 1, status)
           b == Append(m, x)
           s == Len(m) - d
<1>1. /\ Len(b) = Len(m) + 1 /\ Len(m) \in Nat /\ b[Len(m) + 1] = x
      /\ \A i \in 1..Len(m) : b[i] = m[i]
  BY AppendFacts
<1>2. n \in Nat /\ d \in Nat /\ d <= n /\ s \in Nat \ {0} /\ s + d = Len(m)
  BY <1>1 DEF OpenBatch
<1>3. /\ m[s] = Assistant(n)
      /\ \A k \in 1..d : m[s + k].role = "tool" /\ m[s + k].id = k
      /\ \A i \in 1..(s - 1) :
           /\ m[i].role = "assistant" =>
                \A k \in 1..m[i].calls :
                  i + k <= s - 1 /\ m[i + k].role = "tool" /\ m[i + k].id = k
           /\ m[i].role = "tool" =>
                \E j \in 1..(i - 1) :
                  m[j].role = "assistant" /\ m[j].calls >= i - j /\ m[i].id = i - j
  BY DEF OpenBatch, OpensAt, PairedBefore
<1>4. x.role = "tool" /\ x.id = d + 1
  BY DEF ToolResult
<1> HIDE DEF b, x, s
<1>5. b[s] = Assistant(n)
  BY <1>1, <1>2, <1>3
<1>6. ASSUME NEW k \in 1..(d + 1) PROVE b[s + k].role = "tool" /\ b[s + k].id = k
  <2>1. CASE k \in 1..d
    <3>1. s + k \in 1..Len(m)
      BY <1>1, <1>2, <2>1
    <3> QED
      BY <1>1, <1>3, <2>1, <3>1
  <2>2. CASE k = d + 1
    BY <1>1, <1>2, <1>4, <2>2
  <2> QED
    BY <1>2, <2>1, <2>2
<1>7. ASSUME NEW i \in 1..(s - 1)
      PROVE  /\ b[i].role = "assistant" =>
                  \A k \in 1..b[i].calls :
                    i + k <= s - 1 /\ b[i + k].role = "tool" /\ b[i + k].id = k
             /\ b[i].role = "tool" =>
                  \E j \in 1..(i - 1) :
                    b[j].role = "assistant" /\ b[j].calls >= i - j /\ b[i].id = i - j
  <2>1. i \in Nat \ {0} /\ i \in 1..Len(m) /\ b[i] = m[i]
    BY <1>1, <1>2
  <2>2. ASSUME b[i].role = "assistant", NEW k \in 1..b[i].calls
        PROVE  i + k <= s - 1 /\ b[i + k].role = "tool" /\ b[i + k].id = k
    <3>1. k \in Nat \ {0}
      <4>1. m[i].calls \in Nat
        BY <2>1, CallsCounted
      <4> QED
        BY <2>1, <4>1
    <3>2. i + k <= s - 1 /\ m[i + k].role = "tool" /\ m[i + k].id = k
      <4>1. m[i].role = "assistant" /\ k \in 1..m[i].calls
        BY <2>1, <2>2
      <4> QED
        BY <1>3, <4>1
    <3>3. i + k \in 1..Len(m)
      BY <1>1, <1>2, <2>1, <3>1, <3>2
    <3> QED
      BY <1>1, <3>2, <3>3
  <2>3. ASSUME b[i].role = "tool"
        PROVE  \E j \in 1..(i - 1) :
                 b[j].role = "assistant" /\ b[j].calls >= i - j /\ b[i].id = i - j
    <3>1. PICK j \in 1..(i - 1) :
            m[j].role = "assistant" /\ m[j].calls >= i - j /\ m[i].id = i - j
      BY <1>3, <2>1, <2>3
    <3>2. j \in 1..Len(m)
      BY <1>1, <2>1
    <3> QED
      BY <1>1, <2>1, <3>1, <3>2
  <2> QED
    BY <2>2, <2>3
<1>8. Len(b) - (d + 1) = s /\ d + 1 \in 0..n
  BY <1>1, <1>2
<1>9. OpenBatch(b, n, d + 1)
  <2>1. OpensAt(b, s, n, d + 1)
    BY <1>5, <1>6 DEF OpensAt
  <2>2. PairedBefore(b, s)
    BY <1>7, Zenon DEF PairedBefore
  <2> QED
    BY <1>2, <1>8, <2>1, <2>2 DEF OpenBatch
<1> QED
  BY <1>9 DEF b, x

\* A batch with all its results is paired, and so is the whole transcript.
LEMMA BatchCloses ==
  ASSUME NEW m \in Seq(MessageType), NEW n, OpenBatch(m, n, n)
  PROVE  Paired(m)
<1> DEFINE s == Len(m) - n
<1>1. n \in Nat /\ s \in Nat \ {0} /\ s + n = Len(m) /\ Len(m) \in Nat
  BY DEF OpenBatch
<1>2. /\ m[s] = Assistant(n)
      /\ \A k \in 1..n : m[s + k].role = "tool" /\ m[s + k].id = k
      /\ \A i \in 1..(s - 1) :
           /\ m[i].role = "assistant" =>
                \A k \in 1..m[i].calls :
                  i + k <= s - 1 /\ m[i + k].role = "tool" /\ m[i + k].id = k
           /\ m[i].role = "tool" =>
                \E j \in 1..(i - 1) :
                  m[j].role = "assistant" /\ m[j].calls >= i - j /\ m[i].id = i - j
  BY DEF OpenBatch, OpensAt, PairedBefore
<1>3. m[s].role = "assistant" /\ m[s].calls = n
  BY <1>2 DEF Assistant
<1> HIDE DEF s
<1>4. ASSUME NEW i \in 1..Len(m), m[i].role = "assistant", NEW k \in 1..m[i].calls
      PROVE  i + k <= Len(m) /\ m[i + k].role = "tool" /\ m[i + k].id = k
  <2>1. CASE i \in 1..(s - 1)
    <3>1. i + k <= s - 1 /\ m[i + k].role = "tool" /\ m[i + k].id = k
      BY <1>2, <1>4, <2>1
    <3>2. m[i].calls \in Nat
      BY CallsCounted
    <3> QED
      BY <1>1, <3>1, <3>2
  <2>2. CASE i = s
    BY <1>1, <1>2, <1>3, <2>2
  <2>3. CASE i \in (s + 1)..Len(m)
    <3>1. i - s \in 1..n /\ s + (i - s) = i
      BY <1>1, <2>3
    <3>2. m[i].role = "tool"
      BY <1>2, <3>1
    <3> QED
      BY <1>4, <3>2
  <2> QED
    BY <1>1, <2>1, <2>2, <2>3
<1>5. ASSUME NEW i \in 1..Len(m), m[i].role = "tool"
      PROVE  \E j \in 1..(i - 1) :
               m[j].role = "assistant" /\ m[j].calls >= i - j /\ m[i].id = i - j
  <2>1. CASE i \in 1..(s - 1)
    BY <1>2, <1>5, <2>1
  <2>2. CASE i = s
    BY <1>3, <1>5, <2>2
  <2>3. CASE i \in (s + 1)..Len(m)
    <3>1. i - s \in 1..n /\ s + (i - s) = i /\ s \in 1..(i - 1)
      BY <1>1, <2>3
    <3>2. m[i].id = i - s
      BY <1>2, <3>1
    <3>3. m[s].calls >= i - s
      BY <1>1, <1>3, <3>1
    <3> QED
      BY <1>3, <3>1, <3>2, <3>3
  <2> QED
    BY <1>1, <2>1, <2>2, <2>3
<1> QED
  BY <1>4, <1>5 DEF Paired

-----------------------------------------------------------------------------
(* No call is left without a result *)

InBatch ==
  {"toolStart", "execute", "approvalRequest", "approvalMissing", "deciding",
   "approvalDecided", "executing", "toolEnd"}

\* What the transcript is at each program point: within a batch the calls
\* before idx have their results, and elsewhere all calls have.  A batch is
\* left early only once the context is done.
BatchInv ==
  /\ pc \in InBatch =>
       idx \in 1..Len(calls) /\ OpenBatch(messages, Len(calls), idx - 1)
  /\ pc \notin InBatch => Paired(messages) \/ (pc = "closed" /\ ctx = "done")

\* The transcript of a request has no open batch.
LEMMA InitBatch == Init => BatchInv
<1> SUFFICES ASSUME Init PROVE BatchInv
  OBVIOUS
<1>1. messages = <<User>> /\ Len(messages) = 1 /\ messages[1] = User /\ pc = "start"
  BY DEF Init
<1>2. User.role = "user"
  BY DEF User
<1>3. Paired(messages)
  BY <1>1, <1>2 DEF Paired
<1> QED
  BY <1>1, <1>3 DEF BatchInv, InBatch

\* The answer of a round opens a batch, or is paired if it asks for nothing.
LEMMA RoundDoneBatch == TypeOK /\ BatchInv /\ RoundDone => BatchInv'
<1> SUFFICES ASSUME TypeOK, BatchInv, RoundDone PROVE BatchInv'
  OBVIOUS
<1>1. pc = "roundDone" /\ Paired(messages) /\ messages \in Seq(MessageType)
  BY DEF RoundDone, Goto, BatchInv, InBatch, TypeOK
<1>2. Len(calls) \in Nat /\ calls' = calls /\ idx' = 1 /\ ctx' = ctx
  BY DEF RoundDone, TypeOK
<1>3. CASE ctx = "done"
  BY <1>1, <1>3 DEF RoundDone, Goto, BatchInv, InBatch
<1>4. CASE ctx # "done"
  <2> DEFINE m == Append(messages, Assistant(Len(calls)))
  <2>1. messages' = m /\ pc' = IF calls = <<>> THEN "turnEnd" ELSE "toolStart"
    BY <1>4 DEF RoundDone, Goto
  <2>2. OpenBatch(m, Len(calls), 0)
    BY <1>1, <1>2, BatchOpens
  <2>3. m \in Seq(MessageType)
    <3>1. Len(calls) \in 0..MaxCalls
      BY BoundAssumption DEF BoundAssumption, TypeOK
    <3>2. Assistant(Len(calls)) \in MessageType
      BY <3>1, BoundAssumption DEF BoundAssumption, Assistant, MessageType
    <3> QED
      BY <1>1, <3>2
  <2> HIDE DEF m
  <2>4. CASE calls = <<>>
    <3>1. Len(calls) = 0
      BY <2>4
    <3>2. Paired(m)
      BY <2>2, <2>3, <3>1, BatchCloses
    <3> QED
      BY <2>1, <2>4, <3>2 DEF BatchInv, InBatch
  <2>5. CASE calls # <<>>
    <3>1. 1 \in 1..Len(calls) /\ 1 - 1 = 0
      BY <1>2, <2>5 DEF TypeOK
    <3> QED
      BY <1>2, <2>1, <2>2, <2>5, <3>1 DEF BatchInv, InBatch
  <2> QED
    BY <2>4, <2>5
<1> QED
  BY <1>3, <1>4

\* The end of a call adds its result, and the last one closes the batch.
LEMMA ToolEndBatch == TypeOK /\ BatchInv /\ EmitToolEnd => BatchInv'
<1> SUFFICES ASSUME TypeOK, BatchInv, EmitToolEnd PROVE BatchInv'
  OBVIOUS
<1>1. pc = "toolEnd" /\ messages \in Seq(MessageType) /\ calls' = calls /\ ctx' = ctx
  BY DEF EmitToolEnd, EmitOn, Goto, TypeOK
<1>2. /\ idx \in 1..Len(calls) /\ OpenBatch(messages, Len(calls), idx - 1)
      /\ Len(calls) \in Nat
  BY <1>1 DEF BatchInv, InBatch, TypeOK
<1>3. \/ pc' = IF MoreCalls THEN "toolStart" ELSE AfterBatch
      \/ pc' = "closed" /\ ctx = "done"
  BY DEF EmitToolEnd, EmitOn, Goto
<1>4. AfterBatch \in {"cancelTry", "prepare"}
  BY DEF AfterBatch
<1>5. CASE pc' = "closed"
  <2>1. ctx = "done"
    BY <1>3, <1>4, <1>5
  <2> QED
    BY <1>1, <1>5, <2>1 DEF BatchInv, InBatch
<1>6. CASE pc' # "closed"
  <2> DEFINE m == Append(messages, ToolResult(idx, outcome))
  <2>1. /\ messages' = m /\ idx' = IF MoreCalls THEN idx + 1 ELSE idx
        /\ pc' = IF MoreCalls THEN "toolStart" ELSE AfterBatch
    BY <1>3, <1>6 DEF EmitToolEnd
  <2>2. OpenBatch(m, Len(calls), idx)
    <3>1. idx - 1 < Len(calls) /\ (idx - 1) + 1 = idx
      BY <1>2
    <3>2. OpenBatch(Append(messages, ToolResult((idx - 1) + 1, outcome)), Len(calls), (idx - 1) + 1)
      BY <1>1, <1>2, <3>1, BatchGrows
    <3> QED
      BY <3>1, <3>2
  <2>3. m \in Seq(MessageType)
    BY MessagesTyped DEF TypeOK
  <2> HIDE DEF m
  <2>4. CASE MoreCalls
    <3>1. idx + 1 \in 1..Len(calls) /\ (idx + 1) - 1 = idx
      BY <1>2, <2>4 DEF MoreCalls
    <3> QED
      BY <1>1, <2>1, <2>2, <2>4, <3>1 DEF BatchInv, InBatch
  <2>5. CASE ~MoreCalls
    <3>1. idx = Len(calls)
      BY <1>2, <2>5 DEF MoreCalls
    <3>2. Paired(m)
      BY <2>2, <2>3, <3>1, BatchCloses
    <3> QED
      BY <1>4, <2>1, <2>5, <3>2 DEF BatchInv, InBatch
  <2> QED
    BY <2>4, <2>5
<1> QED
  BY <1>5, <1>6

\* Every step of a run keeps what is known of its batches.
LEMMA BatchInvStep == TypeOK /\ BatchInv /\ [Next]_vars => BatchInv'
<1> SUFFICES ASSUME TypeOK, BatchInv, [Next]_vars PROVE BatchInv'
  OBVIOUS
<1>a. ASSUME UNCHANGED messages, pc \notin InBatch, pc # "closed", pc' \notin InBatch
      PROVE  BatchInv'
  BY <1>a DEF BatchInv
<1>b. ASSUME UNCHANGED <<messages, calls, idx>>, pc \in InBatch, pc' \in InBatch
      PROVE  BatchInv'
  BY <1>b DEF BatchInv
<1>1. CASE Start \/ EmitRunStart \/ EmitTurnStart \/ Prepare \/ EmitContextPrepared
           \/ EmitSummaryCandidate \/ OpenStream \/ EmitMessageStart \/ ReceiveDelta
  BY <1>1, <1>a
     DEF Start, EmitRunStart, EmitTurnStart, Prepare, EmitContextPrepared,
         EmitSummaryCandidate, OpenStream, EmitMessageStart, ReceiveDelta,
         RoundFails, Control, Emit, EmitOn, Goto, InBatch
<1>2. CASE EmitDelta \/ ReceiveDone \/ ReceiveError \/ ReceiveCanceled \/ EmitMessageEnd
           \/ EmitTurnEnd \/ EmitRunEnd \/ Fail \/ CancelTry \/ CancelDrop
  BY <1>2, <1>a
     DEF EmitDelta, ReceiveDone, ReceiveError, ReceiveCanceled, EmitMessageEnd,
         EmitTurnEnd, EmitRunEnd, Fail, CancelTry, CancelDrop,
         RoundFails, Control, Emit, EmitOn, Goto, InBatch
<1>3. CASE EmitToolStart
  <2>1. /\ pc = "toolStart" /\ UNCHANGED <<ctx, messages, calls, idx>>
        /\ pc' \in {"toolEnd", "execute"} \/ (pc' = "closed" /\ ctx = "done")
    BY <1>3 DEF EmitToolStart, EmitOn, Goto
  <2> QED
    BY <2>1, <1>b DEF BatchInv, InBatch
<1>4. CASE Execute \/ RequestApproval \/ MissingGate \/ Decide \/ EmitDecision \/ ExecutorReturns
  BY <1>4, <1>b
     DEF Execute, RequestApproval, MissingGate, Decide, EmitDecision, ExecutorReturns,
         CallLeaves, Finish, Emit, EmitOn, Goto, InBatch
<1>5. CASE RoundDone
  BY <1>5, RoundDoneBatch
<1>6. CASE EmitToolEnd
  BY <1>6, ToolEndBatch
<1>7. CASE CancelRun \/ Read \/ UNCHANGED vars
  <2>1. UNCHANGED <<pc, messages, calls, idx>> /\ (ctx = "done" => ctx' = "done")
    BY <1>7 DEF CancelRun, Read, vars, agentVars
  <2> QED
    BY <2>1 DEF BatchInv
<1> QED
  BY <1>1, <1>2, <1>3, <1>4, <1>5, <1>6, <1>7
     DEF Next, AgentStep, RunStep, ProviderStep, ToolStep

\* The provider is never asked with a call unanswered, and a run whose
\* context is live never ends with one, for every number of rounds and calls.
THEOREM NoCallUnanswered == Spec => []CallsResulted
<1>1. Init => TypeOK /\ BatchInv
  BY InitType, InitBatch
<1>2. TypeOK /\ BatchInv /\ [Next]_vars => TypeOK' /\ BatchInv'
  BY TypeStep, BatchInvStep
<1>3. BatchInv => CallsResulted
  BY DEF BatchInv, CallsResulted, InBatch
<1> QED
  BY <1>1, <1>2, <1>3, PTL DEF Spec

-----------------------------------------------------------------------------
(* A canceled call ends its batch *)

\* Only a canceled batch holds a canceled result, and everything after that
\* result is skipped: the calls that follow are given that outcome before
\* their end is reported.
CancelInv ==
  /\ canceled => pc \in {"toolStart", "toolEnd", "cancelTry", "cancelDrop", "closed"}
  /\ canceled /\ pc = "toolEnd" => outcome = "skipped"
  /\ \A i \in 1..Len(messages) :
       messages[i].status = "canceled" =>
         /\ canceled
         /\ \A j \in (i + 1)..Len(messages) : messages[j].status = "skipped"

\* At first nothing is canceled.
LEMMA InitCancel == Init => CancelInv
<1> SUFFICES ASSUME Init PROVE CancelInv
  OBVIOUS
<1>1. messages = <<User>> /\ Len(messages) = 1 /\ messages[1] = User /\ canceled = FALSE
  BY DEF Init
<1>2. User.status = "none"
  BY DEF User
<1> QED
  BY <1>1, <1>2 DEF CancelInv

\* A message that is not a canceled result joins a transcript without one.
LEMMA AppendUncanceled ==
  ASSUME NEW m \in Seq(MessageType), NEW x, x.status # "canceled",
         \A i \in 1..Len(m) : m[i].status # "canceled"
  PROVE  \A i \in 1..Len(Append(m, x)) : Append(m, x)[i].status # "canceled"
<1> DEFINE b == Append(m, x)
<1>1. /\ Len(b) = Len(m) + 1 /\ Len(m) \in Nat /\ b[Len(m) + 1] = x
      /\ \A i \in 1..Len(m) : b[i] = m[i]
  BY AppendFacts
<1> HIDE DEF b
<1>2. ASSUME NEW i \in 1..Len(b) PROVE b[i].status # "canceled"
  <2>1. i \in 1..Len(m) \/ i = Len(m) + 1
    BY <1>1
  <2> QED
    BY <1>1, <2>1
<1> QED
  BY <1>2 DEF b

\* A result joins a transcript that is canceled so far by a skipped one.
LEMMA AppendSkipped ==
  ASSUME NEW m \in Seq(MessageType), NEW x,
         \/ x.status = "skipped"
         \/ \A i \in 1..Len(m) : m[i].status # "canceled",
         \A i \in 1..Len(m) : m[i].status = "canceled" =>
           \A j \in (i + 1)..Len(m) : m[j].status = "skipped"
  PROVE  \A i \in 1..Len(Append(m, x)) : Append(m, x)[i].status = "canceled" =>
           \A j \in (i + 1)..Len(Append(m, x)) : Append(m, x)[j].status = "skipped"
<1> DEFINE b == Append(m, x)
<1>1. /\ Len(b) = Len(m) + 1 /\ Len(m) \in Nat /\ b[Len(m) + 1] = x
      /\ \A i \in 1..Len(m) : b[i] = m[i]
  BY AppendFacts
<1> HIDE DEF b
<1>2. ASSUME NEW i \in 1..Len(b), b[i].status = "canceled", NEW j \in (i + 1)..Len(b)
      PROVE  b[j].status = "skipped"
  <2>1. i \in 1..Len(m) /\ (j \in (i + 1)..Len(m) \/ j = Len(m) + 1)
    BY <1>1
  <2>2. m[i].status = "canceled"
    BY <1>1, <1>2, <2>1
  <2>3. CASE j \in (i + 1)..Len(m)
    <3>1. j \in 1..Len(m)
      BY <1>1, <2>1, <2>3
    <3> QED
      BY <1>1, <2>1, <2>2, <2>3, <3>1
  <2>4. CASE j = Len(m) + 1
    BY <1>1, <2>1, <2>2, <2>4
  <2> QED
    BY <2>1, <2>3, <2>4
<1> QED
  BY <1>2 DEF b

\* A new batch starts uncanceled.
LEMMA RoundDoneCancel == TypeOK /\ CancelInv /\ RoundDone => CancelInv'
<1> SUFFICES ASSUME TypeOK, CancelInv, RoundDone PROVE CancelInv'
  OBVIOUS
<1>1. ~canceled /\ ~canceled' /\ messages \in Seq(MessageType)
  BY DEF RoundDone, Goto, CancelInv, TypeOK
<1>2. \A i \in 1..Len(messages) : messages[i].status # "canceled"
  BY <1>1 DEF CancelInv
<1>3. \A i \in 1..Len(messages') : messages'[i].status # "canceled"
  <2>1. Assistant(Len(calls)).status # "canceled"
    BY DEF Assistant
  <2>2. messages' = messages \/ messages' = Append(messages, Assistant(Len(calls)))
    BY DEF RoundDone
  <2> QED
    BY <1>1, <1>2, <2>1, <2>2, AppendUncanceled
<1> QED
  BY <1>1, <1>3 DEF CancelInv

\* A reported result decides what may follow it.
LEMMA ToolEndCancel == TypeOK /\ CancelInv /\ EmitToolEnd => CancelInv'
<1> SUFFICES ASSUME TypeOK, CancelInv, EmitToolEnd PROVE CancelInv'
  OBVIOUS
<1>1. pc = "toolEnd" /\ messages \in Seq(MessageType) /\ outcome' = outcome /\ canceled \in BOOLEAN
  BY DEF EmitToolEnd, EmitOn, Goto, TypeOK
<1>2. CASE pc' = "closed"
  BY <1>2 DEF EmitToolEnd, CancelInv
<1>3. CASE pc' # "closed"
  <2> DEFINE x == ToolResult(idx, outcome)
             m == Append(messages, x)
  <2>1. messages' = m /\ canceled' = Stops
    BY <1>3 DEF EmitToolEnd
  <2>2. pc' \in {"toolStart", "cancelTry", "prepare"} /\ (Stops => pc' # "prepare")
    BY <1>3 DEF EmitToolEnd, EmitOn, Goto, AfterBatch
  <2>3. x.status = outcome
    BY DEF ToolResult
  <2> HIDE DEF x
  <2>4. \A i \in 1..Len(m) : m[i].status = "canceled" =>
          \A j \in (i + 1)..Len(m) : m[j].status = "skipped"
    <3>1. x.status = "skipped" \/ \A i \in 1..Len(messages) : messages[i].status # "canceled"
      BY <1>1, <2>3 DEF CancelInv
    <3>2. \A i \in 1..Len(messages) : messages[i].status = "canceled" =>
            \A j \in (i + 1)..Len(messages) : messages[j].status = "skipped"
      BY DEF CancelInv
    <3> QED
      BY <1>1, <3>1, <3>2, AppendSkipped
  <2>5. \A i \in 1..Len(m) : m[i].status = "canceled" => Stops
    <3>1. CASE Stops
      BY <3>1
    <3>2. CASE ~Stops
      <4>1. ~canceled /\ x.status # "canceled"
        BY <2>3, <3>2 DEF Stops
      <4>2. \A i \in 1..Len(messages) : messages[i].status # "canceled"
        BY <4>1 DEF CancelInv
      <4> QED
        BY <1>1, <4>1, <4>2, AppendUncanceled
    <3> QED
      BY <3>1, <3>2
  <2> HIDE DEF m
  <2> QED
    BY <2>1, <2>2, <2>4, <2>5 DEF CancelInv
<1> QED
  BY <1>2, <1>3

\* Every step of a run keeps what is known of a canceled batch.
LEMMA CancelInvStep == TypeOK /\ CancelInv /\ [Next]_vars => CancelInv'
<1> SUFFICES ASSUME TypeOK, CancelInv, [Next]_vars PROVE CancelInv'
  OBVIOUS
<1>a. ASSUME UNCHANGED <<messages, canceled>>, ~canceled
      PROVE  CancelInv'
  BY <1>a DEF CancelInv
<1>1. CASE Start \/ EmitRunStart \/ EmitTurnStart \/ Prepare \/ EmitContextPrepared
           \/ EmitSummaryCandidate \/ OpenStream \/ EmitMessageStart \/ ReceiveDelta
  <2>1. UNCHANGED <<messages, canceled>>
        /\ pc \notin {"toolStart", "toolEnd", "cancelTry", "cancelDrop", "closed"}
    BY <1>1
       DEF Start, EmitRunStart, EmitTurnStart, Prepare, EmitContextPrepared,
           EmitSummaryCandidate, OpenStream, EmitMessageStart, ReceiveDelta,
           RoundFails, Control, Emit, EmitOn, Goto
  <2> QED
    BY <1>a, <2>1 DEF CancelInv
<1>2. CASE EmitDelta \/ ReceiveDone \/ ReceiveError \/ ReceiveCanceled \/ EmitMessageEnd
           \/ EmitTurnEnd \/ EmitRunEnd \/ Fail
  <2>1. UNCHANGED <<messages, canceled>>
        /\ pc \notin {"toolStart", "toolEnd", "cancelTry", "cancelDrop", "closed"}
    BY <1>2
       DEF EmitDelta, ReceiveDone, ReceiveError, ReceiveCanceled, EmitMessageEnd,
           EmitTurnEnd, EmitRunEnd, Fail, RoundFails, Control, Emit, EmitOn, Goto
  <2> QED
    BY <1>a, <2>1 DEF CancelInv
<1>3. CASE EmitToolStart
  <2>1. /\ UNCHANGED <<messages, canceled>>
        /\ canceled => outcome' = "skipped" /\ pc' = "toolEnd"
    BY <1>3 DEF EmitToolStart, EmitOn, Goto
  <2> QED
    BY <2>1 DEF CancelInv
<1>4. CASE Execute \/ RequestApproval \/ MissingGate \/ Decide \/ EmitDecision \/ ExecutorReturns
  <2>1. UNCHANGED <<messages, canceled>>
        /\ pc \notin {"toolStart", "toolEnd", "cancelTry", "cancelDrop", "closed"}
    BY <1>4
       DEF Execute, RequestApproval, MissingGate, Decide, EmitDecision, ExecutorReturns,
           CallLeaves, Finish, Emit, EmitOn, Goto
  <2> QED
    BY <1>a, <2>1 DEF CancelInv
<1>5. CASE CancelTry \/ CancelDrop
  <2>1. UNCHANGED <<messages, canceled>> /\ pc' \in {"cancelDrop", "closed"}
    BY <1>5 DEF CancelTry, CancelDrop, Control, Goto
  <2> QED
    BY <2>1 DEF CancelInv
<1>6. CASE RoundDone
  BY <1>6, RoundDoneCancel
<1>7. CASE EmitToolEnd
  BY <1>7, ToolEndCancel
<1>8. CASE CancelRun \/ Read \/ UNCHANGED vars
  <2>1. UNCHANGED <<pc, messages, canceled, outcome>>
    BY <1>8 DEF CancelRun, Read, vars, agentVars
  <2> QED
    BY <2>1 DEF CancelInv
<1> QED
  BY <1>1, <1>2, <1>3, <1>4, <1>5, <1>6, <1>7, <1>8
     DEF Next, AgentStep, RunStep, ProviderStep, ToolStep

\* After a canceled call the rest of its batch is skipped and the run ends:
\* no later round shows the cancellation to the provider.
THEOREM CancellationEnds == Spec => []CancellationEndsBatch
<1>1. Init => TypeOK /\ CancelInv
  BY InitType, InitCancel
<1>2. TypeOK /\ CancelInv /\ [Next]_vars => TypeOK' /\ CancelInv'
  BY TypeStep, CancelInvStep
<1>3. CancelInv => CancellationEndsBatch
  BY DEF CancelInv, CancellationEndsBatch
<1> QED
  BY <1>1, <1>2, <1>3, PTL DEF Spec

-----------------------------------------------------------------------------
(* The Runtime: the inductive invariant *)

\* The end of a call carries the status that its result will have.
StatusKnown ==
  \A i \in 1..Len(stream) :
    stream[i].kind = "ToolEnd" => stream[i].info \in Statuses \cup {"none"}

\* The same of an event on its way to the caller.
StatusKept(events) ==
  \A i \in 1..Len(events) :
    events[i].kind = "ToolEnd" => events[i].info \in Statuses \cup {"none"}

\* What the goroutine has in hand: a terminal event is the last of it, and is
\* there only once the Agent's run is over and read to its end.
HeldEndsRun ==
  /\ \A i \in 1..Len(held) :
       IsTerminal(held[i]) => i = Len(held) /\ pc = "closed" /\ stream = <<>>
  /\ rpc = "receive" => held = <<>>
  /\ rpc \in {"extract", "try", "wait"} => held # <<>> /\ ~terminal
  /\ background => pc = "closed" /\ stream = <<>>
  /\ background /\ rpc # "closed" => Len(held) = 1 /\ IsTerminal(held[1])
  /\ background => rpc \in {"try", "wait", "closed"}

PipeInv ==
  /\ OneTerminal
  /\ TerminalIsLast
  /\ StatusKnown /\ StatusKept(held) /\ StatusKept(out)
  /\ HeldEndsRun
  /\ SilentEndMeansOverflow

-----------------------------------------------------------------------------
(* Steps of the Agent *)

\* An event that says how a call ended joins the channel.
LEMMA AppendKeepsStatus ==
  ASSUME NEW kept \in Seq(EventType), NEW event \in EventType,
         StatusKept(kept),
         event.kind = "ToolEnd" => event.info \in Statuses \cup {"none"},
         stream' = Append(kept, event)
  PROVE  StatusKnown'
<1>1. /\ Len(Append(kept, event)) = Len(kept) + 1
      /\ Len(kept) \in Nat
      /\ Append(kept, event)[Len(kept) + 1] = event
      /\ \A i \in 1..Len(kept) : Append(kept, event)[i] = kept[i]
  OBVIOUS
<1> SUFFICES ASSUME NEW i \in 1..(Len(kept) + 1), Append(kept, event)[i].kind = "ToolEnd"
             PROVE  Append(kept, event)[i].info \in Statuses \cup {"none"}
  BY <1>1 DEF StatusKnown
<1>2. CASE i \in 1..Len(kept)
  BY <1>1, <1>2 DEF StatusKept
<1>3. CASE i = Len(kept) + 1
  BY <1>1, <1>3
<1> QED
  BY <1>1, <1>2, <1>3

\* The same for a step that emits.
LEMMA EmitKeepsStatus ==
  ASSUME TypeOK, StatusKnown,
         NEW detached, NEW from, NEW event \in EventType, NEW sent, NEW dropped,
         event.kind = "ToolEnd" => event.info \in Statuses \cup {"none"},
         EmitOn(detached, from, event, sent, dropped)
  PROVE  StatusKnown'
<1>1. CASE stream' = stream
  BY <1>1 DEF StatusKnown
<1>2. CASE stream' = Append(stream, event)
  BY <1>2, AppendKeepsStatus DEF TypeOK, StatusKnown, StatusKept
<1> QED
  BY <1>1, <1>2 DEF EmitOn

\* Every step of the Agent, and the end of the context.
LEMMA AgentKeepsStatus == TypeOK /\ StatusKnown /\ (AgentStep \/ CancelRun) => StatusKnown'
<1> SUFFICES ASSUME TypeOK, StatusKnown, AgentStep \/ CancelRun PROVE StatusKnown'
  OBVIOUS
<1>a. ASSUME UNCHANGED stream PROVE StatusKnown'
  BY <1>a DEF StatusKnown
<1>b. /\ idx \in 0..MaxCalls /\ Len(calls) \in 0..MaxCalls /\ 0 \in 0..MaxCalls
      /\ outcome \in Infos /\ outcome \in Statuses \cup {"none"}
      /\ decision \in Infos /\ failure \in Infos
      /\ "none" \in Infos /\ "denied" \in Infos
  BY BoundAssumption DEF BoundAssumption, TypeOK, Infos, Statuses, ErrorClasses
<1>c. /\ \A kind \in {"RunStart", "TurnStart", "ContextPrepared", "SummaryCandidate",
                     "MessageStart", "Delta", "TurnEnd", "RunEnd"} :
           Plain(kind) \in EventType /\ Plain(kind).kind # "ToolEnd"
      /\ \A kind \in {"MessageEnd", "ToolStart", "ApprovalRequested", "ApprovalDecided", "Error"},
            n \in 0..MaxCalls, info \in Infos :
           Event(kind, n, info) \in EventType /\ Event(kind, n, info).kind # "ToolEnd"
      /\ Event("ToolEnd", idx, outcome) \in EventType
      /\ Event("ToolEnd", idx, outcome).info \in Statuses \cup {"none"}
  BY <1>b, EventsTyped DEF EventKinds, Plain, Event
<1>1. CASE Start \/ Prepare \/ OpenStream \/ ReceiveDelta \/ ReceiveDone \/ ReceiveError
              \/ ReceiveCanceled \/ RoundDone \/ Execute \/ Decide \/ ExecutorReturns \/ CancelRun
  BY <1>1, <1>a
     DEF Start, Prepare, OpenStream, ReceiveDelta, ReceiveDone, ReceiveError, ReceiveCanceled,
         RoundDone, Execute, Decide, ExecutorReturns, CancelRun
<1>2. CASE EmitRunStart \/ EmitTurnStart \/ EmitSummaryCandidate \/ EmitMessageStart
              \/ EmitDelta \/ EmitTurnEnd \/ EmitContextPrepared \/ EmitRunEnd
  BY <1>2, <1>c, EmitKeepsStatus
     DEF EmitRunStart, EmitTurnStart, EmitSummaryCandidate, EmitMessageStart,
         EmitDelta, EmitTurnEnd, EmitContextPrepared, EmitRunEnd, Emit
<1>3. CASE EmitMessageEnd \/ EmitToolStart \/ RequestApproval \/ MissingGate \/ EmitDecision \/ Fail
  BY <1>3, <1>b, <1>c, EmitKeepsStatus
     DEF EmitMessageEnd, EmitToolStart, RequestApproval, MissingGate, EmitDecision, Fail, Emit
<1>4. CASE EmitToolEnd
  BY <1>4, <1>c, EmitKeepsStatus DEF EmitToolEnd
<1>5. CASE CancelTry
  BY <1>5, <1>a, <1>b, <1>c, AppendKeepsStatus DEF CancelTry, TypeOK, StatusKnown, StatusKept
<1>6. CASE CancelDrop
  <2> DEFINE kept == IF stream = <<>> THEN <<>> ELSE Tail(stream)
  <2>1. stream \in Seq(EventType)
    BY DEF TypeOK
  <2>2. kept \in Seq(EventType) /\ Len(kept) <= Len(stream)
        /\ \A i \in 1..Len(kept) : i + 1 \in 1..Len(stream) /\ kept[i] = stream[i + 1]
    BY <2>1
  <2>3. StatusKept(kept)
    BY <2>2 DEF StatusKnown, StatusKept
  <2>4. stream' = Append(kept, Event("Error", 0, failure))
    BY <1>6 DEF CancelDrop
  <2> HIDE DEF kept
  <2> QED
    BY <1>b, <1>c, <2>2, <2>3, <2>4, AppendKeepsStatus
<1> QED
  BY <1>1, <1>2, <1>3, <1>4, <1>5, <1>6 DEF AgentStep, RunStep, ProviderStep, ToolStep

\* Once the run has closed its channel the Agent takes no step, and a context
\* that has ended stays so.
LEMMA AgentEnds ==
  ASSUME AgentStep \/ CancelRun
  PROVE  /\ ctx = "done" => ctx' = "done"
         /\ pc = "closed" => UNCHANGED <<pc, stream>>
<1>1. CASE CancelRun
  BY <1>1 DEF CancelRun
<1>2. CASE Start \/ EmitRunStart \/ EmitTurnStart \/ Prepare \/ EmitContextPrepared
           \/ EmitSummaryCandidate \/ OpenStream \/ EmitMessageStart \/ ReceiveDelta
           \/ EmitDelta \/ ReceiveDone \/ ReceiveError \/ ReceiveCanceled \/ EmitMessageEnd
  BY <1>2
     DEF Start, EmitRunStart, EmitTurnStart, Prepare, EmitContextPrepared, EmitSummaryCandidate,
         OpenStream, EmitMessageStart, ReceiveDelta, EmitDelta, ReceiveDone, ReceiveError,
         ReceiveCanceled, EmitMessageEnd, RoundFails, Emit, EmitOn, Goto
<1>3. CASE RoundDone \/ EmitTurnEnd \/ EmitRunEnd \/ Fail \/ CancelTry \/ CancelDrop
           \/ EmitToolStart \/ Execute \/ RequestApproval \/ MissingGate \/ Decide
           \/ EmitDecision \/ ExecutorReturns \/ EmitToolEnd
  BY <1>3
     DEF RoundDone, EmitTurnEnd, EmitRunEnd, Fail, CancelTry, CancelDrop, EmitToolStart, Execute,
         RequestApproval, MissingGate, Decide, EmitDecision, ExecutorReturns, EmitToolEnd,
         Emit, EmitOn, Goto, CallLeaves
<1> QED
  BY <1>1, <1>2, <1>3 DEF AgentStep, RunStep, ProviderStep, ToolStep

\* No step of the Agent disturbs what its Runtime passes on.
LEMMA AgentStepKeepsPipe ==
  ASSUME PipeInv, AgentOrCancel
  PROVE  PipeInv'
<1>1. TypeOK /\ TerminalIsLast /\ StatusKnown
  BY DEF PipeInv, OneTerminal, RuntimeTypeOK
<1>2. (AgentStep \/ CancelRun) /\ UNCHANGED <<runtimeVars, received>>
  BY DEF AgentOrCancel
<1>3. TypeOK' /\ TerminalIsLast'
  BY <1>1, <1>2, TypeStep, TerminalStep DEF Next
<1>4. StatusKnown'
  BY <1>1, <1>2, AgentKeepsStatus
<1>5. /\ ctx = "done" => ctx' = "done"
      /\ pc = "closed" => UNCHANGED <<pc, stream>>
  BY <1>2, AgentEnds
<1>6. UNCHANGED <<out, rpc, held, background, terminal, received>>
  BY <1>2 DEF runtimeVars
<1>7. RuntimeTypeOK'
  BY <1>3, <1>6 DEF PipeInv, OneTerminal, RuntimeTypeOK
<1>8. OneTerminal'
  BY <1>5, <1>6, <1>7 DEF PipeInv, OneTerminal, IsTerminal
<1>9. HeldEndsRun' /\ StatusKept(held)' /\ StatusKept(out)' /\ SilentEndMeansOverflow'
  BY <1>5, <1>6 DEF PipeInv, HeldEndsRun, StatusKept, SilentEndMeansOverflow, IsTerminal
<1> QED
  BY <1>3, <1>4, <1>8, <1>9 DEF PipeInv

-----------------------------------------------------------------------------
(* Steps of the Runtime *)

\* Events as the Runtime passes them on.
LEMMA PassedOnTyped ==
  /\ \A event \in EventType :
       ~Terminal(event) => event \in OutEvent /\ ~IsTerminal(event)
  /\ \A kind \in TerminalKinds :
       Plain(kind) \in OutEvent /\ IsTerminal(Plain(kind)) /\ Plain(kind).kind # "ToolEnd"
  /\ \A kind \in {"MemoryCandidate", "MemoryExtractionFailed"} :
       Plain(kind) \in OutEvent /\ ~IsTerminal(Plain(kind)) /\ Plain(kind).kind # "ToolEnd"
<1>1. 0 \in 0..MaxCalls /\ "none" \in Infos
  BY BoundAssumption DEF Infos
<1> QED
  BY <1>1 DEF EventType, OutEvent, OutKinds, EventKinds, TerminalKinds, Terminal, IsTerminal,
              Plain, Event

\* A channel is empty if it holds no event.
LEMMA EmptyIsShort ==
  ASSUME NEW T, NEW s \in Seq(T)
  PROVE  s = <<>> <=> Len(s) = 0
OBVIOUS

\* The oldest event, and what is left behind it.
LEMMA HeadFacts ==
  ASSUME NEW T, NEW s \in Seq(T), s # <<>>
  PROVE  /\ Head(s) \in T /\ Head(s) = s[1] /\ 1 \in 1..Len(s)
         /\ Tail(s) \in Seq(T) /\ Len(Tail(s)) = Len(s) - 1 /\ Len(s) \in Nat \ {0}
         /\ \A i \in 1..Len(Tail(s)) : i + 1 \in 1..Len(s) /\ Tail(s)[i] = s[i + 1]
         /\ Len(s) = 1 => Tail(s) = <<>>
         /\ Len(s) > 1 => Tail(s) # <<>>
<1>1. Len(s) \in Nat \ {0} /\ Head(s) = s[1] /\ 1 \in 1..Len(s) /\ Head(s) \in T
  OBVIOUS
<1>2. Tail(s) \in Seq(T) /\ Len(Tail(s)) = Len(s) - 1
  OBVIOUS
<1>3. \A i \in 1..Len(Tail(s)) : i + 1 \in 1..Len(s) /\ Tail(s)[i] = s[i + 1]
  OBVIOUS
<1>a. Tail(s) = <<>> <=> Len(Tail(s)) = 0
  BY <1>2, EmptyIsShort
<1>4. Len(s) = 1 => Tail(s) = <<>>
  BY <1>1, <1>2, <1>a
<1>5. Len(s) > 1 => Tail(s) # <<>>
  BY <1>1, <1>2, <1>a
<1> QED
  BY <1>1, <1>2, <1>3, <1>4, <1>5

\* A single event in hand.
LEMMA SingletonFacts ==
  ASSUME NEW T, NEW x \in T
  PROVE  <<x>> \in Seq(T) /\ Len(<<x>>) = 1 /\ <<x>> # <<>> /\ <<x>>[1] = x
         /\ \A i \in 1..Len(<<x>>) : i = 1 /\ <<x>>[i] = x
  OBVIOUS

\* The oldest event of the run is taken in hand.
LEMMA ForwardStep ==
  ASSUME PipeInv, Forward
  PROVE  PipeInv'
<1> DEFINE event == Head(stream)
<1>1. /\ rpc = "receive" /\ stream # <<>> /\ stream' = Tail(stream)
      /\ UNCHANGED <<gate, ctx, pc, inSelect, round, deltas, messages, calls, idx, decision,
                     outcome, canceled, failure, out, background, terminal, received>>
  BY DEF Forward
<1>2. RuntimeTypeOK /\ TypeOK /\ TerminalIsLast /\ StatusKnown
  BY DEF PipeInv, OneTerminal, RuntimeTypeOK
<1>3. ~terminal /\ ~background
  BY <1>1 DEF PipeInv, OneTerminal, HeldEndsRun
<1>4. /\ event \in EventType /\ event = stream[1] /\ 1 \in 1..Len(stream)
      /\ Len(stream) = 1 => Tail(stream) = <<>>
  BY <1>1, <1>2, HeadFacts DEF TypeOK
<1>5. Read
  BY <1>1 DEF Read
<1>6. TypeOK' /\ TerminalIsLast'
  BY <1>2, <1>5, TypeStep, TerminalStep DEF Next
<1>7. StatusKnown'
  <2>1. \A i \in 1..Len(Tail(stream)) : i + 1 \in 1..Len(stream) /\ Tail(stream)[i] = stream[i + 1]
    BY <1>1, <1>2, HeadFacts DEF TypeOK
  <2> QED
    BY <1>1, <1>2, <2>1 DEF StatusKnown
<1>8. Terminal(event) => pc' = "closed" /\ stream' = <<>>
  BY <1>1, <1>2, <1>4 DEF TerminalIsLast
<1>9. event.kind = "ToolEnd" => event.info \in Statuses \cup {"none"}
  BY <1>2, <1>4 DEF StatusKnown
<1>10. \E x \in OutEvent :
         /\ held' = <<x>> /\ rpc' \in {"extract", "try"}
         /\ IsTerminal(x) => pc' = "closed" /\ stream' = <<>>
         /\ x.kind = "ToolEnd" => x.info \in Statuses \cup {"none"}
  <2>1. CASE event.kind = "RunEnd"
    <3>1. held' = <<Plain("RunCompleted")>> /\ rpc' \in {"extract", "try"}
      BY <1>3, <2>1 DEF Forward
    <3>2. Terminal(event) /\ "RunCompleted" \in TerminalKinds
      BY <2>1 DEF Terminal, TerminalKinds
    <3> QED
      BY <1>8, <3>1, <3>2, PassedOnTyped
  <2>2. CASE event.kind = "Error"
    <3>1. held' = <<ErrorTerminal(event)>> /\ rpc' = "try"
      BY <1>3, <2>2 DEF Forward
    <3>2. \E kind \in TerminalKinds : ErrorTerminal(event) = Plain(kind)
      BY DEF ErrorTerminal, TerminalKinds
    <3>3. Terminal(event)
      BY <2>2 DEF Terminal
    <3> QED
      BY <1>8, <3>1, <3>2, <3>3, PassedOnTyped
  <2>3. CASE ~Terminal(event)
    <3>1. held' = <<event>> /\ rpc' = "try"
      BY <2>3 DEF Forward, Terminal
    <3> QED
      BY <1>4, <1>9, <2>3, <3>1, PassedOnTyped
  <2> QED
    BY <2>1, <2>2, <2>3 DEF Terminal
<1>11. PICK x \in OutEvent :
         /\ held' = <<x>> /\ rpc' \in {"extract", "try"}
         /\ IsTerminal(x) => pc' = "closed" /\ stream' = <<>>
         /\ x.kind = "ToolEnd" => x.info \in Statuses \cup {"none"}
  BY <1>10
<1>12. /\ held' \in Seq(OutEvent) /\ held' # <<>> /\ Len(held') = 1
       /\ \A i \in 1..Len(held') : i = 1 /\ held'[i] = x
  BY <1>11, SingletonFacts
<1>13. RuntimeTypeOK'
  BY <1>1, <1>2, <1>6, <1>11, <1>12 DEF RuntimeTypeOK
<1>14. OneTerminal'
  BY <1>1, <1>3, <1>13 DEF PipeInv, OneTerminal, IsTerminal
<1>15. HeldEndsRun'
  BY <1>1, <1>3, <1>11, <1>12 DEF HeldEndsRun, IsTerminal
<1>16. StatusKept(held)' /\ StatusKept(out)'
  BY <1>1, <1>11, <1>12 DEF PipeInv, StatusKept
<1>17. SilentEndMeansOverflow'
  BY <1>11 DEF SilentEndMeansOverflow
<1> QED
  BY <1>6, <1>7, <1>14, <1>15, <1>16, <1>17 DEF PipeInv

\* What the extractor says goes before the terminal event.
LEMMA ExtractStep ==
  ASSUME PipeInv, Extract
  PROVE  PipeInv'
<1>1. /\ rpc = "extract" /\ rpc' = "try"
      /\ UNCHANGED <<vars, out, background, terminal, received>>
  BY DEF Extract
<1>2. RuntimeTypeOK /\ held \in Seq(OutEvent) /\ held # <<>> /\ ~terminal
  BY <1>1 DEF PipeInv, OneTerminal, RuntimeTypeOK, HeldEndsRun
<1>3. PICK kinds \in {<<"MemoryExtractionFailed">>, <<"MemoryCandidate">>, <<>>} :
        held' = [i \in 1..Len(kinds) |-> Plain(kinds[i])] \o held
  BY DEF Extract
<1>4. CASE kinds = <<>>
  <2>1. held' = held
    BY <1>2, <1>3, <1>4
  <2> QED
    BY <1>1, <1>2, <2>1
    DEF PipeInv, OneTerminal, RuntimeTypeOK, TypeOK, TerminalIsLast, Terminal, StatusKnown,
        StatusKept, HeldEndsRun, SilentEndMeansOverflow, IsTerminal, vars, agentVars
<1>5. CASE kinds # <<>>
  <2>1. PICK kind \in {"MemoryCandidate", "MemoryExtractionFailed"} : kinds = <<kind>>
    BY <1>5
  <2> DEFINE x == Plain(kind)
  <2>2. x \in OutEvent /\ ~IsTerminal(x) /\ x.kind # "ToolEnd"
    BY PassedOnTyped
  <2>3. held' = <<x>> \o held
    <3>1. [i \in 1..Len(kinds) |-> Plain(kinds[i])] = <<x>>
      BY <2>1
    <3> QED
      BY <1>3, <3>1
  <2> HIDE DEF x
  <2>4. /\ held' \in Seq(OutEvent) /\ Len(held') = Len(held) + 1 /\ Len(held) \in Nat
        /\ \A i \in 1..Len(held') :
             \/ i = 1 /\ held'[i] = x
             \/ i - 1 \in 1..Len(held) /\ held'[i] = held[i - 1]
    BY <1>2, <2>2, <2>3
  <2>5. ~background
    BY <1>1 DEF PipeInv, HeldEndsRun
  <2>6. held' # <<>> /\ UNCHANGED <<pc, stream, ctx>>
    BY <1>1, <2>4 DEF vars, agentVars
  <2>7. RuntimeTypeOK'
    BY <1>1, <1>2, <2>4 DEF RuntimeTypeOK, TypeOK, vars, agentVars
  <2>8. OneTerminal'
    BY <1>1, <1>2, <2>6, <2>7 DEF PipeInv, OneTerminal, IsTerminal
  <2>9. HeldEndsRun'
    BY <1>1, <1>2, <2>2, <2>4, <2>5, <2>6 DEF PipeInv, HeldEndsRun, IsTerminal
  <2>10. StatusKept(held)' /\ StatusKept(out)' /\ StatusKnown' /\ TerminalIsLast'
    BY <1>1, <2>2, <2>4, <2>6 DEF PipeInv, StatusKept, StatusKnown, TerminalIsLast, Terminal
  <2>11. SilentEndMeansOverflow'
    BY <1>1 DEF SilentEndMeansOverflow
  <2> QED
    BY <2>8, <2>9, <2>10, <2>11 DEF PipeInv
<1> QED
  BY <1>4, <1>5

\* The oldest event in hand goes out.
LEMMA SendStep ==
  ASSUME PipeInv, rpc \in {"try", "wait"}, SendHeld, UNCHANGED <<vars, background, received>>
  PROVE  PipeInv'
<1> DEFINE event == Head(held)
<1>1. /\ RuntimeTypeOK /\ OneTerminal /\ held # <<>> /\ ~terminal
      /\ out \in Seq(OutEvent) /\ held \in Seq(OutEvent) /\ background \in BOOLEAN
  BY DEF PipeInv, OneTerminal, RuntimeTypeOK, HeldEndsRun
<1>2. /\ event \in OutEvent /\ event = held[1] /\ 1 \in 1..Len(held) /\ Len(held) \in Nat \ {0}
      /\ Tail(held) \in Seq(OutEvent) /\ Len(Tail(held)) = Len(held) - 1
      /\ \A i \in 1..Len(Tail(held)) : i + 1 \in 1..Len(held) /\ Tail(held)[i] = held[i + 1]
      /\ Len(held) = 1 => Tail(held) = <<>>
      /\ Len(held) > 1 => Tail(held) # <<>>
  BY <1>1, HeadFacts
<1>3. /\ out' = Append(out, event) /\ held' = Tail(held) /\ terminal' = IsTerminal(event)
      /\ Len(out) < OutCap
      /\ rpc' \in {"try", "closed", "receive"}
      /\ rpc' = "try" <=> Len(held) > 1
      /\ rpc' = "closed" => background
      /\ rpc' = "receive" => ~background
  <2>1. out' = Append(out, event) /\ held' = Tail(held) /\ Len(out) < OutCap
    BY DEF SendHeld, OutHasRoom
  <2>2. terminal' = IsTerminal(event)
    <3>1. terminal' = (terminal \/ IsTerminal(event))
      BY DEF SendHeld, Terminates
    <3> QED
      BY <1>1, <3>1 DEF IsTerminal
  <2>3. rpc' = CASE Len(held) > 1 -> "try"
                 [] background -> "closed"
                 [] OTHER -> "receive"
    BY DEF SendHeld
  <2>4. Len(held) > 1 => ~background
    BY <1>2 DEF PipeInv, HeldEndsRun
  <2>5. CASE Len(held) > 1
    BY <1>1, <2>1, <2>2, <2>3, <2>4, <2>5
  <2>6. CASE ~(Len(held) > 1) /\ background
    BY <2>1, <2>2, <2>3, <2>6
  <2>7. CASE ~(Len(held) > 1) /\ ~background
    BY <2>1, <2>2, <2>3, <2>7
  <2> QED
    BY <1>1, <2>5, <2>6, <2>7
<1>4. /\ out' \in Seq(OutEvent) /\ Len(out') = Len(out) + 1 /\ Len(out) \in Nat
      /\ \A i \in 1..Len(out') : (i \in 1..Len(out) /\ out'[i] = out[i]) \/ (i = Len(out') /\ out'[i] = event)
  BY <1>1, <1>2, <1>3
<1>5. UNCHANGED <<pc, stream, ctx, background, received>>
  BY DEF vars, agentVars
<1>6. IsTerminal(event) => Len(held) = 1 /\ pc = "closed" /\ stream = <<>>
  BY <1>2 DEF PipeInv, HeldEndsRun
<1>7. received.last = "none" /\ \A i \in 1..Len(out) : ~IsTerminal(out[i])
  BY <1>1 DEF OneTerminal
<1>8. RuntimeTypeOK'
  <2>1. Len(out') <= OutCap
    BY <1>3, <1>4, RuntimeAssumption
  <2>2. TypeOK'
    BY <1>1 DEF RuntimeTypeOK, TypeOK, vars, agentVars
  <2>3. terminal' \in BOOLEAN
    BY <1>3 DEF IsTerminal
  <2> QED
    BY <1>1, <1>2, <1>3, <1>4, <1>5, <2>1, <2>2, <2>3 DEF RuntimeTypeOK
<1>9. OneTerminal'
  <2>1. ASSUME NEW i \in 1..Len(out'), IsTerminal(out'[i])
        PROVE  i = Len(out') /\ terminal' /\ received'.last = "none"
    BY <1>3, <1>4, <1>5, <1>7, <2>1
  <2>2. terminal' => pc' = "closed" /\ stream' = <<>> /\ held' = <<>>
    BY <1>2, <1>3, <1>5, <1>6
  <2>3. received'.last = "none"
    BY <1>5, <1>7
  <2> QED
    BY <1>8, <2>1, <2>2, <2>3 DEF OneTerminal, IsTerminal
<1>10. HeldEndsRun'
  <2>1. ASSUME NEW i \in 1..Len(held'), IsTerminal(held'[i])
        PROVE  i = Len(held') /\ pc' = "closed" /\ stream' = <<>>
    <3>1. i + 1 = Len(held) /\ pc = "closed" /\ stream = <<>>
      BY <1>2, <1>3, <2>1 DEF PipeInv, HeldEndsRun
    <3>2. i \in Nat /\ Len(held') = Len(held) - 1
      BY <1>2, <1>3, <2>1
    <3>3. i = Len(held')
      <4>1. i \in Nat /\ Len(held) \in Nat /\ i + 1 = Len(held) /\ Len(held') = Len(held) - 1
        BY <1>2, <3>1, <3>2
      <4> QED
        BY ONLY <4>1
    <3>4. pc' = "closed" /\ stream' = <<>>
      BY <1>5, <3>1
    <3> QED
      BY <3>3, <3>4
  <2>2. rpc' = "receive" => held' = <<>>
    BY <1>2, <1>3
  <2>3. rpc' = "try" => held' # <<>> /\ ~terminal'
    BY <1>2, <1>3, <1>6
  <2>4. background => Len(held) = 1
    BY DEF PipeInv, HeldEndsRun
  <2>5. background' => pc' = "closed" /\ stream' = <<>>
    BY <1>5 DEF PipeInv, HeldEndsRun
  <2>6. background' => rpc' = "closed"
    BY <1>1, <1>2, <1>3, <1>5, <2>4
  <2> QED
    BY <1>3, <2>1, <2>2, <2>3, <2>5, <2>6 DEF HeldEndsRun, IsTerminal
<1>11. StatusKept(held)' /\ StatusKept(out)'
  <2>1. StatusKept(held) /\ StatusKept(out)
    BY DEF PipeInv
  <2>2. event.kind = "ToolEnd" => event.info \in Statuses \cup {"none"}
    BY <1>2, <2>1 DEF StatusKept
  <2>3. StatusKept(held')
    BY <1>2, <1>3, <2>1 DEF StatusKept
  <2>4. StatusKept(out')
    BY <1>4, <2>1, <2>2 DEF StatusKept
  <2> QED
    BY <2>3, <2>4 DEF StatusKept
<1>12. StatusKnown' /\ TerminalIsLast'
  BY <1>5 DEF PipeInv, StatusKnown, TerminalIsLast, Terminal
<1>13. SilentEndMeansOverflow'
  <2>1. rpc' = "closed" => IsTerminal(event)
    BY <1>2, <1>3 DEF PipeInv, HeldEndsRun
  <2> QED
    BY <1>3, <2>1 DEF SilentEndMeansOverflow
<1> QED
  BY <1>9, <1>10, <1>11, <1>12, <1>13 DEF PipeInv

\* emitRuntimeEvent: the event goes out, waits, or loses to the context.
LEMMA EmitStep ==
  ASSUME PipeInv, TrySend \/ WaitSend
  PROVE  PipeInv'
<1>1. rpc \in {"try", "wait"} /\ UNCHANGED <<vars, background, received>>
  BY DEF TrySend, WaitSend
<1>2. CASE SendHeld
  BY <1>1, <1>2, SendStep
<1>3. CASE ~SendHeld
  <2>1. /\ UNCHANGED <<out, held, terminal>>
        /\ \/ rpc' = "wait"
           \/ rpc' = "closed" /\ ctx = "done" /\ ~background
    BY <1>3 DEF TrySend, WaitSend
  <2>2. UNCHANGED <<pc, stream, ctx>>
    BY <1>1 DEF vars, agentVars
  <2>3. RuntimeTypeOK'
    BY <1>1, <2>1 DEF PipeInv, OneTerminal, RuntimeTypeOK, TypeOK, vars, agentVars
  <2>4. OneTerminal'
    BY <1>1, <2>1, <2>2, <2>3 DEF PipeInv, OneTerminal, IsTerminal
  <2>5. HeldEndsRun' /\ StatusKept(held)' /\ StatusKept(out)'
    BY <1>1, <2>1, <2>2 DEF PipeInv, HeldEndsRun, StatusKept, IsTerminal
  <2>6. StatusKnown' /\ TerminalIsLast'
    BY <2>2 DEF PipeInv, StatusKnown, TerminalIsLast, Terminal
  <2>7. SilentEndMeansOverflow'
    BY <1>1, <2>1, <2>2 DEF PipeInv, HeldEndsRun, SilentEndMeansOverflow
  <2> QED
    BY <2>4, <2>5, <2>6, <2>7 DEF PipeInv
<1> QED
  BY <1>2, <1>3

\* The Agent's stream has ended; a terminal event is made up if there was none.
LEMMA ClosedStep ==
  ASSUME PipeInv, StreamClosed
  PROVE  PipeInv'
<1>1. /\ rpc = "receive" /\ pc = "closed" /\ stream = <<>> /\ held = <<>>
      /\ UNCHANGED <<vars, out, terminal, received>>
  BY DEF StreamClosed, PipeInv, HeldEndsRun
<1>2. UNCHANGED <<pc, stream, ctx>>
  BY <1>1 DEF vars, agentVars
<1>3. StatusKnown' /\ TerminalIsLast' /\ TypeOK'
  BY <1>1, <1>2
  DEF PipeInv, OneTerminal, RuntimeTypeOK, TypeOK, StatusKnown, TerminalIsLast, Terminal, vars, agentVars
<1>4. CASE terminal
  <2>1. rpc' = "closed" /\ UNCHANGED <<held, background>>
    BY <1>4 DEF StreamClosed
  <2> QED
    BY <1>1, <1>2, <1>3, <1>4, <2>1
    DEF PipeInv, OneTerminal, RuntimeTypeOK, HeldEndsRun, StatusKept, SilentEndMeansOverflow, IsTerminal
<1>5. CASE ~terminal
  <2>1. PICK kind \in TerminalKinds : held' = <<Plain(kind)>>
    BY <1>5 DEF StreamClosed, TerminalKinds
  <2>2. rpc' = "try" /\ background'
    BY <1>5 DEF StreamClosed
  <2> DEFINE x == Plain(kind)
  <2>3. x \in OutEvent /\ IsTerminal(x) /\ x.kind # "ToolEnd"
    BY PassedOnTyped
  <2> HIDE DEF x
  <2>4. /\ held' \in Seq(OutEvent) /\ held' # <<>> /\ Len(held') = 1 /\ held'[1] = x
        /\ \A i \in 1..Len(held') : i = 1 /\ held'[i] = x
    BY <2>1, <2>3, SingletonFacts DEF x
  <2>5. background' \in BOOLEAN
    BY <1>5 DEF StreamClosed
  <2>6. RuntimeTypeOK'
    BY <1>1, <1>3, <2>2, <2>4, <2>5 DEF PipeInv, OneTerminal, RuntimeTypeOK
  <2>7. OneTerminal'
    BY <1>1, <1>2, <1>5, <2>6 DEF PipeInv, OneTerminal, IsTerminal
  <2>8. HeldEndsRun' /\ StatusKept(held)' /\ StatusKept(out)' /\ SilentEndMeansOverflow'
    BY <1>1, <1>2, <1>5, <2>2, <2>3, <2>4
    DEF PipeInv, HeldEndsRun, StatusKept, SilentEndMeansOverflow, IsTerminal
  <2> QED
    BY <1>3, <2>7, <2>8 DEF PipeInv
<1> QED
  BY <1>4, <1>5

\* The caller takes the oldest event and rebuilds the transcript.
LEMMA ReceiveStep ==
  ASSUME PipeInv, Receive
  PROVE  PipeInv'
<1> DEFINE event == Head(out)
<1>1. /\ out # <<>> /\ out' = Tail(out)
      /\ UNCHANGED <<vars, rpc, held, background, terminal>>
  BY DEF Receive
<1>2. RuntimeTypeOK /\ OneTerminal /\ out \in Seq(OutEvent) /\ StatusKept(out)
  BY DEF PipeInv, OneTerminal, RuntimeTypeOK
<1>3. /\ event \in OutEvent /\ event = out[1] /\ 1 \in 1..Len(out) /\ Len(out) \in Nat \ {0}
      /\ Tail(out) \in Seq(OutEvent) /\ Len(Tail(out)) = Len(out) - 1
      /\ \A i \in 1..Len(Tail(out)) : i + 1 \in 1..Len(out) /\ Tail(out)[i] = out[i + 1]
      /\ Len(out) = 1 => Tail(out) = <<>>
  BY <1>1, <1>2, HeadFacts
<1>4. UNCHANGED <<pc, stream, ctx>>
  BY <1>1 DEF vars, agentVars
<1>5. received.last = "none"
  BY <1>1, <1>2 DEF OneTerminal
<1>6. received \in [transcript : Seq(MessageType), last : TerminalKinds \cup {"none"}]
  BY <1>2 DEF RuntimeTypeOK
<1>7. event.n \in 0..MaxCalls /\ event.kind \in OutKinds
  BY <1>3 DEF OutEvent
<1>8. /\ received' \in [transcript : Seq(MessageType), last : TerminalKinds \cup {"none"}]
      /\ received'.last = IF IsTerminal(event) THEN event.kind ELSE "none"
  <2>1. CASE event.kind = "MessageEnd"
    <3>1. received' = [received EXCEPT !.transcript = Append(@, Assistant(event.n))]
      BY <2>1 DEF Receive, IsTerminal, TerminalKinds
    <3>2. Assistant(event.n) \in MessageType
      BY <1>7, BoundAssumption DEF Assistant, MessageType
    <3>3. Append(received.transcript, Assistant(event.n)) \in Seq(MessageType)
      BY <1>6, <3>2
    <3> QED
      BY <1>5, <1>6, <2>1, <3>1, <3>3 DEF IsTerminal, TerminalKinds
  <2>2. CASE event.kind = "ToolEnd"
    <3>1. received' = [received EXCEPT !.transcript = Append(@, ToolResult(event.n, event.info))]
      BY <2>2 DEF Receive, IsTerminal, TerminalKinds
    <3>2. event.info \in Statuses \cup {"none"}
      BY <1>2, <1>3, <2>2 DEF StatusKept
    <3>3. ToolResult(event.n, event.info) \in MessageType
      BY <1>7, <3>2, BoundAssumption DEF ToolResult, MessageType
    <3>4. Append(received.transcript, ToolResult(event.n, event.info)) \in Seq(MessageType)
      BY <1>6, <3>3
    <3> QED
      BY <1>5, <1>6, <2>2, <3>1, <3>4 DEF IsTerminal, TerminalKinds
  <2>3. CASE event.kind \notin {"MessageEnd", "ToolEnd"} /\ IsTerminal(event)
    <3>1. received' = [received EXCEPT !.last = event.kind]
      BY <2>3 DEF Receive
    <3> QED
      BY <1>6, <2>3, <3>1 DEF IsTerminal
  <2>4. CASE event.kind \notin {"MessageEnd", "ToolEnd"} /\ ~IsTerminal(event)
    <3>1. received' = received
      BY <2>4 DEF Receive
    <3> QED
      BY <1>5, <1>6, <2>4, <3>1
  <2> QED
    BY <2>1, <2>2, <2>3, <2>4
<1>9. IsTerminal(event) => Len(out) = 1 /\ terminal
  BY <1>2, <1>3 DEF OneTerminal
<1>10. RuntimeTypeOK'
  <2>1. TypeOK'
    BY <1>1, <1>2 DEF RuntimeTypeOK, TypeOK, vars, agentVars
  <2>2. Len(out') <= OutCap
    BY <1>1, <1>2, <1>3, RuntimeAssumption DEF RuntimeTypeOK
  <2> QED
    BY <1>1, <1>2, <1>3, <1>8, <2>1, <2>2 DEF RuntimeTypeOK
<1>11. OneTerminal'
  <2>1. ASSUME NEW i \in 1..Len(out'), IsTerminal(out'[i])
        PROVE  i = Len(out') /\ terminal' /\ received'.last = "none"
    <3>1. i \in Nat \ {0} /\ Len(out') = Len(out) - 1 /\ i + 1 \in 1..Len(out) /\ out'[i] = out[i + 1]
      BY <1>1, <1>3, <2>1
    <3>2. i + 1 = Len(out) /\ terminal
      BY <1>2, <2>1, <3>1 DEF OneTerminal
    <3>3. Len(out) # 1
      BY <3>1, <3>2
    <3>4. received'.last = "none"
      BY <1>8, <1>9, <3>3
    <3>5. i = Len(out')
      <4>1. i \in Nat /\ Len(out) \in Nat /\ i + 1 = Len(out) /\ Len(out') = Len(out) - 1
        BY <1>3, <3>1, <3>2
      <4> QED
        BY ONLY <4>1
    <3>6. terminal'
      BY <1>1, <3>2
    <3> QED
      BY <3>4, <3>5, <3>6
  <2>2. received'.last # "none" => out' = <<>> /\ terminal'
    BY <1>1, <1>3, <1>8, <1>9
  <2>3. terminal' => pc' = "closed" /\ stream' = <<>> /\ held' = <<>>
    BY <1>1, <1>2, <1>4 DEF OneTerminal
  <2> QED
    BY <1>10, <2>1, <2>2, <2>3 DEF OneTerminal, IsTerminal
<1>12. StatusKept(out)' /\ StatusKept(held)'
  <2>1. StatusKept(out') /\ StatusKept(held')
    BY <1>1, <1>2, <1>3 DEF PipeInv, StatusKept
  <2> QED
    BY <2>1 DEF StatusKept
<1>13. HeldEndsRun' /\ StatusKnown' /\ TerminalIsLast' /\ SilentEndMeansOverflow'
  BY <1>1, <1>4
  DEF PipeInv, HeldEndsRun, StatusKnown, TerminalIsLast, Terminal, SilentEndMeansOverflow, IsTerminal
<1> QED
  BY <1>11, <1>12, <1>13 DEF PipeInv

-----------------------------------------------------------------------------
(* The theorems *)

\* At first nothing is on its way.
LEMMA PipeInit == RuntimeInit => PipeInv
<1> SUFFICES ASSUME RuntimeInit PROVE PipeInv
  OBVIOUS
<1>1. Init /\ out = <<>> /\ rpc = "receive" /\ held = <<>> /\ background = FALSE
      /\ terminal = FALSE /\ received = [transcript |-> <<User>>, last |-> "none"]
  BY DEF RuntimeInit
<1>2. TypeOK /\ stream = <<>>
  BY <1>1, InitType DEF Init
<1>3. <<User>> \in Seq(MessageType)
  <2>1. User \in MessageType
    BY BoundAssumption DEF User, MessageType
  <2> QED
    BY <2>1
<1>4. RuntimeTypeOK
  <2>1. <<>> \in Seq(OutEvent) /\ Len(<<>>) <= OutCap
    BY RuntimeAssumption
  <2>2. received \in [transcript : Seq(MessageType), last : TerminalKinds \cup {"none"}]
    BY <1>1, <1>3
  <2> QED
    BY <1>1, <1>2, <2>1, <2>2 DEF RuntimeTypeOK
<1> QED
  BY <1>1, <1>2, <1>4
  DEF PipeInv, OneTerminal, TerminalIsLast, StatusKnown, StatusKept, HeldEndsRun, SilentEndMeansOverflow

\* What is on its way stays in order throughout a run.
LEMMA PipeInvariant == RuntimeSpec => []PipeInv
<1>1. ASSUME PipeInv, [RuntimeNext]_pipeVars PROVE PipeInv'
  <2>1. CASE UNCHANGED pipeVars
    <3>1. UNCHANGED <<gate, ctx, stream, pc, inSelect, round, deltas, messages, calls, idx,
                      decision, outcome, canceled, failure>>
          /\ UNCHANGED <<out, rpc, held, background, terminal, received>>
      BY <2>1 DEF pipeVars, vars, agentVars, runtimeVars
    <3> QED
      BY <1>1, <3>1
      DEF PipeInv, OneTerminal, RuntimeTypeOK, TypeOK, TerminalIsLast, Terminal, StatusKnown,
          StatusKept, HeldEndsRun, SilentEndMeansOverflow, IsTerminal
  <2>2. CASE RuntimeNext
    BY <1>1, <2>2, AgentStepKeepsPipe, ForwardStep, ExtractStep, EmitStep, ClosedStep, ReceiveStep
    DEF RuntimeNext, RuntimeStep
  <2> QED
    BY <1>1, <2>1, <2>2
<1> QED
  BY PipeInit, <1>1, PTL DEF RuntimeSpec

\* The caller gets at most one terminal event, and nothing after it, whatever
\* the capacities of the channels and whenever the context ends (Run, L92-172).
THEOREM AtMostOneTerminal == RuntimeSpec => []OneTerminal
<1>1. PipeInv => OneTerminal
  BY DEF PipeInv
<1> QED
  BY PipeInvariant, <1>1, PTL

\* The channel closes without a terminal event only under a done context, with
\* an event in hand that found the channel full (emitRuntimeEvent, L174-190).
THEOREM SilentOnlyOnOverflow == RuntimeSpec => []SilentEndMeansOverflow
<1>1. PipeInv => SilentEndMeansOverflow
  BY DEF PipeInv
<1> QED
  BY PipeInvariant, <1>1, PTL

-----------------------------------------------------------------------------
(* What is on its way to the caller *)

\* The events that the caller makes messages of, and the messages.
IsMessage(event) == event.kind \in {"MessageEnd", "ToolEnd"}

MessageOf(event) ==
  IF event.kind = "MessageEnd" THEN Assistant(event.n) ELSE ToolResult(event.n, event.info)

\* The events bring a reader who has the first a messages of m to the first b:
\* p[i] is what the reader has after i of them.
Carries(events, a, b, m) ==
  \E p \in [0..Len(events) -> 0..Len(m)] :
    /\ p[0] = a
    /\ p[Len(events)] = b
    /\ \A i \in 1..Len(events) :
         IF IsMessage(events[i])
           THEN p[i] = p[i - 1] + 1 /\ m[p[i]] = MessageOf(events[i])
           ELSE p[i] = p[i - 1]

\* The transcript that the events sent so far make: the answer of a round is
\* reported before it joins the messages.
Reported == IF pc = "roundDone" THEN Append(messages, Assistant(Len(calls))) ELSE messages

Starts(t, m) == Len(t) <= Len(m) /\ \A i \in 1..Len(t) : m[i] = t[i]

\* What the caller has, and then the events in the two channels and in hand,
\* make what was reported.
InFlight ==
  /\ Starts(received.transcript, Reported)
  /\ \E a, b \in 0..Len(Reported) :
       /\ Carries(out, Len(received.transcript), a, Reported)
       /\ Carries(held, a, b, Reported)
       /\ Carries(stream, b, Len(Reported), Reported)

\* The run completed: the caller knows, or the event that says so is under way.
Succeeded ==
  \/ received.last = "RunCompleted"
  \/ \E i \in 1..Len(out) : out[i].kind = "RunCompleted"
  \/ \E i \in 1..Len(held) : held[i].kind = "RunCompleted"
  \/ \E i \in 1..Len(stream) : stream[i].kind = "RunEnd"

Answered == Paired(messages) /\ messages[Len(messages)] = Assistant(0)

\* Nothing is lost as long as the run goes well; a run that fails or is
\* canceled may drop what it likes, and does not count as completed.
WholeInv ==
  /\ pc \notin {"cancelTry", "cancelDrop", "closed"} => InFlight
  /\ pc \in {"turnEnd", "runEnd"} => Answered
  /\ Succeeded => InFlight /\ Answered

\* No events carry no messages.
LEMMA CarriesNothing ==
  ASSUME NEW T, NEW m \in Seq(T), NEW a \in 0..Len(m)
  PROVE  Carries(<<>>, a, a, m)
<1> DEFINE p == [i \in 0..0 |-> a]
<1>1. p \in [0..0 -> 0..Len(m)] /\ p[0] = a /\ Len(<<>>) = 0
  OBVIOUS
<1>2. 1..Len(<<>>) = {}
  OBVIOUS
<1> HIDE DEF p
<1> QED
  BY <1>1, <1>2 DEF Carries

\* And only as many messages as none.
LEMMA CarriesNothingOnly ==
  ASSUME NEW m, NEW a, NEW b, Carries(<<>>, a, b, m)
  PROVE  a = b
BY DEF Carries

\* One more event at the end.
LEMMA CarriesAppend ==
  ASSUME NEW T, NEW events \in Seq(T), NEW U, NEW m \in Seq(U), NEW a, NEW b \in 0..Len(m),
         Carries(events, a, b, m), NEW event, NEW c \in 0..Len(m),
         IF IsMessage(event) THEN c = b + 1 /\ m[c] = MessageOf(event) ELSE c = b
  PROVE  Carries(Append(events, event), a, c, m)
<1>1. PICK p \in [0..Len(events) -> 0..Len(m)] :
        /\ p[0] = a
        /\ p[Len(events)] = b
        /\ \A i \in 1..Len(events) :
             IF IsMessage(events[i])
               THEN p[i] = p[i - 1] + 1 /\ m[p[i]] = MessageOf(events[i])
               ELSE p[i] = p[i - 1]
  BY DEF Carries
<1> DEFINE n == Len(events) + 1
           q == [i \in 0..n |-> IF i = n THEN c ELSE p[i]]
           after == Append(events, event)
<1>2. /\ Len(after) = n /\ Len(events) \in Nat /\ n \in Nat \ {0} /\ n - 1 = Len(events)
      /\ after[n] = event /\ \A i \in 1..Len(events) : after[i] = events[i]
  OBVIOUS
<1>3. /\ q \in [0..n -> 0..Len(m)] /\ q[n] = c
      /\ \A i \in 0..Len(events) : q[i] = p[i]
  BY <1>2
<1>4. \A i \in 1..n : i = n \/ (i \in 1..Len(events) /\ i - 1 \in 0..Len(events) /\ i \in 0..Len(events))
  BY <1>2
<1>5. 0 \in 0..Len(events) /\ Len(events) \in 0..Len(events)
  BY <1>2
<1> HIDE DEF n, q, after
<1>6. q[0] = a /\ q[n - 1] = b
  BY <1>1, <1>2, <1>3, <1>5
<1>7. ASSUME NEW i \in 1..n
      PROVE  IF IsMessage(after[i])
               THEN q[i] = q[i - 1] + 1 /\ m[q[i]] = MessageOf(after[i])
               ELSE q[i] = q[i - 1]
  <2>1. CASE i = n
    BY <1>2, <1>3, <1>6, <2>1
  <2>2. CASE i # n
    BY <1>1, <1>2, <1>3, <1>4, <2>2
  <2> QED
    BY <2>1, <2>2
<1> QED
  BY <1>2, <1>3, <1>6, <1>7 DEF Carries, after

\* The oldest event is taken away.
LEMMA CarriesTail ==
  ASSUME NEW T, NEW events \in Seq(T), events # <<>>, NEW U, NEW m \in Seq(U), NEW a, NEW b,
         Carries(events, a, b, m)
  PROVE  \E c \in 0..Len(m) :
           /\ Carries(Tail(events), c, b, m)
           /\ IF IsMessage(Head(events)) THEN c = a + 1 /\ m[c] = MessageOf(Head(events)) ELSE c = a
<1>1. PICK p \in [0..Len(events) -> 0..Len(m)] :
        /\ p[0] = a
        /\ p[Len(events)] = b
        /\ \A i \in 1..Len(events) :
             IF IsMessage(events[i])
               THEN p[i] = p[i - 1] + 1 /\ m[p[i]] = MessageOf(events[i])
               ELSE p[i] = p[i - 1]
  BY DEF Carries
<1>2. /\ Head(events) = events[1] /\ 1 \in 1..Len(events) /\ Len(events) \in Nat \ {0}
      /\ Len(Tail(events)) = Len(events) - 1
      /\ \A i \in 1..Len(Tail(events)) : i + 1 \in 1..Len(events) /\ Tail(events)[i] = events[i + 1]
  BY HeadFacts
<1> DEFINE n == Len(events) - 1
           q == [i \in 0..n |-> p[i + 1]]
           rest == Tail(events)
<1>3. n \in Nat /\ n + 1 = Len(events) /\ Len(rest) = n
  BY <1>2
<1>4. \A i \in 0..n : i + 1 \in 0..Len(events)
  BY <1>3
<1>5. q \in [0..n -> 0..Len(m)] /\ \A i \in 0..n : q[i] = p[i + 1]
  BY <1>4
<1>6. \A i \in 1..n : i \in 0..n /\ i - 1 \in 0..n /\ (i - 1) + 1 = i /\ i + 1 \in 1..Len(events)
                     /\ (i + 1) - 1 = i /\ rest[i] = events[i + 1]
  BY <1>2, <1>3
<1>7. 0 \in 0..n /\ n \in 0..n /\ 0 + 1 = 1 /\ 1 - 1 = 0 /\ 1 \in 0..Len(events)
  BY <1>3
<1> HIDE DEF n, q, rest
<1>8. q[0] = p[1] /\ q[n] = b
  BY <1>1, <1>3, <1>5, <1>7
<1>9. ASSUME NEW i \in 1..n
      PROVE  IF IsMessage(rest[i])
               THEN q[i] = q[i - 1] + 1 /\ m[q[i]] = MessageOf(rest[i])
               ELSE q[i] = q[i - 1]
  <2>1. q[i] = p[i + 1] /\ q[i - 1] = p[i] /\ rest[i] = events[i + 1]
    BY <1>5, <1>6
  <2>2. IF IsMessage(events[i + 1])
          THEN p[i + 1] = p[i] + 1 /\ m[p[i + 1]] = MessageOf(events[i + 1])
          ELSE p[i + 1] = p[i]
    BY <1>1, <1>6
  <2> QED
    BY <2>1, <2>2
<1>10. Carries(rest, p[1], b, m)
  BY <1>3, <1>5, <1>8, <1>9 DEF Carries
<1>11. IF IsMessage(Head(events)) THEN p[1] = a + 1 /\ m[p[1]] = MessageOf(Head(events)) ELSE p[1] = a
  BY <1>1, <1>2, <1>7
<1>12. p[1] \in 0..Len(m)
  BY <1>7
<1> QED
  BY <1>10, <1>11, <1>12 DEF rest

\* An event that is no message, before the others.
LEMMA CarriesPrepend ==
  ASSUME NEW T, NEW events \in Seq(T), NEW m, NEW a, NEW b,
         Carries(events, a, b, m), NEW event \in T, ~IsMessage(event)
  PROVE  Carries(<<event>> \o events, a, b, m)
<1>1. PICK p \in [0..Len(events) -> 0..Len(m)] :
        /\ p[0] = a
        /\ p[Len(events)] = b
        /\ \A i \in 1..Len(events) :
             IF IsMessage(events[i])
               THEN p[i] = p[i - 1] + 1 /\ m[p[i]] = MessageOf(events[i])
               ELSE p[i] = p[i - 1]
  BY DEF Carries
<1> DEFINE n == Len(events) + 1
           after == <<event>> \o events
           q == [i \in 0..n |-> IF i = 0 THEN a ELSE p[i - 1]]
<1>2. /\ Len(after) = n /\ Len(events) \in Nat /\ n \in Nat \ {0} /\ n - 1 = Len(events)
      /\ after[1] = event /\ \A i \in 2..n : after[i] = events[i - 1]
  OBVIOUS
<1>3. \A i \in 1..n : i - 1 \in 0..Len(events) /\ i # 0
  BY <1>2
<1>4. 0 \in 0..Len(events) /\ a \in 0..Len(m) /\ n \in 1..n
  BY <1>1, <1>2
<1>5. /\ q \in [0..n -> 0..Len(m)] /\ q[0] = a
      /\ \A i \in 1..n : q[i] = p[i - 1]
  BY <1>2, <1>3, <1>4
<1>6. \A i \in 1..n : i = 1 \/ (i \in 2..n /\ i - 1 \in 1..n /\ i - 1 \in 1..Len(events))
  BY <1>2
<1> HIDE DEF n, q, after
<1>7. ASSUME NEW i \in 1..n
      PROVE  IF IsMessage(after[i])
               THEN q[i] = q[i - 1] + 1 /\ m[q[i]] = MessageOf(after[i])
               ELSE q[i] = q[i - 1]
  <2>1. CASE i = 1
    <3>1. q[1] = p[0] /\ q[1 - 1] = a
      BY <1>5, <2>1
    <3> QED
      BY <1>1, <1>2, <2>1, <3>1
  <2>2. CASE i # 1
    <3> DEFINE k == i - 1
    <3>1. k \in 1..Len(events) /\ q[i] = p[k] /\ q[k] = p[k - 1] /\ after[i] = events[k]
      BY <1>2, <1>5, <1>6, <2>2
    <3> QED
      BY <1>1, <3>1
  <2> QED
    BY <2>1, <2>2
<1>8. q[n] = b
  BY <1>1, <1>2, <1>4, <1>5
<1> QED
  BY <1>2, <1>5, <1>7, <1>8 DEF Carries, after

\* The same in a transcript that has grown.
LEMMA CarriesLonger ==
  ASSUME NEW T, NEW events \in Seq(T), NEW m, NEW longer, NEW a, NEW b,
         Carries(events, a, b, m), Len(m) \in Nat, Len(longer) \in Nat, Starts(m, longer)
  PROVE  Carries(events, a, b, longer)
<1>1. PICK p \in [0..Len(events) -> 0..Len(m)] :
        /\ p[0] = a
        /\ p[Len(events)] = b
        /\ \A i \in 1..Len(events) :
             IF IsMessage(events[i])
               THEN p[i] = p[i - 1] + 1 /\ m[p[i]] = MessageOf(events[i])
               ELSE p[i] = p[i - 1]
  BY DEF Carries
<1>2. Len(m) <= Len(longer) /\ \A i \in 1..Len(m) : longer[i] = m[i]
  BY DEF Starts
<1>3. p \in [0..Len(events) -> 0..Len(longer)]
  BY <1>2
<1>4. ASSUME NEW i \in 1..Len(events), IsMessage(events[i])
      PROVE  longer[p[i]] = m[p[i]]
  <2>1. i \in 0..Len(events) /\ i - 1 \in 0..Len(events)
    OBVIOUS
  <2>2. p[i] \in 0..Len(m) /\ p[i - 1] \in 0..Len(m) /\ p[i] = p[i - 1] + 1
    BY <1>1, <1>4, <2>1
  <2>3. p[i] \in 1..Len(m)
    BY <2>2
  <2> QED
    BY <1>2, <2>3
<1> QED
  BY <1>1, <1>3, <1>4 DEF Carries

\* What the Agent has reported is a transcript.
LEMMA ReportedTyped == TypeOK => Reported \in Seq(MessageType)
<1> SUFFICES ASSUME TypeOK PROVE Reported \in Seq(MessageType)
  OBVIOUS
<1>1. messages \in Seq(MessageType) /\ Len(calls) \in 0..MaxCalls
  BY BoundAssumption DEF TypeOK
<1>2. Assistant(Len(calls)) \in MessageType
  BY <1>1, BoundAssumption DEF Assistant, MessageType
<1> QED
  BY <1>1, <1>2 DEF Reported

\* A step that neither sends nor reports anything.
LEMMA FlightKept ==
  ASSUME InFlight, UNCHANGED <<out, held, stream, received, Reported>>
  PROVE  InFlight'
BY DEF InFlight

\* A step that sends an event which is no message.
LEMMA FlightSends ==
  ASSUME TypeOK, InFlight, NEW event, ~IsMessage(event), stream' = Append(stream, event),
         UNCHANGED <<out, held, received, Reported>>
  PROVE  InFlight'
<1>1. stream \in Seq(EventType) /\ Reported \in Seq(MessageType)
  BY ReportedTyped DEF TypeOK
<1>2. PICK a \in 0..Len(Reported), b \in 0..Len(Reported) :
       /\ Carries(out, Len(received.transcript), a, Reported)
       /\ Carries(held, a, b, Reported)
       /\ Carries(stream, b, Len(Reported), Reported)
  BY DEF InFlight
<1>3. Len(Reported) \in 0..Len(Reported)
  BY <1>1
<1>4. Carries(stream', b, Len(Reported), Reported)
  BY <1>1, <1>2, <1>3, CarriesAppend
<1> QED
  BY <1>2, <1>4 DEF InFlight

\* A step that sends a message as it is reported.
LEMMA FlightReports ==
  ASSUME RuntimeTypeOK, InFlight, NEW event, IsMessage(event), stream' = Append(stream, event),
         Reported' = Append(Reported, MessageOf(event)), UNCHANGED <<out, held, received>>
  PROVE  InFlight'
<1>1. /\ stream \in Seq(EventType) /\ Reported \in Seq(MessageType)
      /\ out \in Seq(OutEvent) /\ held \in Seq(OutEvent)
      /\ received.transcript \in Seq(MessageType)
  BY ReportedTyped DEF RuntimeTypeOK, TypeOK
<1> DEFINE old == Reported
           new == Append(old, MessageOf(event))
           x == MessageOf(event)
           t == received.transcript
<1>2. PICK a \in 0..Len(old), b \in 0..Len(old) :
       /\ Carries(out, Len(t), a, old)
       /\ Carries(held, a, b, old)
       /\ Carries(stream, b, Len(old), old)
  BY DEF InFlight
<1>3. Starts(t, old) /\ Len(t) \in Nat
  BY <1>1 DEF InFlight
<1>4. /\ Len(new) = Len(old) + 1 /\ Len(old) \in Nat /\ new[Len(old) + 1] = x
      /\ \A i \in 1..Len(old) : new[i] = old[i]
      /\ new \in Seq(MessageType \cup {x})
  BY <1>1
<1>5. Reported' = new /\ out' = out /\ held' = held /\ received' = received
  OBVIOUS
<1> HIDE DEF old, new, x, t
<1>6. Starts(old, new) /\ Len(new) \in Nat
  BY <1>4 DEF Starts
<1>7. /\ Carries(out, Len(t), a, new)
      /\ Carries(held, a, b, new)
      /\ Carries(stream, b, Len(old), new)
  BY <1>1, <1>2, <1>4, <1>6, CarriesLonger
<1>8. Starts(t, new)
  <2>1. Len(t) <= Len(new) /\ \A i \in 1..Len(t) : i \in 1..Len(old)
    BY <1>3, <1>4 DEF Starts
  <2> QED
    BY <1>3, <1>4, <2>1 DEF Starts
<1>9. Carries(stream', b, Len(new), new)
  <2>1. Len(old) \in 0..Len(new) /\ Len(new) \in 0..Len(new) /\ Len(new) = Len(old) + 1
        /\ new[Len(new)] = MessageOf(event)
    BY <1>4 DEF x
  <2> HIDE DEF x
  <2> QED
    BY <1>1, <1>4, <1>7, <2>1, CarriesAppend
<1>10. a \in 0..Len(new) /\ b \in 0..Len(new)
  BY <1>4
<1>11. InFlight'
  BY <1>5, <1>7, <1>8, <1>9, <1>10 DEF InFlight, t
<1> QED
  BY <1>11

\* As long as the run goes on it has not succeeded, and only its RunEnd
\* changes that.
LEMMA NotYet ==
  ASSUME PipeInv, pc # "closed", UNCHANGED <<out, held, received>>,
         NEW event, event.kind # "RunEnd",
         stream' \in {stream, Append(stream, event),
                     Append(IF stream = <<>> THEN <<>> ELSE Tail(stream), event)}
  PROVE  ~Succeeded'
<1>1. /\ received.last = "none" /\ ~terminal
      /\ \A i \in 1..Len(out) : out[i].kind # "RunCompleted"
      /\ \A i \in 1..Len(held) : held[i].kind # "RunCompleted"
  BY DEF PipeInv, OneTerminal, HeldEndsRun, IsTerminal, TerminalKinds
<1>2. stream \in Seq(EventType) /\ \A i \in 1..Len(stream) : stream[i].kind # "RunEnd"
  BY DEF PipeInv, OneTerminal, RuntimeTypeOK, TypeOK, TerminalIsLast, Terminal
<1>3. CASE stream' = stream
  BY <1>1, <1>2, <1>3 DEF Succeeded
<1>4. ASSUME NEW kept \in Seq(EventType), stream' = Append(kept, event),
             \A i \in 1..Len(kept) : kept[i].kind # "RunEnd"
      PROVE  ~Succeeded'
  <2>1. /\ Len(stream') = Len(kept) + 1 /\ Len(kept) \in Nat
        /\ \A i \in 1..Len(kept) : stream'[i] = kept[i]
        /\ stream'[Len(kept) + 1] = event
    BY <1>4
  <2>2. \A i \in 1..Len(stream') : i \in 1..Len(kept) \/ i = Len(kept) + 1
    BY <2>1
  <2>3. \A i \in 1..Len(stream') : stream'[i].kind # "RunEnd"
    BY <1>4, <2>1, <2>2
  <2> QED
    BY <1>1, <2>3 DEF Succeeded
<1>5. CASE stream' = Append(stream, event)
  BY <1>2, <1>4, <1>5
<1>6. CASE stream = <<>> /\ stream' = Append(<<>>, event)
  BY <1>2, <1>5, <1>6
<1>7. CASE stream # <<>> /\ stream' = Append(Tail(stream), event)
  <2>1. /\ Tail(stream) \in Seq(EventType)
        /\ \A i \in 1..Len(Tail(stream)) : i + 1 \in 1..Len(stream) /\ Tail(stream)[i] = stream[i + 1]
    BY <1>2, <1>7, HeadFacts
  <2> QED
    BY <1>2, <1>4, <1>7, <2>1
<1> QED
  BY <1>3, <1>5, <1>6, <1>7

\* The steps of the Agent that report no message and do not end the turn.
LEMMA WholeSends ==
  ASSUME PipeInv, WholeInv, UNCHANGED <<out, held, received, messages>>,
         pc \notin {"roundDone", "cancelTry", "cancelDrop", "closed"},
         pc' \notin {"roundDone", "turnEnd", "runEnd"},
         NEW event, ~IsMessage(event), event.kind # "RunEnd",
         stream' = stream \/ stream' = Append(stream, event)
  PROVE  WholeInv'
<1>1. InFlight /\ RuntimeTypeOK /\ TypeOK
  BY DEF WholeInv, PipeInv, OneTerminal, RuntimeTypeOK
<1>2. UNCHANGED Reported
  BY DEF Reported
<1>3. InFlight'
  BY <1>1, <1>2, FlightKept, FlightSends
<1>4. ~Succeeded'
  BY NotYet
<1> QED
  BY <1>3, <1>4 DEF WholeInv

\* The steps that end the run in an error.
LEMMA WholeFails ==
  ASSUME PipeInv, UNCHANGED <<out, held, received>>,
         pc # "closed", pc' \in {"cancelTry", "cancelDrop", "closed"},
         NEW event, event.kind # "RunEnd",
         stream' \in {stream, Append(stream, event),
                     Append(IF stream = <<>> THEN <<>> ELSE Tail(stream), event)}
  PROVE  WholeInv'
<1>1. ~Succeeded'
  BY NotYet
<1> QED
  BY <1>1 DEF WholeInv

\* The answer of a round is reported, and then joins the messages.
LEMMA WholeRound ==
  ASSUME PipeInv, BatchInv, WholeInv, EmitMessageEnd \/ RoundDone,
         UNCHANGED <<out, held, received>>
  PROVE  WholeInv'
<1>1. RuntimeTypeOK /\ TypeOK /\ messages \in Seq(MessageType) /\ Len(calls) \in Nat
  BY DEF PipeInv, OneTerminal, RuntimeTypeOK, TypeOK
<1>2. CASE EmitMessageEnd
  <2> DEFINE event == Event("MessageEnd", Len(calls), "none")
  <2>1. /\ pc = "messageEnd" /\ UNCHANGED <<messages, calls>>
        /\ \/ stream' = Append(stream, event) /\ pc' = "roundDone"
           \/ stream' = stream /\ pc' = "cancelTry"
    BY <1>2 DEF EmitMessageEnd, Emit, EmitOn, Goto, Control
  <2>2. IsMessage(event) /\ MessageOf(event) = Assistant(Len(calls)) /\ event.kind # "RunEnd"
    BY DEF Event, IsMessage, MessageOf
  <2> HIDE DEF event
  <2>3. CASE stream' = stream /\ pc' = "cancelTry"
    BY <2>1, <2>2, <2>3, WholeFails
  <2>4. CASE stream' = Append(stream, event) /\ pc' = "roundDone"
    <3>1. InFlight
      BY <2>1 DEF WholeInv
    <3>2. Reported' = Append(Reported, MessageOf(event))
      BY <2>1, <2>2, <2>4 DEF Reported
    <3>3. InFlight'
      BY <1>1, <2>2, <2>4, <3>1, <3>2, FlightReports
    <3>4. ~Succeeded'
      BY <2>1, <2>2, <2>4, NotYet
    <3> QED
      BY <2>4, <3>3, <3>4 DEF WholeInv
  <2> QED
    BY <2>1, <2>3, <2>4
<1>3. CASE RoundDone
  <2>1. pc = "roundDone" /\ UNCHANGED <<stream, calls>>
    BY <1>3 DEF RoundDone, Goto
  <2>2. CASE ctx = "done"
    <3>1. pc' = "cancelTry"
      BY <1>3, <2>2 DEF RoundDone, Goto
    <3>2. Plain("RunStart").kind # "RunEnd"
      BY DEF Plain, Event
    <3> QED
      BY <2>1, <3>1, <3>2, WholeFails
  <2>3. CASE ctx # "done"
    <3>1. /\ messages' = Append(messages, Assistant(Len(calls)))
          /\ pc' = IF calls = <<>> THEN "turnEnd" ELSE "toolStart"
      BY <1>3, <2>3 DEF RoundDone, Goto
    <3>2. UNCHANGED Reported /\ InFlight
      BY <2>1, <3>1 DEF Reported, WholeInv
    <3>3. InFlight'
      BY <2>1, <3>2, FlightKept
    <3>4. ~Succeeded'
      <4>1. Plain("RunStart").kind # "RunEnd"
        BY DEF Plain, Event
      <4> QED
        BY <2>1, <4>1, NotYet
    <3>5. CASE calls # <<>>
      BY <3>1, <3>3, <3>4, <3>5 DEF WholeInv
    <3>6. CASE calls = <<>>
      <4>1. Len(calls) = 0 /\ pc' = "turnEnd"
        BY <3>1, <3>6
      <4>2. BatchInv'
        BY <1>1, <1>3, RoundDoneBatch
      <4>3. Paired(messages')
        BY <4>1, <4>2 DEF BatchInv, InBatch
      <4>4. messages'[Len(messages')] = Assistant(0)
        BY <1>1, <3>1, <4>1
      <4> QED
        BY <3>3, <3>4, <4>3, <4>4 DEF WholeInv, Answered
    <3> QED
      BY <3>5, <3>6
  <2> QED
    BY <2>2, <2>3
<1> QED
  BY <1>2, <1>3

\* The result of a call is reported as it joins the messages, and the run ends
\* after its last answer.
LEMMA WholeEnds ==
  ASSUME PipeInv, BatchInv, WholeInv, EmitToolEnd \/ EmitTurnEnd \/ EmitRunEnd,
         UNCHANGED <<out, held, received>>
  PROVE  WholeInv'
<1>1. RuntimeTypeOK /\ TypeOK
  BY DEF PipeInv, OneTerminal, RuntimeTypeOK
<1>2. CASE EmitToolEnd
  <2> DEFINE event == Event("ToolEnd", idx, outcome)
             next == IF MoreCalls THEN "toolStart" ELSE AfterBatch
  <2>1. next \in {"toolStart", "cancelTry", "prepare"}
    BY DEF AfterBatch
  <2>2. /\ pc = "toolEnd"
        /\ \/ stream' = Append(stream, event) /\ pc' = next
           \/ stream' = stream /\ pc' = "closed"
    BY <1>2 DEF EmitToolEnd, EmitOn, Goto
  <2>3. IsMessage(event) /\ MessageOf(event) = ToolResult(idx, outcome) /\ event.kind # "RunEnd"
    BY DEF Event, IsMessage, MessageOf
  <2> HIDE DEF event, next
  <2>4. CASE stream' = stream /\ pc' = "closed"
    BY <2>2, <2>3, <2>4, WholeFails
  <2>5. CASE stream' = Append(stream, event) /\ pc' = next
    <3>1. messages' = Append(messages, ToolResult(idx, outcome)) /\ InFlight
      BY <1>2, <2>1, <2>2, <2>5 DEF EmitToolEnd, WholeInv
    <3>2. Reported' = Append(Reported, MessageOf(event))
      BY <2>1, <2>2, <2>3, <2>5, <3>1 DEF Reported
    <3>3. InFlight'
      BY <1>1, <2>3, <2>5, <3>1, <3>2, FlightReports
    <3>4. ~Succeeded'
      BY <2>2, <2>3, <2>5, NotYet
    <3> QED
      BY <2>1, <2>5, <3>3, <3>4 DEF WholeInv
  <2> QED
    BY <2>2, <2>4, <2>5
<1>3. CASE EmitTurnEnd
  <2> DEFINE event == Plain("TurnEnd")
  <2>1. /\ pc = "turnEnd" /\ UNCHANGED messages
        /\ \/ stream' = Append(stream, event) /\ pc' = "runEnd"
           \/ stream' = stream /\ pc' = "closed"
    BY <1>3 DEF EmitTurnEnd, Emit, EmitOn, Goto, Control
  <2>2. ~IsMessage(event) /\ event.kind # "RunEnd"
    BY DEF Plain, Event, IsMessage
  <2> HIDE DEF event
  <2>3. InFlight /\ Answered /\ UNCHANGED Reported
    BY <2>1 DEF WholeInv, Reported
  <2>4. InFlight'
    BY <1>1, <2>1, <2>2, <2>3, FlightKept, FlightSends
  <2>5. ~Succeeded'
    BY <2>1, <2>2, NotYet
  <2> QED
    BY <2>1, <2>3, <2>4, <2>5 DEF WholeInv, Answered
<1>4. CASE EmitRunEnd
  <2> DEFINE event == Plain("RunEnd")
  <2>1. /\ pc = "runEnd" /\ pc' = "closed" /\ UNCHANGED messages
        /\ stream' = Append(stream, event) \/ stream' = stream
    BY <1>4 DEF EmitRunEnd, Emit, EmitOn, Goto, Control
  <2>2. ~IsMessage(event)
    BY DEF Plain, Event, IsMessage
  <2> HIDE DEF event
  <2>3. InFlight /\ Answered /\ UNCHANGED Reported
    BY <2>1 DEF WholeInv, Reported
  <2>4. InFlight'
    BY <1>1, <2>1, <2>2, <2>3, FlightKept, FlightSends
  <2> QED
    BY <2>1, <2>3, <2>4 DEF WholeInv, Answered
<1> QED
  BY <1>2, <1>3, <1>4

\* Steps of the Agent, and the end of its context, lose no message.
LEMMA WholeAgent ==
  ASSUME PipeInv, BatchInv, WholeInv, AgentStep \/ CancelRun, UNCHANGED <<out, held, received>>
  PROVE  WholeInv'
<1>a. /\ \A kind \in {"RunStart", "TurnStart", "ContextPrepared", "SummaryCandidate",
                      "MessageStart", "Delta"} :
           ~IsMessage(Plain(kind)) /\ Plain(kind).kind # "RunEnd"
      /\ \A kind \in {"ToolStart", "ApprovalRequested", "ApprovalDecided", "Error"} :
           \A n, info : ~IsMessage(Event(kind, n, info)) /\ Event(kind, n, info).kind # "RunEnd"
  BY DEF Plain, Event, IsMessage
<1>1. CASE Start \/ Prepare \/ OpenStream \/ ReceiveDelta \/ ReceiveDone \/ ReceiveError
              \/ ReceiveCanceled \/ Execute \/ Decide \/ ExecutorReturns
  <2>1. /\ UNCHANGED <<stream, messages>>
        /\ pc \notin {"roundDone", "cancelTry", "cancelDrop", "closed"}
        /\ pc' \notin {"roundDone", "turnEnd", "runEnd"}
    BY <1>1
    DEF Start, Prepare, OpenStream, ReceiveDelta, ReceiveDone, ReceiveError, ReceiveCanceled,
        Execute, Decide, ExecutorReturns, RoundFails, Control, CallLeaves, Finish, Goto
  <2> QED
    BY <1>a, <2>1, WholeSends
<1>2. CASE EmitRunStart \/ EmitTurnStart \/ EmitContextPrepared \/ EmitSummaryCandidate
              \/ EmitMessageStart \/ EmitDelta
  <2>1. PICK kind \in {"RunStart", "TurnStart", "ContextPrepared", "SummaryCandidate",
                       "MessageStart", "Delta"} :
          /\ stream' = stream \/ stream' = Append(stream, Plain(kind))
          /\ pc \notin {"roundDone", "cancelTry", "cancelDrop", "closed"}
          /\ pc' \notin {"roundDone", "turnEnd", "runEnd"}
          /\ UNCHANGED messages
    BY <1>2
    DEF EmitRunStart, EmitTurnStart, EmitContextPrepared, EmitSummaryCandidate, EmitMessageStart,
        EmitDelta, Emit, EmitOn, Goto, Control
  <2> QED
    BY <1>a, <2>1, WholeSends
<1>3. CASE EmitToolStart \/ RequestApproval \/ MissingGate \/ EmitDecision
  <2>1. PICK kind \in {"ToolStart", "ApprovalRequested", "ApprovalDecided", "Error"},
             info \in {"none", "denied", decision} :
          /\ stream' = stream \/ stream' = Append(stream, Event(kind, idx, info))
          /\ pc \notin {"roundDone", "cancelTry", "cancelDrop", "closed"}
          /\ pc' \notin {"roundDone", "turnEnd", "runEnd"}
          /\ UNCHANGED messages
    BY <1>3
    DEF EmitToolStart, RequestApproval, MissingGate, EmitDecision, Emit, EmitOn, Goto, CallLeaves
  <2> QED
    BY <1>a, <2>1, WholeSends
<1>4. CASE Fail \/ CancelTry \/ CancelDrop
  <2>1. /\ stream' \in {stream, Append(stream, Event("Error", 0, failure)),
                        Append(IF stream = <<>> THEN <<>> ELSE Tail(stream),
                               Event("Error", 0, failure))}
        /\ pc # "closed" /\ pc' \in {"cancelTry", "cancelDrop", "closed"}
    BY <1>4 DEF Fail, CancelTry, CancelDrop, Emit, EmitOn, Goto
  <2> QED
    BY <1>a, <2>1, WholeFails
<1>5. CASE CancelRun
  <2>1. UNCHANGED <<stream, pc, messages, calls>>
    BY <1>5 DEF CancelRun
  <2>2. UNCHANGED Reported
    BY <2>1 DEF Reported
  <2>3. InFlight => InFlight'
    BY <2>1, <2>2, FlightKept
  <2> QED
    BY <2>1, <2>3 DEF WholeInv, Succeeded, Answered
<1> QED
  BY <1>1, <1>2, <1>3, <1>4, <1>5, WholeRound, WholeEnds DEF AgentStep, RunStep, ProviderStep, ToolStep

\* The oldest event of the run is in hand, or the terminal event made of it.
LEMMA WholeForward ==
  ASSUME PipeInv, WholeInv, Forward
  PROVE  WholeInv'
<1> DEFINE event == Head(stream)
<1>1. /\ rpc = "receive" /\ stream # <<>> /\ stream' = Tail(stream) /\ held = <<>>
      /\ UNCHANGED <<pc, messages, calls, out, received>>
  BY DEF Forward, PipeInv, HeldEndsRun
<1>2. /\ stream \in Seq(EventType) /\ ~terminal /\ RuntimeTypeOK /\ TypeOK
      /\ Reported \in Seq(MessageType)
  BY <1>1, ReportedTyped DEF PipeInv, OneTerminal, RuntimeTypeOK, TypeOK, HeldEndsRun
<1>3. UNCHANGED Reported
  BY <1>1 DEF Reported
<1>4. \E x : /\ held' = <<x>>
             /\ IsMessage(event) => x = event
             /\ ~IsMessage(event) => ~IsMessage(x)
             /\ x.kind = "RunCompleted" => event.kind \in {"RunEnd", "RunCompleted"}
  <2>1. CASE event.kind = "RunEnd"
    <3>1. held' = <<Plain("RunCompleted")>>
      BY <1>2, <2>1 DEF Forward
    <3> QED
      BY <2>1, <3>1 DEF IsMessage, Plain, Event
  <2>2. CASE event.kind = "Error"
    <3>1. held' = <<ErrorTerminal(event)>>
      BY <1>2, <2>2 DEF Forward
    <3>2. ErrorTerminal(event).kind \in {"RunCanceled", "RunFailed"}
      BY DEF ErrorTerminal, Plain, Event
    <3> QED
      BY <2>2, <3>1, <3>2 DEF IsMessage
  <2>3. CASE ~Terminal(event)
    <3>1. held' = <<event>>
      BY <2>3 DEF Forward, Terminal
    <3> QED
      BY <3>1
  <2> QED
    BY <2>1, <2>2, <2>3 DEF Terminal
<1>5. PICK x : /\ held' = <<x>>
               /\ IsMessage(event) => x = event
               /\ ~IsMessage(event) => ~IsMessage(x)
               /\ x.kind = "RunCompleted" => event.kind \in {"RunEnd", "RunCompleted"}
  BY <1>4
<1>6. /\ event = stream[1] /\ event \in EventType /\ 1 \in 1..Len(stream)
      /\ \A i \in 1..Len(Tail(stream)) : i + 1 \in 1..Len(stream) /\ Tail(stream)[i] = stream[i + 1]
  BY <1>1, <1>2, HeadFacts
<1>7. event.kind # "RunCompleted"
  BY <1>6 DEF EventType, EventKinds
<1> HIDE DEF event
<1>8. Succeeded' => Succeeded
  <2>1. ASSUME NEW i \in 1..Len(held'), held'[i].kind = "RunCompleted"
        PROVE  Succeeded
    <3>1. held'[i] = x
      BY <1>5, <2>1
    <3>2. stream[1].kind = "RunEnd"
      BY <1>5, <1>6, <1>7, <2>1, <3>1
    <3> QED
      BY <1>6, <3>2 DEF Succeeded
  <2>2. ASSUME NEW i \in 1..Len(stream'), stream'[i].kind = "RunEnd"
        PROVE  Succeeded
    BY <1>1, <1>6, <2>2 DEF Succeeded
  <2> QED
    BY <1>1, <2>1, <2>2 DEF Succeeded
<1>9. ASSUME InFlight PROVE InFlight'
  <2>1. PICK a \in 0..Len(Reported), b \in 0..Len(Reported) :
          /\ Carries(out, Len(received.transcript), a, Reported)
          /\ Carries(held, a, b, Reported)
          /\ Carries(stream, b, Len(Reported), Reported)
    BY <1>9 DEF InFlight
  <2>2. a = b
    BY <1>1, <2>1, CarriesNothingOnly
  <2>3. PICK c \in 0..Len(Reported) :
          /\ Carries(Tail(stream), c, Len(Reported), Reported)
          /\ IF IsMessage(event) THEN c = b + 1 /\ Reported[c] = MessageOf(event) ELSE c = b
    BY <1>1, <1>2, <2>1, CarriesTail DEF event
  <2>4. Carries(<<>>, a, a, Reported)
    BY <1>2, CarriesNothing
  <2>5. Carries(Append(<<>>, x), a, c, Reported)
    <3>1. <<>> \in Seq(EventType)
      OBVIOUS
    <3>2. IF IsMessage(x) THEN c = a + 1 /\ Reported[c] = MessageOf(x) ELSE c = a
      BY <1>5, <2>2, <2>3
    <3> QED
      BY <1>2, <2>4, <3>1, <3>2, CarriesAppend
  <2>6. held' = Append(<<>>, x)
    BY <1>5
  <2>7. Starts(received.transcript, Reported)
    BY <1>9 DEF InFlight
  <2> QED
    BY <1>1, <1>3, <2>1, <2>3, <2>5, <2>6, <2>7 DEF InFlight
<1> QED
  BY <1>1, <1>8, <1>9 DEF WholeInv, Answered

\* The extractor's event is no message.
LEMMA WholeExtract ==
  ASSUME PipeInv, WholeInv, Extract
  PROVE  WholeInv'
<1>1. /\ UNCHANGED <<stream, pc, messages, calls, out, received>>
      /\ held \in Seq(OutEvent)
  BY DEF Extract, vars, agentVars, PipeInv, OneTerminal, RuntimeTypeOK
<1>2. UNCHANGED Reported
  BY <1>1 DEF Reported
<1>3. PICK kinds \in {<<"MemoryExtractionFailed">>, <<"MemoryCandidate">>, <<>>} :
        held' = [i \in 1..Len(kinds) |-> Plain(kinds[i])] \o held
  BY DEF Extract
<1>4. CASE kinds = <<>>
  <2>1. held' = held
    BY <1>1, <1>3, <1>4
  <2>2. InFlight => InFlight'
    BY <1>1, <1>2, <2>1, FlightKept
  <2> QED
    BY <1>1, <2>1, <2>2 DEF WholeInv, Succeeded, Answered
<1>5. CASE kinds # <<>>
  <2>1. PICK kind \in {"MemoryCandidate", "MemoryExtractionFailed"} : kinds = <<kind>>
    BY <1>5
  <2> DEFINE x == Plain(kind)
  <2>2. x \in OutEvent /\ ~IsMessage(x) /\ x.kind # "RunCompleted"
    BY PassedOnTyped DEF IsMessage, Plain, Event
  <2>3. held' = <<x>> \o held
    <3>1. [i \in 1..Len(kinds) |-> Plain(kinds[i])] = <<x>>
      BY <2>1
    <3> QED
      BY <1>3, <3>1
  <2> HIDE DEF x
  <2>4. \A i \in 1..Len(held') :
          \/ i = 1 /\ held'[i] = x
          \/ i - 1 \in 1..Len(held) /\ held'[i] = held[i - 1]
    BY <1>1, <2>2, <2>3
  <2>5. Succeeded' => Succeeded
    BY <1>1, <2>2, <2>4 DEF Succeeded
  <2>6. ASSUME InFlight PROVE InFlight'
    <3>1. \A a, b : Carries(held, a, b, Reported) => Carries(held', a, b, Reported)
      BY <1>1, <2>2, <2>3, CarriesPrepend
    <3> QED
      BY <1>1, <1>2, <2>6, <3>1 DEF InFlight
  <2> QED
    BY <1>1, <2>5, <2>6 DEF WholeInv, Answered
<1> QED
  BY <1>4, <1>5

\* An event that goes out stays where it is among the others.
LEMMA WholeEmit ==
  ASSUME PipeInv, WholeInv, TrySend \/ WaitSend
  PROVE  WholeInv'
<1>1. /\ UNCHANGED <<stream, pc, messages, calls, received>> /\ rpc \in {"try", "wait"}
      /\ held \in Seq(OutEvent) /\ out \in Seq(OutEvent) /\ TypeOK
      /\ held # <<>>
  BY DEF TrySend, WaitSend, vars, agentVars, PipeInv, OneTerminal, RuntimeTypeOK, HeldEndsRun
<1>2. UNCHANGED Reported /\ Reported \in Seq(MessageType)
  BY <1>1, ReportedTyped DEF Reported
<1>3. CASE UNCHANGED <<out, held>>
  <2>1. InFlight => InFlight'
    BY <1>1, <1>2, <1>3, FlightKept
  <2> QED
    BY <1>1, <1>3, <2>1 DEF WholeInv, Succeeded, Answered
<1>4. CASE out' = Append(out, Head(held)) /\ held' = Tail(held)
  <2> DEFINE event == Head(held)
  <2>1. /\ event = held[1] /\ 1 \in 1..Len(held)
        /\ \A i \in 1..Len(Tail(held)) : i + 1 \in 1..Len(held) /\ Tail(held)[i] = held[i + 1]
    BY <1>1, HeadFacts
  <2>2. \A i \in 1..Len(out') : (i \in 1..Len(out) /\ out'[i] = out[i]) \/ out'[i] = event
    BY <1>1, <1>4
  <2> HIDE DEF event
  <2>3. Succeeded' => Succeeded
    BY <1>1, <1>4, <2>1, <2>2 DEF Succeeded
  <2>4. ASSUME InFlight PROVE InFlight'
    <3>1. PICK a \in 0..Len(Reported), b \in 0..Len(Reported) :
            /\ Carries(out, Len(received.transcript), a, Reported)
            /\ Carries(held, a, b, Reported)
            /\ Carries(stream, b, Len(Reported), Reported)
      BY <2>4 DEF InFlight
    <3>2. PICK c \in 0..Len(Reported) :
            /\ Carries(Tail(held), c, b, Reported)
            /\ IF IsMessage(event) THEN c = a + 1 /\ Reported[c] = MessageOf(event) ELSE c = a
      BY <1>1, <1>2, <3>1, CarriesTail DEF event
    <3>3. Carries(Append(out, event), Len(received.transcript), c, Reported)
      BY <1>1, <1>2, <3>1, <3>2, CarriesAppend
    <3>4. out' = Append(out, event)
      BY <1>4 DEF event
    <3>5. Starts(received.transcript, Reported)
      BY <2>4 DEF InFlight
    <3> QED
      BY <1>1, <1>2, <1>4, <3>1, <3>2, <3>3, <3>4, <3>5 DEF InFlight
  <2> QED
    BY <1>1, <2>3, <2>4 DEF WholeInv, Answered
<1> QED
  BY <1>3, <1>4 DEF TrySend, WaitSend, SendHeld

\* The terminal event that is made up says that the run failed.
LEMMA WholeClosed ==
  ASSUME PipeInv, WholeInv, StreamClosed
  PROVE  WholeInv'
<1>1. /\ UNCHANGED <<stream, pc, messages, calls, out, received>> /\ held = <<>>
      /\ TypeOK
  BY DEF StreamClosed, vars, agentVars, PipeInv, OneTerminal, RuntimeTypeOK, HeldEndsRun
<1>2. UNCHANGED Reported /\ Reported \in Seq(MessageType)
  BY <1>1, ReportedTyped DEF Reported
<1>3. CASE held' = held
  <2>1. InFlight => InFlight'
    BY <1>1, <1>2, <1>3, FlightKept
  <2> QED
    BY <1>1, <1>3, <2>1 DEF WholeInv, Succeeded, Answered
<1>4. CASE held' # held
  <2>1. PICK kind \in {"RunCanceled", "RunFailed"} : held' = <<Plain(kind)>>
    BY <1>4 DEF StreamClosed
  <2> DEFINE x == Plain(kind)
  <2>2. ~IsMessage(x) /\ x.kind # "RunCompleted"
    BY DEF Plain, Event, IsMessage
  <2>3. held' = Append(<<>>, x) /\ \A i \in 1..Len(held') : held'[i] = x
    BY <2>1
  <2> HIDE DEF x
  <2>4. Succeeded' => Succeeded
    BY <1>1, <2>2, <2>3 DEF Succeeded
  <2>5. ASSUME InFlight PROVE InFlight'
    <3>1. PICK a \in 0..Len(Reported), b \in 0..Len(Reported) :
            /\ Carries(out, Len(received.transcript), a, Reported)
            /\ Carries(held, a, b, Reported)
            /\ Carries(stream, b, Len(Reported), Reported)
      BY <2>5 DEF InFlight
    <3>2. Carries(Append(<<>>, x), a, b, Reported)
      <4>1. <<>> \in Seq(OutEvent)
        OBVIOUS
      <4>2. Carries(<<>>, a, b, Reported)
        BY <1>1, <3>1
      <4> QED
        BY <1>2, <2>2, <4>1, <4>2, CarriesAppend
    <3>3. Starts(received.transcript, Reported)
      BY <2>5 DEF InFlight
    <3> QED
      BY <1>1, <1>2, <2>3, <3>1, <3>2, <3>3 DEF InFlight
  <2> QED
    BY <1>1, <2>4, <2>5 DEF WholeInv, Answered
<1> QED
  BY <1>3, <1>4

\* The caller makes of the oldest event the next message that was reported.
LEMMA WholeReceive ==
  ASSUME PipeInv, WholeInv, Receive
  PROVE  WholeInv'
<1> DEFINE event == Head(out)
           t == received.transcript
<1>1. /\ out # <<>> /\ out' = Tail(out)
      /\ UNCHANGED <<stream, pc, messages, calls, held>>
      /\ out \in Seq(OutEvent) /\ TypeOK /\ t \in Seq(MessageType)
      /\ received \in [transcript : Seq(MessageType), last : TerminalKinds \cup {"none"}]
  BY DEF Receive, vars, agentVars, PipeInv, OneTerminal, RuntimeTypeOK
<1>2. UNCHANGED Reported /\ Reported \in Seq(MessageType)
  BY <1>1, ReportedTyped DEF Reported
<1>3. /\ event = out[1] /\ 1 \in 1..Len(out)
      /\ \A i \in 1..Len(Tail(out)) : i + 1 \in 1..Len(out) /\ Tail(out)[i] = out[i + 1]
  BY <1>1, HeadFacts
<1>4. /\ received'.transcript = IF IsMessage(event) THEN Append(t, MessageOf(event)) ELSE t
      /\ received'.last = IF IsTerminal(event) THEN event.kind ELSE received.last
  <2>1. CASE event.kind = "MessageEnd"
    <3>1. received' = [received EXCEPT !.transcript = Append(@, Assistant(event.n))]
      BY <2>1 DEF Receive, IsTerminal, TerminalKinds
    <3> QED
      BY <1>1, <2>1, <3>1 DEF IsMessage, MessageOf, IsTerminal, TerminalKinds
  <2>2. CASE event.kind = "ToolEnd"
    <3>1. received' = [received EXCEPT !.transcript = Append(@, ToolResult(event.n, event.info))]
      BY <2>2 DEF Receive, IsTerminal, TerminalKinds
    <3> QED
      BY <1>1, <2>2, <3>1 DEF IsMessage, MessageOf, IsTerminal, TerminalKinds
  <2>3. CASE ~IsMessage(event) /\ IsTerminal(event)
    <3>1. received' = [received EXCEPT !.last = event.kind]
      BY <2>3 DEF Receive, IsMessage
    <3> QED
      BY <1>1, <2>3, <3>1
  <2>4. CASE ~IsMessage(event) /\ ~IsTerminal(event)
    <3>1. received' = received
      BY <2>4 DEF Receive, IsMessage
    <3> QED
      BY <2>4, <3>1
  <2> QED
    BY <2>1, <2>2, <2>3, <2>4 DEF IsMessage
<1> HIDE DEF event, t
<1>5. Succeeded' => Succeeded
  <2>1. received'.last = "RunCompleted" => Succeeded
    BY <1>3, <1>4 DEF Succeeded
  <2>2. ASSUME NEW i \in 1..Len(out'), out'[i].kind = "RunCompleted"
        PROVE  Succeeded
    BY <1>1, <1>3, <2>2 DEF Succeeded
  <2> QED
    BY <1>1, <2>1, <2>2 DEF Succeeded
<1>6. ASSUME InFlight PROVE InFlight'
  <2>1. PICK a \in 0..Len(Reported), b \in 0..Len(Reported) :
          /\ Carries(out, Len(t), a, Reported)
          /\ Carries(held, a, b, Reported)
          /\ Carries(stream, b, Len(Reported), Reported)
    BY <1>6 DEF InFlight, t
  <2>2. PICK c \in 0..Len(Reported) :
          /\ Carries(Tail(out), c, a, Reported)
          /\ IF IsMessage(event) THEN c = Len(t) + 1 /\ Reported[c] = MessageOf(event) ELSE c = Len(t)
    BY <1>1, <1>2, <2>1, CarriesTail DEF event
  <2>3. Starts(t, Reported)
    BY <1>6 DEF InFlight, t
  <2>4. Len(received'.transcript) = c /\ Starts(received'.transcript, Reported)
    <3>1. CASE IsMessage(event)
      <4>1. received'.transcript = Append(t, MessageOf(event))
        BY <1>4, <3>1
      <4>2. /\ Len(Append(t, MessageOf(event))) = Len(t) + 1 /\ Len(t) \in Nat
            /\ Append(t, MessageOf(event))[Len(t) + 1] = MessageOf(event)
            /\ \A i \in 1..Len(t) : Append(t, MessageOf(event))[i] = t[i]
        BY <1>1
      <4>3. \A i \in 1..(Len(t) + 1) : i \in 1..Len(t) \/ i = Len(t) + 1
        BY <4>2
      <4>4. c = Len(t) + 1 /\ Reported[c] = MessageOf(event) /\ c <= Len(Reported)
        BY <1>2, <2>2, <3>1
      <4> QED
        BY <2>3, <4>1, <4>2, <4>3, <4>4 DEF Starts
    <3>2. CASE ~IsMessage(event)
      BY <1>4, <2>2, <2>3, <3>2
    <3> QED
      BY <3>1, <3>2
  <2> QED
    BY <1>1, <1>2, <2>1, <2>2, <2>4 DEF InFlight
<1> QED
  BY <1>1, <1>5, <1>6 DEF WholeInv, Answered

\* At first the caller has the transcript of the request.
LEMMA WholeInit == RuntimeInit => WholeInv
<1> SUFFICES ASSUME RuntimeInit PROVE WholeInv
  OBVIOUS
<1>1. /\ Init /\ out = <<>> /\ held = <<>>
      /\ received = [transcript |-> <<User>>, last |-> "none"]
  BY DEF RuntimeInit
<1>2. TypeOK /\ stream = <<>> /\ pc = "start" /\ messages = <<User>>
  BY <1>1, InitType DEF Init
<1>3. /\ Reported = <<User>> /\ received.transcript = <<User>> /\ received.last = "none"
      /\ Reported \in Seq(MessageType) /\ Len(Reported) = 1
  BY <1>1, <1>2, ReportedTyped DEF Reported
<1>4. Carries(<<>>, 1, 1, Reported)
  <2>1. 1 \in 0..Len(Reported)
    BY <1>3
  <2> HIDE <1>3
  <2>2. Reported \in Seq(MessageType)
    BY <1>3
  <2> QED
    BY <2>1, <2>2, CarriesNothing
<1>5. Starts(<<User>>, <<User>>)
  BY DEF Starts
<1>6. InFlight
  BY <1>1, <1>2, <1>3, <1>4, <1>5 DEF InFlight
<1>7. ~Succeeded
  BY <1>1, <1>2, <1>3 DEF Succeeded
<1> QED
  BY <1>2, <1>6, <1>7 DEF WholeInv

\* A caller told that the run completed holds exactly the transcript the run
\* worked on, whatever the capacities of the two channels, whenever it reads
\* and however the extractor answers: nothing was lost or reordered between
\* loop.go and the caller of Runtime.Run (runtime.go, L92-190), every call is
\* answered, and the last message is the model's answer.
THEOREM CompletedMeansWhole == RuntimeSpec => []CompletedIsWhole
<1>1. RuntimeInit => BatchInv /\ WholeInv
  BY InitBatch, WholeInit DEF RuntimeInit
<1>2. ASSUME PipeInv, BatchInv, WholeInv, [RuntimeNext]_pipeVars
      PROVE  BatchInv' /\ WholeInv'
  <2>1. TypeOK
    BY <1>2 DEF PipeInv, OneTerminal, RuntimeTypeOK
  <2>2. [Next]_vars
    <3>1. Forward => Read
      BY DEF Forward, Read
    <3>2. Extract \/ TrySend \/ WaitSend \/ StreamClosed \/ Receive => UNCHANGED vars
      BY DEF Extract, TrySend, WaitSend, StreamClosed, Receive
    <3> QED
      BY <1>2, <3>1, <3>2 DEF RuntimeNext, RuntimeStep, AgentOrCancel, Next, pipeVars
  <2>3. BatchInv'
    BY <1>2, <2>1, <2>2, BatchInvStep
  <2>4. WholeInv'
    <3>1. CASE UNCHANGED pipeVars
      <4>1. UNCHANGED <<out, held, stream, received, pc, messages, calls>>
        BY <3>1 DEF pipeVars, vars, agentVars, runtimeVars
      <4>2. UNCHANGED Reported
        BY <4>1 DEF Reported
      <4>3. InFlight => InFlight'
        BY <4>1, <4>2, FlightKept
      <4> QED
        BY <1>2, <4>1, <4>3 DEF WholeInv, Succeeded, Answered
    <3>2. CASE AgentOrCancel
      BY <1>2, <3>2, WholeAgent DEF AgentOrCancel, runtimeVars
    <3>3. CASE RuntimeStep \/ Receive
      BY <1>2, <3>3, WholeForward, WholeExtract, WholeEmit, WholeClosed, WholeReceive
      DEF RuntimeStep
    <3> QED
      BY <1>2, <3>1, <3>2, <3>3 DEF RuntimeNext
  <2> QED
    BY <2>3, <2>4
<1>3. ASSUME PipeInv, WholeInv
      PROVE  CompletedIsWhole
  <2> SUFFICES ASSUME received.last = "RunCompleted"
               PROVE  received.transcript = messages /\ Answered
    BY DEF CompletedIsWhole, Answered
  <2>1. /\ out = <<>> /\ held = <<>> /\ stream = <<>> /\ pc = "closed"
        /\ messages \in Seq(MessageType) /\ received.transcript \in Seq(MessageType)
    BY <1>3 DEF PipeInv, OneTerminal, RuntimeTypeOK, TypeOK
  <2>2. InFlight /\ Answered /\ Reported = messages
    BY <1>3, <2>1 DEF WholeInv, Succeeded, Reported
  <2>3. Len(received.transcript) = Len(messages)
    BY <2>1, <2>2, CarriesNothingOnly DEF InFlight
  <2>4. \A i \in 1..Len(messages) : received.transcript[i] = messages[i]
    BY <2>2, <2>3 DEF InFlight, Starts
  <2>5. received.transcript = messages
    BY <2>1, <2>3, <2>4
  <2> QED
    BY <2>2, <2>5
<1> QED
  BY PipeInvariant, <1>1, <1>2, <1>3, PTL DEF RuntimeSpec

=============================================================================
