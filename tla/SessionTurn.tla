----------------------------- MODULE SessionTurn -----------------------------
(***************************************************************************)
(* A file-backed Session (internal/session/session.go): prompts, the       *)
(* goroutine runPrompt that turns the events of one run into transcript,   *)
(* the append of a completed run to the session file (storage.go), and     *)
(* crashes of the process followed by a reopening of the file.             *)
(*                                                                         *)
(* The Runtime is the environment.  What it may send is what RuntimeRun    *)
(* shows of it: a run completes only after an answer, and it may fail, be  *)
(* canceled or, once the context is done, end without a terminal event.    *)
(***************************************************************************)
EXTENDS TranscriptFile

CONSTANTS
  File0,       \* the session file found at the start
  MaxTurns,    \* bound: turns prompted, over all restarts
  MaxLen,      \* bound: messages of one turn
  MaxCrashes,  \* bound: crashes of the process
  CanFail,     \* whether a write may return an error
  CanTear,     \* whether a failed or interrupted write may leave a part
  OutCap       \* capacity of the channel returned by Prompt (64 in the code)

ASSUME SessionAssumption ==
  /\ MaxTurns \in Nat
  /\ MaxLen \in Nat \ {0}
  /\ MaxCrashes \in Nat
  /\ CanFail \in BOOLEAN
  /\ CanTear \in BOOLEAN
  /\ OutCap \in Nat \ {0}
  /\ Load(File0).ok

VARIABLES
  file,       \* the lines of the session file
  up,         \* whether a process has the session open
  session,    \* the Session object: messages, covered, summary, memory, active
  store,      \* its fileStore: parent, summary
  turn,       \* the turns prompted so far
  run,        \* the locals of runPrompt
  ctx,        \* the context of the current turn
  out,        \* buffered events of the channel returned by Prompt
  told,       \* turns whose completion was sent to the caller
  crashes     \* crashes so far

disk == <<file>>
memory == <<session, store>>
control == <<turn, run, ctx, out, told>>
vars == <<disk, up, memory, control, crashes>>

-----------------------------------------------------------------------------
(* Opening *)

\* covered is summarizedMessages; active says that cancel is not nil; memory
\* is the turn of the memory candidates, 0 for none.
Opened(loaded) ==
  [messages |-> loaded.messages, covered |-> loaded.covers,
   summary |-> loaded.summary # 0, memory |-> 0, active |-> FALSE]

\* What is in memory while no process has the session open.
Nothing == [ok |-> TRUE, messages |-> <<>>, parent |-> 0, summary |-> 0, covers |-> 0]

StoreAt(loaded) == [parent |-> loaded.parent, summary |-> loaded.summary]

\* at is the program point; base the length of the transcript before the turn;
\* pending and candidates what the run has proposed; next and last the loop of
\* appendRun; verdict the terminal event to send; completed as in the code.
NoRun ==
  [at |-> "idle", base |-> 0, pending |-> FALSE, candidates |-> FALSE,
   next |-> 0, last |-> 0, entry |-> 0, verdict |-> "none", completed |-> FALSE]

Init ==
  /\ file = File0
  /\ up = TRUE
  /\ session = Opened(Load(File0))
  /\ store = StoreAt(Load(File0))
  /\ turn = 0
  /\ run = NoRun
  /\ ctx = "live"
  /\ out = <<>>
  /\ told = {}
  /\ crashes = 0

\* A new process opens the session; a file that cannot be loaded stays shut.
Reopen ==
  /\ ~up
  /\ Load(file).ok
  /\ up' = TRUE
  /\ session' = Opened(Load(file))
  /\ store' = StoreAt(Load(file))
  /\ UNCHANGED <<file, control, crashes>>

-----------------------------------------------------------------------------
(* The caller *)

\* Prompt while a turn is active is refused and changes nothing.
Prompt ==
  /\ up
  /\ ~session.active
  /\ turn < MaxTurns
  /\ turn' = turn + 1
  /\ session' = [session EXCEPT !.active = TRUE,
                                !.messages = Append(@, Message(turn + 1, "user"))]
  /\ run' = [NoRun EXCEPT !.at = "running", !.base = Len(session.messages)]
  /\ ctx' = "live"
  /\ out' = <<>>
  /\ UNCHANGED <<file, up, store, told, crashes>>

\* Cancel, or the end of the context given to Prompt.
Cancel ==
  /\ up
  /\ session.active
  /\ ctx = "live"
  /\ ctx' = "done"
  /\ UNCHANGED <<file, up, memory, turn, run, out, told, crashes>>

Receive ==
  /\ up
  /\ out # <<>>
  /\ out' = Tail(out)
  /\ UNCHANGED <<file, up, memory, turn, run, ctx, told, crashes>>

-----------------------------------------------------------------------------
(* The Runtime's events, as runPrompt handles them *)

Snapshot == SubSeq(session.messages, session.covered + 1, run.base + 1)
TurnMessages == SubSeq(session.messages, run.base + 1, Len(session.messages))
LastRole == session.messages[Len(session.messages)].role

\* The roles that may come next in a turn.
NextRoles ==
  CASE LastRole \in {"user", "result"} -> {"call", "answer"}
    [] LastRole = "call" -> {"result"}
    [] OTHER -> {}

Running == up /\ run.at = "running"

\* MessageEnd or ToolExecutionEnd: the message joins the transcript before the
\* event is passed on.  The Agent rejects a snapshot it cannot send.
RuntimeMessage ==
  /\ Running
  /\ Acceptable(Snapshot)
  /\ Len(TurnMessages) < MaxLen
  /\ \E role \in NextRoles :
       session' = [session EXCEPT !.messages = Append(@, Message(turn, role))]
  /\ run' = [run EXCEPT !.at = "emit"]
  /\ UNCHANGED <<file, up, store, turn, ctx, out, told, crashes>>

\* Deltas and the other events that are only passed on.
RuntimeOther ==
  /\ Running
  /\ run' = [run EXCEPT !.at = "emit"]
  /\ UNCHANGED <<file, up, memory, turn, ctx, out, told, crashes>>

\* A summary of all messages before the current user message (context.go
\* L281); there must be some, or an older summary.
RuntimeSummary ==
  /\ Running
  /\ ~run.pending
  /\ Acceptable(Snapshot)
  /\ Len(Snapshot) > 1 \/ session.summary
  /\ LastRole \in {"user", "result"}
  /\ run' = [run EXCEPT !.pending = TRUE]
  /\ UNCHANGED <<file, up, memory, turn, ctx, out, told, crashes>>

\* Mutant of RuntimeMemory: the candidates are offered before the commit.
RuntimeMemoryAtOnce ==
  /\ Running
  /\ ~run.candidates
  /\ LastRole = "answer"
  /\ run' = [run EXCEPT !.candidates = TRUE]
  /\ session' = [session EXCEPT !.memory = turn]
  /\ UNCHANGED <<file, up, store, turn, ctx, out, told, crashes>>

\* Memory candidates come after the answer.
RuntimeMemory ==
  /\ Running
  /\ ~run.candidates
  /\ LastRole = "answer"
  /\ Acceptable(Snapshot)
  /\ run' = [run EXCEPT !.candidates = TRUE]
  /\ UNCHANGED <<file, up, memory, turn, ctx, out, told, crashes>>

\* Mutant of Discarded: the user's message stays.
DiscardedOffByOne == [session EXCEPT !.messages = SubSeq(@, 1, run.base + 1)]

\* The session without the messages of the current turn (discardMessagesFrom).
Discarded == [session EXCEPT !.messages = SubSeq(@, 1, run.base)]

\* Mutant of Replaced: the current user message is counted too.
ReplacedOffByOne == Len(Snapshot)

\* How many messages of the snapshot the pending summary replaces, and the
\* length of the prefix of the transcript that is then summarized.
Replaced == Len(Snapshot) - 1

TotalCovered == session.covered + (IF run.pending THEN Replaced ELSE 0)

\* A completed run with a count out of range fails instead.
RuntimeCompleted ==
  /\ Running
  /\ LastRole = "answer"
  /\ Acceptable(Snapshot)
  /\ IF run.pending /\ Replaced \notin 0..Len(Snapshot)
       THEN /\ session' = Discarded
            /\ run' = [run EXCEPT !.at = "terminal", !.verdict = "failed"]
       ELSE /\ UNCHANGED session
            /\ run' = [run EXCEPT !.at = "append", !.next = run.base + 1,
                                  !.last = store.parent, !.entry = store.summary]
  /\ UNCHANGED <<file, up, store, turn, ctx, out, told, crashes>>

\* RunFailed, RunCanceled, or a channel closed without a terminal event.
RuntimeEnds ==
  /\ Running
  /\ \/ run' = [run EXCEPT !.at = "terminal", !.verdict = "failed"]
     \/ ctx = "done" /\ run' = [run EXCEPT !.at = "terminal", !.verdict = "canceled"]
  /\ UNCHANGED <<file, up, memory, turn, ctx, out, told, crashes>>

OutHasRoom == Len(out) < OutCap

\* emitSessionEvent: not sent once ctx is done, and waiting stops with ctx.
EmitEvent ==
  /\ up
  /\ run.at = "emit"
  /\ \/ OutHasRoom /\ ctx = "live" /\ out' = Append(out, "event")
     \/ ctx = "done" /\ UNCHANGED out
  /\ run' = [run EXCEPT !.at = "running"]
  /\ UNCHANGED <<file, up, memory, turn, ctx, told, crashes>>

-----------------------------------------------------------------------------
(* appendRun: one write per line, the leaf last *)

\* Mutant of NextLine: the last message of the turn is left out.
NextLineSkipsLast ==
  IF run.next < Len(session.messages)
    THEN MessageLine(run.last, session.messages[run.next])
    ELSE LeafLine(run.last, run.entry)

\* The line the next write of appendRun is for.
NextLine ==
  IF run.next <= Len(session.messages)
    THEN MessageLine(run.last, session.messages[run.next])
  ELSE IF run.pending /\ run.next = Len(session.messages) + 1
    THEN SummaryLine(run.last, TotalCovered)
  ELSE LeafLine(run.last, run.entry)

Appending == up /\ run.at = "append"

\* The position the line that was just written has in the file.
NewEntry == Len(file')

WriteLine ==
  /\ Appending
  /\ file' = Written(file, NextLine)
  /\ CASE NextLine.kind = "message" ->
            /\ run' = [run EXCEPT !.next = @ + 1, !.last = NewEntry]
            /\ UNCHANGED store
       [] NextLine.kind = "summary" ->
            /\ run' = [run EXCEPT !.next = @ + 1, !.entry = NewEntry]
            /\ UNCHANGED store
       [] OTHER ->
            /\ run' = [run EXCEPT !.at = "commit"]
            /\ store' = [parent |-> run.last, summary |-> run.entry]
  /\ UNCHANGED <<up, session, turn, ctx, out, told, crashes>>

\* What an interrupted write may leave of the line.
Remains == IF CanTear THEN PartlyWritten(file, NextLine) ELSE {file}

\* A write error ends appendRun; the store keeps its old position, and the
\* messages of the turn are discarded before the failure is reported.
WriteFails ==
  /\ Appending
  /\ CanFail
  /\ file' \in Remains
  /\ session' = Discarded
  /\ run' = [run EXCEPT !.at = "terminal", !.verdict = "failed"]
  /\ UNCHANGED <<up, store, turn, ctx, out, told, crashes>>

\* After persistRun: the accepted summary and candidates become current.
CommitTurn ==
  /\ up
  /\ run.at = "commit"
  /\ session' = [session EXCEPT !.memory = IF run.candidates THEN turn ELSE 0,
                                !.summary = @ \/ run.pending,
                                !.covered = TotalCovered]
  /\ run' = [run EXCEPT !.at = "terminal", !.verdict = "completed", !.completed = TRUE]
  /\ UNCHANGED <<file, up, store, turn, ctx, out, told, crashes>>

\* emitSessionTerminal waits for room, whatever becomes of ctx.
EmitTerminal ==
  /\ up
  /\ run.at = "terminal"
  /\ OutHasRoom
  /\ out' = Append(out, run.verdict)
  /\ told' = IF run.verdict = "completed" THEN told \cup {turn} ELSE told
  /\ run' = [run EXCEPT !.at = "discard"]
  /\ UNCHANGED <<file, up, memory, turn, ctx, crashes>>

\* The deferred cleanup takes the lock twice: to roll the turn back, and to
\* let the next prompt in.
Rollback ==
  /\ up
  /\ run.at = "discard"
  /\ session' = IF run.completed THEN session ELSE Discarded
  /\ ctx' = "done"
  /\ run' = [run EXCEPT !.at = "release"]
  /\ UNCHANGED <<file, up, store, turn, out, told, crashes>>

\* Mutant of Release: the session stays busy.
ReleaseForgets ==
  /\ up
  /\ run.at = "release"
  /\ run' = NoRun
  /\ UNCHANGED <<file, up, memory, turn, ctx, out, told, crashes>>

Release ==
  /\ up
  /\ run.at = "release"
  /\ session' = [session EXCEPT !.active = FALSE]
  /\ run' = NoRun
  /\ UNCHANGED <<file, up, store, turn, ctx, out, told, crashes>>

-----------------------------------------------------------------------------
(* Crashes *)

\* The process dies: its memory is gone, and a write in progress may have left
\* part of its line.
Crash ==
  /\ up
  /\ crashes < MaxCrashes
  /\ crashes' = crashes + 1
  /\ up' = FALSE
  /\ file' \in (IF Appending THEN Remains ELSE {file})
  /\ session' = Opened(Nothing)
  /\ store' = StoreAt(Nothing)
  /\ run' = NoRun
  /\ ctx' = "live"
  /\ out' = <<>>
  /\ UNCHANGED <<turn, told>>

-----------------------------------------------------------------------------
(* Behaviours *)

RuntimeEvent ==
  \/ RuntimeMessage \/ RuntimeOther \/ RuntimeSummary \/ RuntimeMemory
  \/ RuntimeCompleted \/ RuntimeEnds

TurnStep ==
  \/ EmitEvent \/ WriteLine \/ WriteFails \/ CommitTurn \/ EmitTerminal
  \/ Rollback \/ Release

Next ==
  Prompt \/ Cancel \/ Receive \/ RuntimeEvent \/ TurnStep \/ Crash \/ Reopen

Spec == Init /\ [][Next]_vars

\* The scheduler runs runPrompt and the caller drains its channel; a Runtime
\* whose context is done ends its stream (RuntimeRun, ForwardingEnds).
FairSpec ==
  /\ Spec
  /\ WF_vars(TurnStep)
  /\ WF_vars(Receive)
  /\ SF_vars(ctx = "done" /\ (RuntimeEnds \/ RuntimeCompleted))

-----------------------------------------------------------------------------
(* Properties *)

RunPoints == {"idle", "running", "emit", "append", "commit", "terminal", "discard", "release"}

\* The type of every variable.
TypeOK ==
  /\ file \in Seq(LineType)
  /\ up \in BOOLEAN
  /\ session \in [messages : Seq(MessageType), covered : Nat, summary : BOOLEAN,
                  memory : Nat, active : BOOLEAN]
  /\ store \in [parent : Nat, summary : Nat]
  /\ turn \in 0..MaxTurns
  /\ run \in [at : RunPoints, base : Nat, pending : BOOLEAN, candidates : BOOLEAN,
              next : Nat, last : Nat, entry : Nat,
              verdict : {"none", "completed", "failed", "canceled"},
              completed : BOOLEAN]
  /\ ctx \in {"live", "done"}
  /\ out \in Seq({"event", "completed", "failed", "canceled"})
  /\ Len(out) <= OutCap
  /\ told \in SUBSET Nat
  /\ crashes \in 0..MaxCrashes

\* The turns of a transcript that have their answer.
Answered(m) == {m[i].turn : i \in {j \in 1..Len(m) : m[j].role = "answer"}}

\* Whenever no turn is active, memory and disk agree: the transcript, the
\* summarized prefix and the position for the next append are those a new
\* process would load.  A turn that failed, was canceled or could not be
\* written has left nothing behind in either (runPrompt, L127-192).  The
\* types of the variables are part of it.
IdleMatchesDisk ==
  /\ TypeOK
  /\ up /\ ~session.active /\ HasLeaf(file) =>
       LET loaded == Load(file)
       IN /\ loaded.ok
          /\ session.messages = loaded.messages
          /\ session.covered = loaded.covers
          /\ store = StoreAt(loaded)

\* A prefix of a transcript ends between two turns.
EndsATurn(covers, m) ==
  /\ covers <= Len(m)
  /\ covers < Len(m) => m[covers + 1].role = "user"

\* The summarized prefix always ends between two turns, so that the next run
\* starts with a user message and no result is cut from its call.
SummaryEndsATurn == EndsATurn(session.covered, session.messages)

\* Memory candidates come from the last committed turn or from none: those of
\* a failed or canceled run are never offered (spec.md L52).
MemoryIsCommitted == session.memory \in {0} \cup Answered(LeafView(file))

\* The log the session file stands for: what its latest leaf commits.
Log == INSTANCE ConversationLog WITH
  Log0 <- LeafView(File0),
  IsTurn <- WholeTurn,
  TurnOf <- LAMBDA m : m.turn,
  log <- LeafView(file),
  told <- told

\* The session implements the log of whole turns: each of its steps, crashes
\* included, commits one turn at one instant, reports a committed turn, or
\* changes neither.  A turn reported as completed thus stays on disk, whole,
\* through every later failure, cancellation and crash.
ImplementsLog == Log!LogSpec

\* A canceled turn is over some time later, and the next prompt is accepted,
\* if the caller drains the channel of the turn.
CancelFreesSession == (session.active /\ ctx = "done") ~> ~session.active

\* The comment on the leaf entry (storage.go L24): a run that was not
\* completed does not become recoverable.
OnlyWholeTurnsRecovered ==
  up /\ ~session.active => Acceptable(session.messages)

\* The comment on appendRun (storage.go L297): the leaf commits the recovered
\* view atomically, so a committed view can be loaded.
CommittedIsLoadable == told # {} => Load(file).ok

-----------------------------------------------------------------------------
(* The sessions the proofs are about *)

\* The file found at the start has committed a turn, no write to it was cut
\* off, and its turns are not among those prompted later.
StartsSound ==
  /\ Sound(File0)
  /\ HasLeaf(File0)
  /\ EndsATurn(Load(File0).covers, LeafView(File0))
  /\ \A i \in 1..Len(LeafView(File0)) : LeafView(File0)[i].turn \notin 1..MaxTurns

\* Lines are written whole or not at all, and can be read back.
Undamaged == StartsSound /\ ~CanTear /\ OversizedRoles = {}
=============================================================================
