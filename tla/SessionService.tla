--------------------------- MODULE SessionService ----------------------------
(***************************************************************************)
(* Requests of the application service (internal/application/service/      *)
(* session.go) that run prompts on one session: Run waits for the result,  *)
(* Stream forwards events to a client that may go away.  Each request      *)
(* takes the session's run lock, opens the session file with a Session of  *)
(* its own, prompts it, records the use in the metadata store, and gives   *)
(* the lock back.  The Session's goroutine (session.go, runPrompt) runs    *)
(* beside the request and outlives it when the request gives up early.     *)
(*                                                                         *)
(* A turn is the user's message and the answer; SessionTurn models what    *)
(* happens inside it.                                                      *)
(***************************************************************************)
EXTENDS TranscriptFile

CONSTANTS
  Request,     \* the requests for this session
  Streams,     \* those made with Stream; the others use Run
  TurnOf(_),   \* the turn number of a request, different for each
  File0,       \* the session file found at the start
  Free         \* the lock holds its token

\* A transcript of turns that are each a user's message and its answer.
TurnsAreWhole(view) ==
  LET starts == {i \in 1..Len(view) : view[i].role = "user"}
  IN /\ view # <<>> => 1 \in starts
     /\ \A i \in starts :
          i + 1 <= Len(view) /\ view[i + 1] = Message(view[i].turn, "answer")

\* The file has committed a turn and no write to it was cut off; its lines and
\* those of the requests can be read back.  SessionTurn has the other files.
ASSUME ServiceAssumption ==
  /\ Streams \subseteq Request
  /\ Free \notin Request
  /\ \A r, q \in Request : TurnOf(r) = TurnOf(q) => r = q
  /\ \A r \in Request : TurnOf(r) \in Nat
  /\ {"user", "answer"} \cap OversizedRoles = {}
  /\ Sound(File0) /\ HasLeaf(File0) /\ TurnsAreWhole(LeafView(File0))

VARIABLES
  file,      \* the lines of the session file
  lock,      \* Free, or the request that took the token
  handler,   \* where each request is
  prompt,    \* where the Session goroutine of each request is
  opened,    \* what each request loaded: messages, parent
  cursor,    \* the append of each request: lines written, last entry
  verdict,   \* the terminal event in each Session's channel
  ctx,       \* the context of each request
  reply,     \* what each client is told in the end
  touched    \* requests whose use is recorded in the metadata store

vars == <<file, lock, handler, prompt, opened, cursor, verdict, ctx, reply, touched>>

Turn(r) == <<Message(TurnOf(r), "user"), Message(TurnOf(r), "answer")>>

Init ==
  /\ file = File0
  /\ lock = Free
  /\ handler = [r \in Request |-> "start"]
  /\ prompt = [r \in Request |-> "none"]
  /\ opened = [r \in Request |-> [messages |-> <<>>, parent |-> 0]]
  /\ cursor = [r \in Request |-> [next |-> 1, last |-> 0]]
  /\ verdict = [r \in Request |-> "none"]
  /\ ctx = [r \in Request |-> "live"]
  /\ reply = [r \in Request |-> "none"]
  /\ touched = {}

At(r, from) == handler[r] = from
Move(r, from, to) == At(r, from) /\ handler' = [handler EXCEPT ![r] = to]
Answer(r, what) == reply' = [reply EXCEPT ![r] = what]

-----------------------------------------------------------------------------
(* The request *)

\* The client goes away, or its deadline passes.
Disconnect(r) ==
  /\ ctx[r] = "live"
  /\ handler[r] # "done"
  /\ ctx' = [ctx EXCEPT ![r] = "done"]
  /\ UNCHANGED <<file, lock, handler, prompt, opened, cursor, verdict, reply, touched>>

\* The first Resolve, without the lock.  The metadata store refuses a context
\* that is done (manager.go L169, L215, L243).
Resolve(r) ==
  /\ \/ ctx[r] = "live" /\ Move(r, "start", "waiting") /\ UNCHANGED reply
     \/ Move(r, "start", "done") /\ Answer(r, "error")
  /\ UNCHANGED <<file, lock, prompt, opened, cursor, verdict, ctx, touched>>

\* Mutant of Available: every request gets a lock of its own.
AvailableAlways == TRUE

Available == lock = Free

\* lockSessionRun: a select between the token and ctx.
Acquire(r) ==
  /\ Available
  /\ lock' = r
  /\ Move(r, "waiting", "locked")
  /\ UNCHANGED <<file, prompt, opened, cursor, verdict, ctx, reply, touched>>

GiveUpLock(r) ==
  /\ ctx[r] = "done"
  /\ Move(r, "waiting", "done")
  /\ Answer(r, "error")
  /\ UNCHANGED <<file, lock, prompt, opened, cursor, verdict, ctx, touched>>

\* The second Resolve, the run configuration, the Runtime and the session
\* file; any of them may fail.
Open(r) ==
  LET loaded == Load(file)
  IN /\ \/ /\ ctx[r] = "live"
           /\ loaded.ok
           /\ Move(r, "locked", "opened")
           /\ opened' = [opened EXCEPT ![r] =
                [messages |-> loaded.messages, parent |-> loaded.parent]]
           /\ UNCHANGED <<lock, reply>>
        \/ /\ Move(r, "locked", "done")
           /\ lock' = Free
           /\ Answer(r, "error")
           /\ UNCHANGED opened
     /\ UNCHANGED <<file, prompt, cursor, verdict, ctx, touched>>

\* Prompt with a done context returns a closed stream with an ErrorEvent,
\* which neither collectRunResult nor forwardStreamEvents looks at.
Start(r) ==
  /\ \/ /\ ctx[r] = "live"
        /\ Move(r, "opened", "forwarding")
        /\ prompt' = [prompt EXCEPT ![r] = "running"]
     \/ /\ ctx[r] = "done"
        /\ Move(r, "opened", IF r \in Streams THEN "leaving" ELSE "completed")
        /\ UNCHANGED prompt
  /\ UNCHANGED <<file, lock, opened, cursor, verdict, ctx, reply, touched>>

\* forwardStreamEvents: sendStreamEvent loses to ctx, and the request ends
\* whatever the Session is doing.
Abandon(r) ==
  /\ r \in Streams
  /\ ctx[r] = "done"
  /\ Move(r, "forwarding", "leaving")
  /\ UNCHANGED <<file, lock, prompt, opened, cursor, verdict, ctx, reply, touched>>

\* Mutant of TakeVerdict: a failed run passes for a completed one.
TakeVerdictAny(r) ==
  /\ verdict[r] # "none"
  /\ Move(r, "forwarding", "completed")
  /\ UNCHANGED <<file, lock, prompt, opened, cursor, verdict, ctx, reply, touched>>

\* The terminal event arrives.
TakeVerdict(r) ==
  /\ \/ /\ verdict[r] = "completed"
        /\ Move(r, "forwarding", "completed")
        /\ UNCHANGED reply
     \/ /\ verdict[r] = "failed"
        /\ Move(r, "forwarding", "leaving")
        /\ Answer(r, "error")
  /\ UNCHANGED <<file, lock, prompt, opened, cursor, verdict, ctx, touched>>

\* persistRunSuccess, which the store refuses under a done context, then the
\* last word to the client; a streaming client that goes away may miss it.
PersistSuccess(r) ==
  /\ Move(r, "completed", "leaving")
  /\ \/ /\ ctx[r] = "live"
        /\ touched' = touched \cup {r}
        /\ Answer(r, "done") \/ (r \in Streams /\ UNCHANGED reply)
     \/ UNCHANGED touched /\ Answer(r, "error")
  /\ UNCHANGED <<file, lock, prompt, opened, cursor, verdict, ctx>>

\* Mutant of Unlock: the token is lost.
UnlockForgets(r) ==
  /\ Move(r, "leaving", "done")
  /\ UNCHANGED <<file, lock, prompt, opened, cursor, verdict, ctx, reply, touched>>

\* The deferred unlock puts the token back.
Unlock(r) ==
  /\ Move(r, "leaving", "done")
  /\ lock' = Free
  /\ UNCHANGED <<file, prompt, opened, cursor, verdict, ctx, reply, touched>>

-----------------------------------------------------------------------------
(* The Session's goroutine *)

\* The run completes and its append begins.  A run whose context has ended
\* may still complete: its last events may be on their way already.
RunCompletes(r) ==
  /\ prompt[r] = "running"
  /\ prompt' = [prompt EXCEPT ![r] = "append"]
  /\ cursor' = [cursor EXCEPT ![r] = [next |-> 1, last |-> opened[r].parent]]
  /\ UNCHANGED <<file, lock, handler, opened, verdict, ctx, reply, touched>>

\* The run fails or is canceled.
RunEnds(r) ==
  /\ prompt[r] = "running"
  /\ prompt' = [prompt EXCEPT ![r] = "ended"]
  /\ verdict' = [verdict EXCEPT ![r] = "failed"]
  /\ UNCHANGED <<file, lock, handler, opened, cursor, ctx, reply, touched>>

\* Mutant of Link: a line is linked to the line before it in the file.
LinkToLastLine(r) == Len(file)

\* The entry the next line of a request is linked to.
Link(r) == cursor[r].last

\* The entry of the line just appended.
Entry(f) == Len(f)

\* appendRun: the messages and then the leaf, each with one write.
AppendLine(r) ==
  LET c == cursor[r]
  IN /\ prompt[r] = "append"
     /\ IF c.next <= Len(Turn(r))
          THEN /\ file' = Written(file, MessageLine(Link(r), Turn(r)[c.next]))
               /\ cursor' = [cursor EXCEPT ![r] = [next |-> c.next + 1, last |-> Entry(file')]]
               /\ UNCHANGED <<prompt, verdict>>
          ELSE /\ file' = Written(file, LeafLine(Link(r), 0))
               /\ prompt' = [prompt EXCEPT ![r] = "ended"]
               /\ verdict' = [verdict EXCEPT ![r] = "completed"]
               /\ UNCHANGED cursor
     /\ UNCHANGED <<lock, handler, opened, ctx, reply, touched>>

\* A write fails: the lines before it stay, without a leaf.
AppendFails(r) ==
  /\ prompt[r] = "append"
  /\ prompt' = [prompt EXCEPT ![r] = "ended"]
  /\ verdict' = [verdict EXCEPT ![r] = "failed"]
  /\ UNCHANGED <<file, lock, handler, opened, cursor, ctx, reply, touched>>

-----------------------------------------------------------------------------
(* Behaviours *)

HandlerStep(r) ==
  \/ Resolve(r) \/ GiveUpLock(r) \/ Open(r) \/ Start(r)
  \/ Abandon(r) \/ TakeVerdict(r) \/ PersistSuccess(r) \/ Unlock(r)

PromptStep(r) == RunCompletes(r) \/ RunEnds(r) \/ AppendLine(r) \/ AppendFails(r)

Next ==
  \E r \in Request : HandlerStep(r) \/ Acquire(r) \/ PromptStep(r) \/ Disconnect(r)

Spec == Init /\ [][Next]_vars

\* Every goroutine runs and every run ends.  A channel hands its token to the
\* receiver that has waited longest, so a waiting request is not passed over
\* forever.
FairSpec ==
  /\ Spec
  /\ \A r \in Request :
       /\ WF_vars(HandlerStep(r))
       /\ WF_vars(PromptStep(r))
       /\ SF_vars(Acquire(r))

-----------------------------------------------------------------------------
(* Properties *)

\* The type of every variable.
TypeOK ==
  /\ Load(file).ok
  /\ lock \in Request \cup {Free}
  /\ handler \in [Request -> {"start", "waiting", "locked", "opened", "forwarding",
                              "completed", "leaving", "done"}]
  /\ prompt \in [Request -> {"none", "running", "append", "ended"}]
  /\ \A r \in Request : cursor[r].next \in 1..3 /\ cursor[r].last \in 0..Len(file)
  /\ verdict \in [Request -> {"none", "completed", "failed"}]
  /\ ctx \in [Request -> {"live", "done"}]
  /\ reply \in [Request -> {"none", "done", "error"}]
  /\ touched \subseteq Request

\* The lines a request appends never break the file, even where requests
\* overlap: it always loads, to a sequence of whole turns (storage.go writes
\* each line with one O_APPEND write and links it by parent_id).  The types
\* of the variables are part of it.
LoadsWholeTurns ==
  /\ TypeOK
  /\ Load(file).ok
  /\ TurnsAreWhole(LeafView(file))

\* While a request holds the lock, the Session of another is in the middle of
\* a turn only if that is a stream whose client went away (Run, L432-436).
LockCoversTurn ==
  \A r, q \in Request :
    lock = r /\ prompt[q] \in {"running", "append"} =>
      q = r \/ (q \in Streams /\ ctx[q] = "done")

\* No streaming client has gone away.
Undisturbed == \A r \in Streams : ctx[r] = "live"

\* Then no step of any request takes a committed turn out of the transcript:
\* each leaf extends the view of the leaf before it.
ViewOnlyGrows ==
  [][Undisturbed' => SubSeq(LeafView(file'), 1, Len(LeafView(file))) = LeafView(file)]_vars

\* And a client that is told "done" finds its turn in the transcript, now and
\* at any later time, and the use of the session recorded (Run L453-460).
DoneIsKept ==
  \A r \in Request :
    reply[r] = "done" /\ Undisturbed =>
      /\ r \in touched
      /\ \E i \in 1..Len(LeafView(file)) : LeafView(file)[i] = Message(TurnOf(r), "answer")

\* Every request ends, and the lock is free afterwards.
EveryRequestEnds == <>[](lock = Free /\ \A r \in Request : handler[r] = "done")

\* The comment on sessionRunLocks (session.go L42): the turns of Run and
\* Stream, which advance the transcript leaf, are serialised by session ID.
LeafAdvancesSerially ==
  \A r, q \in Request :
    prompt[r] \in {"running", "append"} /\ prompt[q] \in {"running", "append"} => r = q

=============================================================================
