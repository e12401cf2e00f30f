-------------------------- MODULE SessionServiceProofs --------------------------
(***************************************************************************)
(* Requests on one session, for any number of them, any session file and   *)
(* any mix of Run and Stream.  The run lock covers the turns of every      *)
(* request but those of streams whose client went away.  Whoever goes      *)
(* away, the lines that the requests append leave a file that loads to     *)
(* whole turns; and if nobody does, no committed turn is ever lost.        *)
(***************************************************************************)
EXTENDS SessionService, TranscriptFileProofs

-----------------------------------------------------------------------------
(* The inductive invariant *)

Before == {"start", "waiting", "locked", "opened"}
Holding == {"locked", "opened", "forwarding", "completed", "leaving"}
Active == {"running", "append"}

\* The functions that the steps update.
Shape ==
  /\ lock \in Request \cup {Free}
  /\ handler \in [Request -> {"start", "waiting", "locked", "opened", "forwarding",
                              "completed", "leaving", "done"}]
  /\ prompt \in [Request -> {"none", "running", "append", "ended"}]
  /\ verdict \in [Request -> {"none", "completed", "failed"}]
  /\ ctx \in [Request -> {"live", "done"}]

\* Between taking the token and giving it back a request has it.
HolderHasToken == \A r \in Request : handler[r] \in Holding => lock = r

\* A Session has not begun before its request starts it, and is over once its
\* terminal event is out.
VerdictIsLast ==
  \A r \in Request :
    /\ handler[r] \in Before => prompt[r] = "none" /\ verdict[r] = "none"
    /\ verdict[r] # "none" => prompt[r] = "ended"

\* A request waits for the turn it has started, unless its client went away.
TurnIsAwaited ==
  \A r \in Request :
    prompt[r] \in Active => handler[r] = "forwarding" \/ (r \in Streams /\ ctx[r] = "done")

LockInv == Shape /\ HolderHasToken /\ VerdictIsLast /\ TurnIsAwaited

-----------------------------------------------------------------------------
(* The lemmas *)

\* At first no request has the token.
LEMMA LockInit == Init => LockInv
BY DEF Init, LockInv, Shape, HolderHasToken, VerdictIsLast, TurnIsAwaited, Holding, Before, Active

\* A client goes away: no request moves.
LEMMA DisconnectStep ==
  ASSUME LockInv, NEW r \in Request, Disconnect(r)
  PROVE  LockInv'
BY DEF Disconnect, LockInv, Shape, HolderHasToken, VerdictIsLast, TurnIsAwaited

\* The token is taken only from the channel, where no holder has left it.
LEMMA AcquireStep ==
  ASSUME LockInv, NEW r \in Request, Acquire(r)
  PROVE  LockInv'
<1>1. \A q \in Request : handler[q] \notin Holding
  BY ServiceAssumption DEF Acquire, Available, LockInv, HolderHasToken
<1>2. lock' = r /\ handler[r] = "waiting" /\ handler' = [handler EXCEPT ![r] = "locked"]
      /\ UNCHANGED <<prompt, verdict, ctx>>
  BY DEF Acquire, Move, At
<1>3. Shape'
  BY <1>2 DEF LockInv, Shape
<1>4. HolderHasToken'
  BY <1>1, <1>2 DEF LockInv, Shape, HolderHasToken
<1>5. VerdictIsLast' /\ TurnIsAwaited'
  BY <1>2 DEF LockInv, Shape, VerdictIsLast, TurnIsAwaited, Before
<1> QED
  BY <1>3, <1>4, <1>5 DEF LockInv

\* The steps of a request that keep what it has of the token.
LEMMA KeepsToken ==
  ASSUME LockInv, NEW r \in Request,
         Resolve(r) \/ GiveUpLock(r) \/ Start(r) \/ Abandon(r) \/ TakeVerdict(r) \/ PersistSuccess(r)
  PROVE  LockInv'
<1> USE DEF LockInv, Shape, HolderHasToken, VerdictIsLast, TurnIsAwaited,
            Holding, Before, Active, Move, At
<1>1. CASE Resolve(r)
  BY <1>1 DEF Resolve
<1>2. CASE GiveUpLock(r)
  BY <1>2 DEF GiveUpLock
<1>3. CASE Start(r)
  BY <1>3 DEF Start
<1>4. CASE Abandon(r)
  BY <1>4 DEF Abandon
<1>5. CASE TakeVerdict(r)
  BY <1>5 DEF TakeVerdict
<1>6. CASE PersistSuccess(r)
  BY <1>6 DEF PersistSuccess
<1> QED
  BY <1>1, <1>2, <1>3, <1>4, <1>5, <1>6

\* The steps that give the token back are those of the request that has it.
LEMMA OpenStep ==
  ASSUME LockInv, NEW r \in Request, Open(r)
  PROVE  LockInv'
<1>1. handler[r] = "locked" /\ lock = r /\ UNCHANGED <<prompt, verdict, ctx>>
  BY DEF Open, Move, At, LockInv, HolderHasToken, Holding
<1>2. \/ handler' = [handler EXCEPT ![r] = "opened"] /\ lock' = lock
      \/ handler' = [handler EXCEPT ![r] = "done"] /\ lock' = Free
  BY DEF Open, Move
<1> QED
  BY <1>1, <1>2 DEF LockInv, Shape, HolderHasToken, VerdictIsLast, TurnIsAwaited,
                    Holding, Before, Active

\* A request gives the token back when it leaves.
LEMMA UnlockStep ==
  ASSUME LockInv, NEW r \in Request, Unlock(r)
  PROVE  LockInv'
<1>1. handler[r] = "leaving" /\ lock = r /\ UNCHANGED <<prompt, verdict, ctx>>
  BY DEF Unlock, Move, At, LockInv, HolderHasToken, Holding
<1>2. handler' = [handler EXCEPT ![r] = "done"] /\ lock' = Free
  BY DEF Unlock, Move
<1> QED
  BY <1>1, <1>2 DEF LockInv, Shape, HolderHasToken, VerdictIsLast, TurnIsAwaited,
                    Holding, Before, Active

\* The Session's goroutine: it has no token and may have lost its reader.
LEMMA SessionStep ==
  ASSUME LockInv, NEW r \in Request, PromptStep(r)
  PROVE  LockInv'
<1>1. prompt[r] \in Active /\ UNCHANGED <<lock, handler, ctx>>
  BY DEF PromptStep, RunCompletes, RunEnds, AppendLine, AppendFails, Active
<1>2. \/ prompt' = [prompt EXCEPT ![r] = "append"] /\ UNCHANGED verdict
      \/ UNCHANGED <<prompt, verdict>>
      \/ /\ prompt' = [prompt EXCEPT ![r] = "ended"]
         /\ \/ verdict' = [verdict EXCEPT ![r] = "completed"]
            \/ verdict' = [verdict EXCEPT ![r] = "failed"]
  BY DEF PromptStep, RunCompletes, RunEnds, AppendLine, AppendFails
<1> QED
  BY <1>1, <1>2 DEF LockInv, Shape, HolderHasToken, VerdictIsLast, TurnIsAwaited, Before, Active

\* What is known of the run lock holds throughout.
LEMMA LockInvariant == Spec => []LockInv
<1>1. ASSUME LockInv, [Next]_vars PROVE LockInv'
  <2>1. CASE UNCHANGED vars
    BY <1>1, <2>1 DEF vars, LockInv, Shape, HolderHasToken, VerdictIsLast, TurnIsAwaited
  <2>2. ASSUME NEW r \in Request,
               HandlerStep(r) \/ Acquire(r) \/ PromptStep(r) \/ Disconnect(r)
        PROVE  LockInv'
    BY <1>1, <2>2, DisconnectStep, AcquireStep, KeepsToken, OpenStep, UnlockStep, SessionStep
    DEF HandlerStep
  <2> QED
    BY <1>1, <2>1, <2>2 DEF Next
<1> QED
  BY LockInit, <1>1, PTL DEF Spec

-----------------------------------------------------------------------------
(* The theorem *)

\* While one request holds the run lock, the turn of another runs only if it
\* is a stream that was abandoned (service/session.go, Run L432-436, Stream
\* L504).
THEOREM LockCovers == Spec => []LockCoversTurn
<1>1. LockInv => LockCoversTurn
  BY ServiceAssumption DEF LockInv, HolderHasToken, TurnIsAwaited, LockCoversTurn, Holding, Active
<1> QED
  BY LockInvariant, <1>1, PTL

\* What the comment on sessionRunLocks (session.go L42) says holds while no
\* streaming client goes away: the turns that advance the leaf run one at a
\* time.  An abandoned stream is thus the only way to two turns at once.
THEOREM SerialUnlessAbandoned == Spec => [](Undisturbed => LeafAdvancesSerially)
<1>1. LockInv => (Undisturbed => LeafAdvancesSerially)
  <2> SUFFICES ASSUME LockInv, Undisturbed, NEW r \in Request, NEW q \in Request,
                      prompt[r] \in Active, prompt[q] \in Active
               PROVE  r = q
    BY DEF LeafAdvancesSerially, Active
  <2>1. handler[r] = "forwarding" /\ handler[q] = "forwarding"
    BY DEF LockInv, TurnIsAwaited, Undisturbed
  <2> QED BY <2>1 DEF LockInv, HolderHasToken, Holding
<1> QED BY LockInvariant, <1>1, PTL

-----------------------------------------------------------------------------
(* The file under several requests *)

\* The message at a position ends a transcript of whole turns.
EndsTurns(f, p) ==
  /\ p \in 1..Len(f)
  /\ f[p].kind = "message"
  /\ TurnsAreWhole(Thread(f, p))

\* The line at a position says that a message follows the one at base.
Says(f, p, base, message) == p \in 1..Len(f) /\ f[p] = MessageLine(base, message)

\* The append of a request stands before its next line: the lines before that
\* one are there, each linked to the one before it, from the entry the request
\* opened on.
Begun(f, r, base, c) ==
  \/ c.next = 1 /\ c.last = base
  \/ c.next = 2 /\ Says(f, c.last, base, Turn(r)[1])
  \/ /\ c.next = 3
     /\ \E u \in 1..Len(f) : Says(f, u, base, Turn(r)[1]) /\ Says(f, c.last, u, Turn(r)[2])

FileTypes ==
  /\ opened \in [Request -> [messages : Seq(MessageType), parent : Nat]]
  /\ cursor \in [Request -> [next : 1..3, last : Nat]]
  /\ \A r \in Request : cursor[r].last \in 0..Len(file)
  /\ reply \in [Request -> {"none", "done", "error"}]
  /\ touched \subseteq Request

\* The request has opened the file and not committed to it.
OnFile(r) == handler[r] = "opened" \/ prompt[r] \in Active

\* Every request builds on whole turns, whichever leaf was the latest when it
\* opened the file.
BuildsOnTurns ==
  \A r \in Request :
    /\ OnFile(r) => EndsTurns(file, opened[r].parent)
    /\ prompt[r] = "append" => Begun(file, r, opened[r].parent, cursor[r])

FileInv ==
  /\ FileTypes
  /\ Sound(file)
  /\ HasLeaf(file)
  /\ TurnsAreWhole(LeafView(file))
  /\ BuildsOnTurns

\* If no client went away, a request builds on the latest leaf, and what was
\* committed is in the transcript of that leaf.
CommitsOnLeaf ==
  Undisturbed =>
    \A r \in Request :
      /\ OnFile(r) => opened[r].parent = Leaf(file).entry
      /\ verdict[r] = "completed" =>
           \E i \in 1..Len(LeafView(file)) : LeafView(file)[i] = Message(TurnOf(r), "answer")

\* What a client is told was so.
ToldAfterCommit ==
  \A r \in Request :
    /\ handler[r] = "completed" /\ ctx[r] = "live" => verdict[r] = "completed"
    /\ reply[r] = "done" => r \in touched /\ verdict[r] = "completed"

ServiceInv == LockInv /\ FileInv /\ CommitsOnLeaf /\ ToldAfterCommit

-----------------------------------------------------------------------------
(* Lines appended *)

\* g has the lines of f, and leads every message of f back to the same
\* transcript.
Grows(f, g) ==
  /\ Len(f) \in Nat /\ Len(g) \in Nat
  /\ Len(f) <= Len(g)
  /\ \A p \in 1..Len(f) :
       g[p] = f[p] /\ (f[p].kind = "message" => Thread(g, p) = Thread(f, p))

\* A line that fits leaves every thread of a file as it was.
LEMMA AppendGrows ==
  ASSUME NEW f, Sound(f), NEW line, Fits(f, line)
  PROVE  Grows(f, Append(f, line))
<1>1. f \in Seq(LineType) /\ line \in LineType
  BY DEF Sound, WholeLines, Fits
<1>2. \A p \in 1..Len(f) : f[p].kind = "message" => Thread(Append(f, line), p) = Thread(f, p)
  BY SoundStep
<1> QED BY <1>1, <1>2, AppendedLines DEF Grows

\* What a request builds on stays as it was.
LEMMA GrowsKeeps ==
  ASSUME NEW f, NEW g, Grows(f, g), NEW r, NEW base, NEW c
  PROVE  /\ EndsTurns(f, base) => EndsTurns(g, base)
         /\ Begun(f, r, base, c) => Begun(g, r, base, c)
<1>1. \A p \in 1..Len(f) : p \in 1..Len(g) /\ g[p] = f[p]
  BY DEF Grows
<1>2. \A p, b, m : Says(f, p, b, m) => Says(g, p, b, m)
  BY <1>1 DEF Says
<1> QED BY <1>1, <1>2 DEF EndsTurns, Begun, Grows

\* Two messages added make a whole turn, and take none away.
LEMMA TurnAdded ==
  ASSUME NEW v \in Seq(MessageType), TurnsAreWhole(v), NEW r \in Request
  PROVE  LET w == Append(Append(v, Turn(r)[1]), Turn(r)[2])
         IN /\ TurnsAreWhole(w)
            /\ Len(w) = Len(v) + 2
            /\ SubSeq(w, 1, Len(v)) = v
            /\ w[Len(v) + 2] = Message(TurnOf(r), "answer")
            /\ \A i \in 1..Len(v) : w[i] = v[i]
<1> DEFINE n == Len(v)
           a == Turn(r)[1]
           b == Turn(r)[2]
           w == Append(Append(v, a), b)
<1>1. n \in Nat /\ a = Message(TurnOf(r), "user") /\ b = Message(TurnOf(r), "answer")
  BY DEF Turn
<1>2. a \in MessageType /\ b \in MessageType
  BY <1>1, ServiceAssumption DEF Message, MessageType, Roles
<1> HIDE DEF a, b
<1>3. /\ Append(v, a) \in Seq(MessageType) /\ Len(Append(v, a)) = n + 1
      /\ \A i \in 1..n : Append(v, a)[i] = v[i]
      /\ Append(v, a)[n + 1] = a
  BY <1>2, AppendProperties
<1>4. /\ w \in Seq(MessageType) /\ Len(w) = n + 2
      /\ \A i \in 1..(n + 1) : w[i] = Append(v, a)[i]
      /\ w[n + 2] = b
  <2>1. (n + 1) + 1 = n + 2
    BY <1>1
  <2> QED BY <1>2, <1>3, <2>1, AppendProperties
<1>5. (\A i \in 1..n : w[i] = v[i]) /\ w[n + 1] = a
  <2>1. n + 1 \in 1..(n + 1) /\ \A i \in 1..n : i \in 1..(n + 1)
    BY <1>1
  <2> QED BY <1>3, <1>4, <2>1
<1> HIDE DEF w
<1>6. SubSeq(w, 1, n) = v
  <2>1. n <= Len(w)
    BY <1>1, <1>4
  <2>2. /\ SubSeq(w, 1, n) \in Seq(MessageType)
        /\ Len(SubSeq(w, 1, n)) = n
        /\ \A i \in 1..n : SubSeq(w, 1, n)[i] = w[i]
    BY <1>1, <1>4, <2>1
  <2> QED BY <1>5, <2>2, SeqEqual
<1>7. a.role = "user" /\ b.role = "answer" /\ b = Message(a.turn, "answer")
  BY <1>1 DEF Message
<1>8. w[1].role = "user"
  <2>1. CASE v = <<>>
    BY <1>1, <1>5, <1>7, <2>1
  <2>2. CASE v # <<>>
    <3>1. 1 \in 1..n /\ v[1].role = "user"
      BY <2>2 DEF TurnsAreWhole
    <3> QED BY <1>5, <3>1
  <2> QED BY <2>1, <2>2
<1>9. ASSUME NEW i \in 1..(n + 2), w[i].role = "user"
      PROVE  i + 1 <= n + 2 /\ w[i + 1] = Message(w[i].turn, "answer")
  <2>1. CASE i \in 1..n
    <3>1. v[i].role = "user"
      BY <1>5, <1>9, <2>1
    <3>2. i + 1 <= n /\ v[i + 1] = Message(v[i].turn, "answer")
      BY <2>1, <3>1 DEF TurnsAreWhole
    <3>3. i + 1 \in 1..n
      BY <1>1, <2>1, <3>2
    <3> QED BY <1>1, <1>5, <2>1, <3>2, <3>3
  <2>2. CASE i = n + 1
    <3>1. i + 1 = n + 2
      BY <1>1, <2>2
    <3> QED BY <1>1, <1>4, <1>5, <1>7, <2>2, <3>1
  <2>3. CASE i = n + 2
    BY <1>4, <1>7, <1>9, <2>3
  <2> QED BY <1>1, <2>1, <2>2, <2>3
<1>10. TurnsAreWhole(w)
  <2>1. 1 \in 1..(n + 2)
    BY <1>1
  <2> QED BY <1>4, <1>8, <1>9, <2>1 DEF TurnsAreWhole
<1> QED BY <1>4, <1>5, <1>6, <1>10, <1>1 DEF w, a, b

\* The transcript of a message just said.
LEMMA ThreadOfSaid ==
  ASSUME NEW f, Sound(f), NEW p, NEW base, NEW m, Says(f, p, base, m)
  PROVE  f[p].kind = "message" /\ Thread(f, p) = Append(Thread(f, base), m)
<1>1. p \in 1..Len(f) /\ f[p].parent = base /\ f[p].message = m /\ f[p].kind = "message"
  BY DEF Says, MessageLine, Line
<1> QED BY <1>1, ThreadStep DEF Sound, WholeLines

\* The line a request writes next.
LineOf(r) ==
  IF cursor[r].next <= 2
    THEN MessageLine(cursor[r].last, Turn(r)[cursor[r].next])
    ELSE LeafLine(cursor[r].last, 0)

\* It links to a message of the file.
LEMMA LineFits ==
  ASSUME FileInv, NEW r \in Request, prompt[r] = "append"
  PROVE  Fits(file, LineOf(r))
<1> DEFINE c == cursor[r]
           base == opened[r].parent
<1>1. /\ file \in Seq(LineType) /\ Len(file) \in Nat
      /\ EndsTurns(file, base)
      /\ Begun(file, r, base, c)
      /\ c.next \in 1..3 /\ c.last \in 0..Len(file)
  BY DEF FileInv, FileTypes, BuildsOnTurns, OnFile, Active, Sound, WholeLines
<1> HIDE DEF c, base
<1>2. c.last \in 1..Len(file) /\ file[c.last].kind = "message"
  <2>1. \A p, b, m : Says(file, p, b, m) => p \in 1..Len(file) /\ file[p].kind = "message"
    BY DEF Says, MessageLine, Line
  <2> QED BY <1>1, <2>1 DEF Begun, EndsTurns
<1>3. CASE c.next <= 2
  <2>1. c.next \in 1..2
    BY <1>1, <1>3
  <2>2. /\ Turn(r)[c.next] \in MessageType
        /\ Turn(r)[c.next].role \notin OversizedRoles
    <3>1. TurnOf(r) \in Nat /\ "user" \notin OversizedRoles /\ "answer" \notin OversizedRoles
      BY ServiceAssumption
    <3>2. Turn(r)[c.next] \in {Message(TurnOf(r), "user"), Message(TurnOf(r), "answer")}
      BY <2>1 DEF Turn
    <3> QED BY <3>1, <3>2 DEF Message, MessageType, Roles
  <2>3. LineOf(r) = MessageLine(c.last, Turn(r)[c.next])
    BY <1>3 DEF LineOf, c
  <2>4. MessageLine(c.last, Turn(r)[c.next]) \in LineType
    BY <1>1, <2>2 DEF MessageLine, Line, LineType
  <2> QED BY <1>1, <1>2, <2>2, <2>3, <2>4 DEF Fits, MessageLine, Line, Readable
<1>4. CASE ~(c.next <= 2)
  <2>1. LineOf(r) = LeafLine(c.last, 0)
    BY <1>4 DEF LineOf, c
  <2>2. NoMessage \in MessageType
    BY DEF NoMessage, Message, MessageType, Roles
  <2>3. LeafLine(c.last, 0) \in LineType
    BY <1>1, <2>2 DEF LeafLine, Line, LineType
  <2> QED BY <1>1, <1>2, <2>1, <2>3 DEF Fits, LeafLine, Line, Readable
<1> QED BY <1>3, <1>4

\* The step that writes it.
LEMMA AppendIs ==
  ASSUME FileInv, NEW r \in Request, AppendLine(r)
  PROVE  /\ prompt[r] = "append"
         /\ file' = Append(file, LineOf(r))
         /\ Len(file') = Len(file) + 1 /\ file'[Len(file')] = LineOf(r)
         /\ Sound(file') /\ Grows(file, file')
         /\ UNCHANGED <<lock, handler, opened, ctx, reply, touched>>
         /\ \/ /\ cursor[r].next \in 1..2
               /\ cursor' = [cursor EXCEPT ![r] = [next |-> cursor[r].next + 1, last |-> Len(file')]]
               /\ UNCHANGED <<prompt, verdict>>
            \/ /\ cursor[r].next = 3
               /\ prompt' = [prompt EXCEPT ![r] = "ended"]
               /\ verdict' = [verdict EXCEPT ![r] = "completed"]
               /\ UNCHANGED cursor
<1>1. prompt[r] = "append" /\ Len(Turn(r)) = 2 /\ cursor[r].next \in 1..3
  BY DEF AppendLine, Turn, FileInv, FileTypes
<1>2. Fits(file, LineOf(r)) /\ Sound(file) /\ WholeLines(file)
  BY <1>1, LineFits DEF FileInv, Sound
<1>3. file' = Written(file, LineOf(r))
  BY <1>1 DEF AppendLine, LineOf, Link
<1>4. file' = Append(file, LineOf(r))
  BY <1>2, <1>3, WrittenIsAppended
<1>5. Sound(file') /\ Grows(file, file')
  BY <1>2, <1>4, SoundStep, AppendGrows
<1>6. Len(file') = Len(file) + 1 /\ file'[Len(file')] = LineOf(r)
  <2>1. file \in Seq(LineType) /\ LineOf(r) \in LineType
    BY <1>2 DEF WholeLines, Fits
  <2> QED BY <1>4, <2>1, AppendedLines
<1>7. cursor[r].next <= 2 <=> cursor[r].next \in 1..2
  BY <1>1
<1> QED BY <1>1, <1>4, <1>5, <1>6, <1>7 DEF AppendLine, Entry

\* What the latest leaf commits, as a request that opens the file finds it.
LEMMA LatestTurns ==
  ASSUME NEW f, Sound(f), HasLeaf(f), TurnsAreWhole(LeafView(f))
  PROVE  /\ EndsTurns(f, Leaf(f).entry)
         /\ Load(f).ok
         /\ Load(f).parent = Leaf(f).entry /\ Leaf(f).entry \in Nat
         /\ Load(f).messages \in Seq(MessageType)
         /\ LeafView(f) = Thread(f, Leaf(f).entry) /\ LeafView(f) \in Seq(MessageType)
<1> DEFINE e == Leaf(f).entry
<1>1. /\ e \in 1..Len(f) /\ f[e].kind = "message"
      /\ Load(f).ok
      /\ Load(f).parent = e
      /\ Load(f).messages = Thread(f, e) /\ LeafView(f) = Thread(f, e)
  BY LoadSound
<1> HIDE DEF e
<1>2. f \in Seq(LineType) /\ Linked(f) /\ LinksToMessages(f) /\ Len(f) \in Nat
  BY DEF Sound, WholeLines
<1>3. e \in 0..Len(f) /\ e \in Nat
  BY <1>1, <1>2
<1>4. Thread(f, e) \in Seq(MessageType)
  BY <1>1, <1>2, <1>3, ThreadType
<1> QED BY <1>1, <1>3, <1>4 DEF EndsTurns, e

\* A message leaves the committed transcript as it is; a leaf adds the turn to
\* the transcript that the request had opened.
LEMMA AppendView ==
  ASSUME FileInv, NEW r \in Request, AppendLine(r)
  PROVE  /\ HasLeaf(file')
         /\ cursor[r].next \in 1..2 =>
              LeafView(file') = LeafView(file) /\ Leaf(file') = Leaf(file)
         /\ cursor[r].next = 3 =>
              LeafView(file') = Append(Append(Thread(file, opened[r].parent), Turn(r)[1]), Turn(r)[2])
<1>1. /\ prompt[r] = "append"
      /\ file' = Append(file, LineOf(r))
      /\ Sound(file') /\ Grows(file, file')
  BY AppendIs
<1>2. /\ Fits(file, LineOf(r)) /\ Sound(file) /\ HasLeaf(file) /\ TurnsAreWhole(LeafView(file))
      /\ file \in Seq(LineType) /\ LineOf(r) \in LineType
  BY <1>1, LineFits DEF FileInv, Sound, WholeLines, Fits
<1>3. CASE cursor[r].next \in 1..2
  <2>1. LineOf(r).kind # "leaf"
    BY <1>3 DEF LineOf, MessageLine, Line
  <2>2. HasLeaf(file') /\ Leaf(file') = Leaf(file)
    BY <1>1, <1>2, <2>1, LeafStep
  <2> DEFINE e == Leaf(file).entry
  <2>3. e \in 1..Len(file) /\ file[e].kind = "message" /\ LeafView(file) = Thread(file, e)
    BY <1>2, LoadSound
  <2>4. Thread(file', e) = Thread(file, e)
    BY <1>1, <2>3 DEF Grows
  <2>5. LeafView(file') = Thread(file', Leaf(file').entry)
    BY <1>1, <2>2, LoadSound
  <2>6. LeafView(file') = LeafView(file)
    BY <2>2, <2>3, <2>4, <2>5
  <2> QED BY <1>3, <2>2, <2>6
<1>4. CASE cursor[r].next = 3
  <2> DEFINE c == cursor[r].last
             base == opened[r].parent
  <2>1. LineOf(r) = LeafLine(c, 0)
    BY <1>4 DEF LineOf
  <2>2. LineOf(r).kind = "leaf" /\ LineOf(r).entry = c
    BY <2>1 DEF LeafLine, Line
  <2>3. HasLeaf(file') /\ Leaf(file') = LineOf(r)
    BY <1>1, <1>2, <2>2, LeafStep
  <2>4. LeafView(file') = Thread(file', c)
    BY <1>1, <2>2, <2>3, LoadSound
  <2>5. PICK u \in 1..Len(file) : Says(file, u, base, Turn(r)[1]) /\ Says(file, c, u, Turn(r)[2])
    BY <1>1, <1>4 DEF FileInv, BuildsOnTurns, Begun
  <2>6. c \in 1..Len(file) /\ file[c].kind = "message"
        /\ Thread(file, c) = Append(Thread(file, u), Turn(r)[2])
    BY <1>2, <2>5, ThreadOfSaid DEF Says
  <2>7. Thread(file, u) = Append(Thread(file, base), Turn(r)[1])
    BY <1>2, <2>5, ThreadOfSaid
  <2>8. Thread(file', c) = Thread(file, c)
    BY <1>1, <2>6 DEF Grows
  <2> QED BY <1>4, <2>3, <2>4, <2>6, <2>7, <2>8
<1>5. cursor[r].next \in 1..3
  BY DEF FileInv, FileTypes
<1>6. cursor[r].next \in 1..2 \/ cursor[r].next = 3
  BY <1>5
<1> QED BY <1>3, <1>4, <1>6

-----------------------------------------------------------------------------
(* The file, step by step *)

\* At first the file is as it was found, and nobody was told anything.
LEMMA FileInit == Init => FileInv /\ CommitsOnLeaf /\ ToldAfterCommit
<1> SUFFICES ASSUME Init PROVE FileInv /\ CommitsOnLeaf /\ ToldAfterCommit
  OBVIOUS
<1>1. Sound(file) /\ HasLeaf(file) /\ TurnsAreWhole(LeafView(file))
  BY ServiceAssumption DEF Init
<1>2. Len(file) \in Nat /\ <<>> \in Seq(MessageType)
  BY <1>1 DEF Sound, WholeLines
<1>3. FileTypes
  BY <1>2 DEF Init, FileTypes
<1>4. \A r \in Request : ~OnFile(r) /\ prompt[r] # "append" /\ verdict[r] = "none"
                          /\ reply[r] = "none" /\ handler[r] # "completed"
  BY DEF Init, OnFile, Active
<1> QED BY <1>1, <1>3, <1>4 DEF FileInv, BuildsOnTurns, CommitsOnLeaf, ToldAfterCommit

\* Steps that leave the file alone, and nobody joins those who are on it.
LEMMA SameFile ==
  ASSUME FileInv, UNCHANGED <<file, opened, cursor>>,
         reply' \in [Request -> {"none", "done", "error"}], touched' \subseteq Request,
         \A r \in Request : (OnFile(r)' => OnFile(r)) /\ (prompt'[r] = "append" => prompt[r] = "append")
  PROVE  FileInv'
<1>1. FileTypes'
  BY DEF FileInv, FileTypes
<1>2. BuildsOnTurns'
  BY DEF FileInv, BuildsOnTurns
<1> QED BY <1>1, <1>2 DEF FileInv

\* Steps that neither write, open nor complete leave the commits alone.
LEMMA SameLeaf ==
  ASSUME CommitsOnLeaf, UNCHANGED <<file, opened>>, Undisturbed' => Undisturbed,
         \A r \in Request : OnFile(r)' => OnFile(r),
         \A r \in Request : verdict'[r] = "completed" => verdict[r] = "completed"
  PROVE  CommitsOnLeaf'
BY DEF CommitsOnLeaf

\* Requests that come, wait, leave or report.
LEMMA RequestStep ==
  ASSUME ServiceInv, NEW r \in Request,
         \/ Disconnect(r) \/ Resolve(r) \/ Acquire(r) \/ GiveUpLock(r)
         \/ Abandon(r) \/ TakeVerdict(r) \/ PersistSuccess(r) \/ Unlock(r)
  PROVE  FileInv' /\ CommitsOnLeaf' /\ ToldAfterCommit'
<1>0. /\ handler \in [Request -> {"start", "waiting", "locked", "opened", "forwarding",
                              "completed", "leaving", "done"}]
      /\ ctx \in [Request -> {"live", "done"}]
      /\ reply \in [Request -> {"none", "done", "error"}] /\ touched \subseteq Request
  BY DEF ServiceInv, LockInv, Shape, FileInv, FileTypes
<1>1. UNCHANGED <<file, opened, cursor, prompt, verdict>>
  BY DEF Disconnect, Resolve, Acquire, GiveUpLock, Abandon, TakeVerdict, PersistSuccess, Unlock
<1>2. \/ UNCHANGED handler
      \/ \E to \in {"waiting", "done", "locked", "leaving", "completed"} :
           handler' = [handler EXCEPT ![r] = to]
  BY DEF Disconnect, Resolve, Acquire, GiveUpLock, Abandon, TakeVerdict, PersistSuccess, Unlock, Move
<1>3. \A q \in Request : handler'[q] = "opened" => handler[q] = "opened"
  BY <1>0, <1>2
<1>4. \A q \in Request : OnFile(q)' => OnFile(q)
  BY <1>1, <1>3 DEF OnFile
<1>5. reply' \in [Request -> {"none", "done", "error"}] /\ touched' \subseteq Request
  BY <1>0 DEF Disconnect, Resolve, Acquire, GiveUpLock, Abandon, TakeVerdict, PersistSuccess, Unlock, Answer
<1>6. Undisturbed' => Undisturbed
  <2>1. \/ UNCHANGED ctx
        \/ ctx' = [ctx EXCEPT ![r] = "done"]
    BY DEF Disconnect, Resolve, Acquire, GiveUpLock, Abandon, TakeVerdict, PersistSuccess, Unlock
  <2>2. \A q \in Request : ctx'[q] = "live" => ctx[q] = "live"
    BY <1>0, <2>1
  <2> QED BY <2>2, ServiceAssumption DEF Undisturbed
<1>7. FileInv'
  BY <1>1, <1>4, <1>5, SameFile DEF ServiceInv
<1>8. CommitsOnLeaf'
  BY <1>1, <1>4, <1>6, SameLeaf DEF ServiceInv
<1>9. ToldAfterCommit'
  <2>0. ToldAfterCommit
    BY DEF ServiceInv
  <2>1. CASE Disconnect(r)
    BY <1>0, <2>0, <2>1 DEF Disconnect, ToldAfterCommit
  <2>2. CASE Resolve(r) \/ Acquire(r) \/ GiveUpLock(r)
    BY <1>0, <2>0, <2>2 DEF Resolve, Acquire, GiveUpLock, Move, Answer, ToldAfterCommit
  <2>3. CASE Abandon(r) \/ Unlock(r)
    BY <1>0, <2>0, <2>3 DEF Abandon, Unlock, Move, ToldAfterCommit
  <2>4. CASE TakeVerdict(r)
    BY <1>0, <2>0, <2>4 DEF TakeVerdict, Move, Answer, ToldAfterCommit
  <2>5. CASE PersistSuccess(r)
    BY <1>0, <2>0, <2>5 DEF PersistSuccess, Move, At, Answer, ToldAfterCommit
  <2> QED BY <2>1, <2>2, <2>3, <2>4, <2>5
<1> QED BY <1>7, <1>8, <1>9

\* A request opens the file where the latest leaf is, under the token.
LEMMA OpenFile ==
  ASSUME ServiceInv, NEW r \in Request, Open(r)
  PROVE  FileInv' /\ CommitsOnLeaf' /\ ToldAfterCommit'
<1> DEFINE found == [messages |-> Load(file).messages, parent |-> Load(file).parent]
<1>0. /\ FileInv /\ CommitsOnLeaf /\ ToldAfterCommit
      /\ handler \in [Request -> {"start", "waiting", "locked", "opened", "forwarding",
                              "completed", "leaving", "done"}]
      /\ opened \in [Request -> [messages : Seq(MessageType), parent : Nat]]
      /\ reply \in [Request -> {"none", "done", "error"}]
  BY DEF ServiceInv, LockInv, Shape, FileInv, FileTypes
<1>1. /\ UNCHANGED <<file, prompt, cursor, touched, ctx, verdict>>
      /\ handler[r] = "locked"
  BY DEF Open, Move, At
<1>2. /\ EndsTurns(file, Leaf(file).entry)
      /\ Load(file).parent = Leaf(file).entry /\ Leaf(file).entry \in Nat
      /\ Load(file).messages \in Seq(MessageType)
  BY <1>0, LatestTurns DEF FileInv
<1>3. CASE /\ handler' = [handler EXCEPT ![r] = "opened"]
           /\ opened' = [opened EXCEPT ![r] = found]
           /\ UNCHANGED reply
  <2>1. found \in [messages : Seq(MessageType), parent : Nat] /\ found.parent = Leaf(file).entry
    BY <1>2
  <2> HIDE DEF found
  <2>2. FileTypes'
    BY <1>0, <1>1, <1>3, <2>1 DEF FileInv, FileTypes
  <2>3. prompt[r] \notin Active /\ prompt[r] # "append"
    BY <1>1 DEF ServiceInv, LockInv, VerdictIsLast, Before, Active
  <2>4. \A q \in Request : q = r \/ (opened'[q] = opened[q] /\ (OnFile(q)' => OnFile(q)))
    BY <1>0, <1>1, <1>3 DEF OnFile
  <2>5. opened'[r] = found
    BY <1>0, <1>3
  <2>6. BuildsOnTurns'
    BY <1>0, <1>1, <1>2, <2>1, <2>3, <2>4, <2>5 DEF FileInv, BuildsOnTurns
  <2>7. FileInv'
    BY <1>0, <1>1, <2>2, <2>6 DEF FileInv
  <2>8. CommitsOnLeaf'
    BY <1>0, <1>1, <2>1, <2>4, <2>5 DEF CommitsOnLeaf, Undisturbed
  <2>9. ToldAfterCommit'
    BY <1>0, <1>1, <1>3 DEF ToldAfterCommit
  <2> QED BY <2>7, <2>8, <2>9
<1>4. CASE /\ handler' = [handler EXCEPT ![r] = "done"]
           /\ reply' = [reply EXCEPT ![r] = "error"]
           /\ UNCHANGED opened
  <2>1. \A q \in Request : (OnFile(q)' => OnFile(q)) /\ (prompt'[q] = "append" => prompt[q] = "append")
    BY <1>0, <1>1, <1>4 DEF OnFile
  <2>2. reply' \in [Request -> {"none", "done", "error"}] /\ touched' \subseteq Request
    BY <1>0, <1>1, <1>4 DEF FileInv, FileTypes
  <2>3. FileInv'
    BY <1>0, <1>1, <1>4, <2>1, <2>2, SameFile
  <2>4. CommitsOnLeaf'
    BY <1>0, <1>1, <1>4, <2>1, SameLeaf DEF Undisturbed
  <2>5. ToldAfterCommit'
    BY <1>0, <1>1, <1>4 DEF ToldAfterCommit
  <2> QED BY <2>3, <2>4, <2>5
<1>5. \/ /\ handler' = [handler EXCEPT ![r] = "opened"]
         /\ opened' = [opened EXCEPT ![r] = found]
         /\ UNCHANGED reply
      \/ /\ handler' = [handler EXCEPT ![r] = "done"]
         /\ reply' = [reply EXCEPT ![r] = "error"]
         /\ UNCHANGED opened
  BY DEF Open, Move, Answer
<1> QED BY <1>3, <1>4, <1>5

\* The Session starts, or is refused by a context that is done.
LEMMA StartTurn ==
  ASSUME ServiceInv, NEW r \in Request, Start(r)
  PROVE  FileInv' /\ CommitsOnLeaf' /\ ToldAfterCommit'
<1>0. /\ FileInv /\ CommitsOnLeaf /\ ToldAfterCommit
      /\ handler \in [Request -> {"start", "waiting", "locked", "opened", "forwarding",
                              "completed", "leaving", "done"}]
      /\ prompt \in [Request -> {"none", "running", "append", "ended"}]
  BY DEF ServiceInv, LockInv, Shape
<1>1. /\ UNCHANGED <<file, opened, cursor, touched, ctx, verdict, reply>>
      /\ handler[r] = "opened"
      /\ \E to \in {"forwarding", "leaving", "completed"} :
           /\ handler' = [handler EXCEPT ![r] = to]
           /\ to = "completed" => ctx[r] = "done"
      /\ UNCHANGED prompt \/ prompt' = [prompt EXCEPT ![r] = "running"]
  BY DEF Start, Move, At
<1>2. \A q \in Request :
        (OnFile(q)' => OnFile(q)) /\ (prompt'[q] = "append" => prompt[q] = "append")
  <2>1. \A q \in Request : q = r \/ (handler'[q] = handler[q] /\ prompt'[q] = prompt[q])
    BY <1>0, <1>1
  <2>2. OnFile(r) /\ prompt'[r] \in {prompt[r], "running"}
    BY <1>0, <1>1 DEF OnFile
  <2> QED BY <2>1, <2>2 DEF OnFile
<1>3. FileInv'
  <2>1. reply' \in [Request -> {"none", "done", "error"}] /\ touched' \subseteq Request
    BY <1>0, <1>1 DEF FileInv, FileTypes
  <2> QED BY <1>0, <1>1, <1>2, <2>1, SameFile
<1>4. CommitsOnLeaf'
  BY <1>0, <1>1, <1>2, SameLeaf DEF Undisturbed
<1>5. ToldAfterCommit'
  BY <1>0, <1>1 DEF ToldAfterCommit
<1> QED BY <1>3, <1>4, <1>5

\* The run completes, fails, or an append is given up.
LEMMA RunStep ==
  ASSUME ServiceInv, NEW r \in Request, RunCompletes(r) \/ RunEnds(r) \/ AppendFails(r)
  PROVE  FileInv' /\ CommitsOnLeaf' /\ ToldAfterCommit'
<1> DEFINE c == [next |-> 1, last |-> opened[r].parent]
<1>0. /\ FileInv /\ CommitsOnLeaf /\ ToldAfterCommit
      /\ prompt \in [Request -> {"none", "running", "append", "ended"}]
      /\ verdict \in [Request -> {"none", "completed", "failed"}]
      /\ cursor \in [Request -> [next : 1..3, last : Nat]]
      /\ opened \in [Request -> [messages : Seq(MessageType), parent : Nat]]
      /\ \A q \in Request : cursor[q].last \in 0..Len(file)
  BY DEF ServiceInv, LockInv, Shape, FileInv, FileTypes
<1>1. /\ UNCHANGED <<file, handler, opened, touched, ctx, reply>>
      /\ prompt[r] \in Active
      /\ verdict[r] = "none"
  <2>1. /\ UNCHANGED <<file, handler, opened, touched, ctx, reply>>
        /\ prompt[r] \in Active
    BY DEF RunCompletes, RunEnds, AppendFails, Active
  <2>2. verdict[r] = "none"
    BY <2>1 DEF ServiceInv, LockInv, VerdictIsLast, Active
  <2> QED BY <2>1, <2>2
<1>2. CASE RunCompletes(r)
  <2>1. /\ prompt' = [prompt EXCEPT ![r] = "append"]
        /\ cursor' = [cursor EXCEPT ![r] = c]
        /\ UNCHANGED verdict
    BY <1>2 DEF RunCompletes
  <2>2. EndsTurns(file, opened[r].parent)
    BY <1>0, <1>1 DEF FileInv, BuildsOnTurns, OnFile
  <2>3. c \in [next : 1..3, last : Nat] /\ c.last \in 0..Len(file)
    <3>1. opened[r].parent \in 1..Len(file) /\ opened[r].parent \in Nat
      BY <1>0, <2>2 DEF EndsTurns
    <3> QED BY <3>1
  <2>4. Begun(file, r, opened[r].parent, c)
    BY DEF Begun
  <2> HIDE DEF c
  <2>5. FileTypes'
    BY <1>0, <1>1, <2>1, <2>3 DEF FileInv, FileTypes
  <2>6. \A q \in Request : (OnFile(q)' => OnFile(q))
                           /\ (q = r \/ (prompt'[q] = prompt[q] /\ cursor'[q] = cursor[q]))
    BY <1>0, <1>1, <2>1 DEF OnFile, Active
  <2>7. cursor'[r] = c
    BY <1>0, <2>1
  <2>8. BuildsOnTurns'
    BY <1>0, <1>1, <2>4, <2>6, <2>7 DEF FileInv, BuildsOnTurns
  <2>9. FileInv'
    BY <1>0, <1>1, <2>5, <2>8 DEF FileInv
  <2>10. CommitsOnLeaf'
    BY <1>0, <1>1, <2>1, <2>6, SameLeaf DEF Undisturbed
  <2>11. ToldAfterCommit'
    BY <1>0, <1>1, <2>1 DEF ToldAfterCommit
  <2> QED BY <2>9, <2>10, <2>11
<1>3. CASE RunEnds(r) \/ AppendFails(r)
  <2>1. /\ prompt' = [prompt EXCEPT ![r] = "ended"]
        /\ verdict' = [verdict EXCEPT ![r] = "failed"]
        /\ UNCHANGED cursor
    BY <1>3 DEF RunEnds, AppendFails
  <2>2. \A q \in Request : (OnFile(q)' => OnFile(q)) /\ (prompt'[q] = "append" => prompt[q] = "append")
    BY <1>0, <1>1, <2>1 DEF OnFile, Active
  <2>3. \A q \in Request : /\ verdict'[q] = "completed" => verdict[q] = "completed"
                           /\ verdict[q] = "completed" => verdict'[q] = "completed"
    BY <1>0, <1>1, <2>1
  <2>4. FileInv'
    <3>1. reply' \in [Request -> {"none", "done", "error"}] /\ touched' \subseteq Request
      BY <1>0, <1>1 DEF FileInv, FileTypes
    <3> QED BY <1>0, <1>1, <2>1, <2>2, <3>1, SameFile
  <2>5. CommitsOnLeaf'
    BY <1>0, <1>1, <2>2, <2>3, SameLeaf DEF Undisturbed
  <2>6. ToldAfterCommit'
    BY <1>0, <1>1, <2>3 DEF ToldAfterCommit
  <2> QED BY <2>4, <2>5, <2>6
<1> QED BY <1>2, <1>3

\* While nobody has gone away, the request that appends is the only one on
\* the file: it holds the token.
LEMMA AloneOnFile ==
  ASSUME LockInv, Undisturbed, NEW r \in Request, prompt[r] \in Active,
         NEW q \in Request, OnFile(q)
  PROVE  q = r /\ handler[r] = "forwarding"
<1>1. \A p \in Request : prompt[p] \in Active => handler[p] = "forwarding"
  BY DEF LockInv, TurnIsAwaited, Undisturbed
<1>2. \A p \in Request : handler[p] \in Holding => lock = p
  BY DEF LockInv, HolderHasToken
<1>3. lock = r
  BY <1>1, <1>2 DEF Holding
<1>4. lock = q
  BY <1>1, <1>2 DEF OnFile, Holding
<1> QED BY <1>1, <1>3, <1>4

\* A line of the turn is written, the leaf last.
LEMMA AppendTurn ==
  ASSUME ServiceInv, NEW r \in Request, AppendLine(r)
  PROVE  FileInv' /\ CommitsOnLeaf' /\ ToldAfterCommit'
<1> DEFINE base == opened[r].parent
           n == Len(file')
<1>0. /\ FileInv /\ CommitsOnLeaf /\ ToldAfterCommit /\ LockInv
      /\ prompt \in [Request -> {"none", "running", "append", "ended"}]
      /\ verdict \in [Request -> {"none", "completed", "failed"}]
      /\ cursor \in [Request -> [next : 1..3, last : Nat]]
      /\ \A q \in Request : cursor[q].last \in 0..Len(file)
  BY DEF ServiceInv, LockInv, Shape, FileInv, FileTypes
<1>1. /\ prompt[r] = "append" /\ prompt[r] \in Active
      /\ Sound(file') /\ Grows(file, file')
      /\ n = Len(file) + 1 /\ file'[n] = LineOf(r)
      /\ UNCHANGED <<lock, handler, opened, ctx, reply, touched>>
  BY <1>0, AppendIs DEF Active
<1>n. n \in Nat /\ Len(file) \in Nat /\ n \in 1..n
  BY <1>1 DEF Grows
<1>2. \A q \in Request : OnFile(q) => EndsTurns(file', opened[q].parent)
  BY <1>0, <1>1, GrowsKeeps DEF FileInv, BuildsOnTurns
<1>3. \A q \in Request : prompt[q] = "append" => Begun(file', q, opened[q].parent, cursor[q])
  BY <1>0, <1>1, GrowsKeeps DEF FileInv, BuildsOnTurns
<1>4. EndsTurns(file, base) /\ Begun(file, r, base, cursor[r])
  BY <1>0, <1>1 DEF FileInv, BuildsOnTurns, OnFile
<1> HIDE DEF base, n
<1>5. CASE /\ cursor[r].next \in 1..2
           /\ cursor' = [cursor EXCEPT ![r] = [next |-> cursor[r].next + 1, last |-> n]]
           /\ UNCHANGED <<prompt, verdict>>
  <2>1. LeafView(file') = LeafView(file) /\ Leaf(file') = Leaf(file) /\ HasLeaf(file')
    BY <1>0, <1>5, AppendView
  <2>2. cursor[r].next + 1 \in 1..3
    BY <1>5
  <2>3. FileTypes'
    <3>1. cursor' \in [Request -> [next : 1..3, last : Nat]]
      BY <1>0, <1>5, <1>n, <2>2
    <3>2. \A q \in Request : cursor'[q].last \in 0..n
      <4> SUFFICES ASSUME NEW q \in Request PROVE cursor'[q].last \in 0..n
        OBVIOUS
      <4>1. cursor'[q].last = n \/ cursor'[q].last = cursor[q].last
        BY <1>0, <1>5
      <4>2. cursor[q].last \in 0..Len(file)
        BY <1>0
      <4> QED BY <1>1, <1>n, <4>1, <4>2 DEF n
    <3> QED BY <1>0, <1>1, <3>1, <3>2 DEF FileInv, FileTypes, n
  <2>4. LineOf(r) = MessageLine(cursor[r].last, Turn(r)[cursor[r].next])
    BY <1>5 DEF LineOf
  <2>5. cursor'[r] = [next |-> cursor[r].next + 1, last |-> n]
    BY <1>0, <1>5
  <2>6. Says(file', n, cursor[r].last, Turn(r)[cursor[r].next])
    BY <1>1, <1>n, <2>4 DEF Says, n
  <2>7. Begun(file', r, base, cursor'[r])
    <3>1. CASE cursor[r].next = 1
      <4>1. cursor[r].last = base
        BY <1>4, <3>1 DEF Begun
      <4>2. cursor'[r].next = 2 /\ cursor'[r].last = n
        BY <2>5, <3>1
      <4> QED BY <2>6, <3>1, <4>1, <4>2 DEF Begun
    <3>2. CASE cursor[r].next = 2
      <4>1. Says(file, cursor[r].last, base, Turn(r)[1])
        BY <1>4, <3>2 DEF Begun
      <4>2. cursor[r].last \in 1..Len(file') /\ Says(file', cursor[r].last, base, Turn(r)[1])
        BY <1>1, <1>n, <4>1 DEF Says, Grows
      <4>3. cursor'[r].next = 3 /\ cursor'[r].last = n
        BY <2>5, <3>2
      <4> QED BY <2>6, <3>2, <4>2, <4>3 DEF Begun
    <3> QED BY <1>5, <3>1, <3>2
  <2>8. BuildsOnTurns'
    <3>1. \A q \in Request : q = r \/ cursor'[q] = cursor[q]
      BY <1>0, <1>5
    <3>2. \A q \in Request : OnFile(q)' => OnFile(q)
      BY <1>1, <1>5 DEF OnFile
    <3> QED BY <1>1, <1>2, <1>3, <1>5, <2>7, <3>1, <3>2 DEF BuildsOnTurns, base
  <2>9. FileInv'
    BY <1>0, <1>1, <2>1, <2>3, <2>8 DEF FileInv
  <2>10. CommitsOnLeaf'
    BY <1>0, <1>1, <1>5, <2>1 DEF CommitsOnLeaf, Undisturbed, OnFile
  <2>11. ToldAfterCommit'
    BY <1>0, <1>1, <1>5 DEF ToldAfterCommit
  <2> QED BY <2>9, <2>10, <2>11
<1>6. CASE /\ cursor[r].next = 3
           /\ prompt' = [prompt EXCEPT ![r] = "ended"]
           /\ verdict' = [verdict EXCEPT ![r] = "completed"]
           /\ UNCHANGED cursor
  <2> DEFINE v == Thread(file, base)
  <2>1. HasLeaf(file') /\ LeafView(file') = Append(Append(v, Turn(r)[1]), Turn(r)[2])
    BY <1>0, <1>6, AppendView DEF base
  <2>2. v \in Seq(MessageType) /\ TurnsAreWhole(v)
    <3>1. file \in Seq(LineType) /\ Linked(file) /\ LinksToMessages(file)
      BY <1>0 DEF FileInv, Sound, WholeLines
    <3>2. base \in 0..Len(file) /\ file[base].kind = "message" /\ TurnsAreWhole(v)
      BY <1>4, <1>n DEF EndsTurns
    <3> QED BY <3>1, <3>2, ThreadType
  <2> HIDE DEF v
  <2>3. /\ TurnsAreWhole(LeafView(file'))
        /\ Len(LeafView(file')) = Len(v) + 2
        /\ LeafView(file')[Len(v) + 2] = Message(TurnOf(r), "answer")
        /\ \A i \in 1..Len(v) : LeafView(file')[i] = v[i]
    BY <2>1, <2>2, TurnAdded
  <2>4. FileTypes'
    <3>1. \A q \in Request : cursor[q].last \in 0..n
      BY <1>0, <1>1, <1>n DEF n
    <3> QED BY <1>0, <1>1, <1>6, <3>1 DEF FileInv, FileTypes, n
  <2>5. \A q \in Request : (OnFile(q)' => OnFile(q)) /\ (prompt'[q] = "append" => prompt[q] = "append")
    BY <1>0, <1>1, <1>6 DEF OnFile, Active
  <2>6. BuildsOnTurns'
    BY <1>1, <1>2, <1>3, <1>6, <2>5 DEF BuildsOnTurns
  <2>7. FileInv'
    BY <1>1, <2>1, <2>3, <2>4, <2>6 DEF FileInv
  <2>8. \A q \in Request : q = r \/ verdict'[q] = verdict[q]
    BY <1>0, <1>6
  <2>9. CommitsOnLeaf'
    <3> SUFFICES ASSUME Undisturbed', NEW q \in Request
                 PROVE  /\ OnFile(q)' => opened'[q].parent = Leaf(file').entry
                        /\ verdict'[q] = "completed" =>
                             \E i \in 1..Len(LeafView(file')) :
                               LeafView(file')[i] = Message(TurnOf(q), "answer")
      BY DEF CommitsOnLeaf
    <3>1. Undisturbed
      BY <1>1 DEF Undisturbed
    <3>2. ~OnFile(q)'
      <4>1. ~OnFile(r)'
        <5>1. handler[r] = "forwarding"
          BY <1>0, <1>1, <3>1, AloneOnFile DEF OnFile
        <5>2. prompt'[r] = "ended"
          BY <1>0, <1>6
        <5> QED BY <1>1, <5>1, <5>2 DEF OnFile, Active
      <4>2. OnFile(q) => q = r
        BY <1>0, <1>1, <3>1, AloneOnFile
      <4> QED BY <2>5, <4>1, <4>2
    <3>3. LeafView(file) = v
      <4>1. base = Leaf(file).entry
        BY <1>0, <1>1, <3>1 DEF CommitsOnLeaf, OnFile, base
      <4>2. LeafView(file) = Thread(file, Leaf(file).entry)
        BY <1>0, LatestTurns DEF FileInv
      <4> QED BY <4>1, <4>2 DEF v
    <3>4. Len(v) \in Nat
      BY <2>2
    <3>5. ASSUME verdict'[q] = "completed"
          PROVE  \E i \in 1..Len(LeafView(file')) :
                   LeafView(file')[i] = Message(TurnOf(q), "answer")
      <4>1. CASE q = r
        <5>1. Len(v) + 2 \in 1..Len(LeafView(file'))
          BY <2>3, <3>4
        <5> QED BY <2>3, <4>1, <5>1
      <4>2. CASE q # r
        <5>1. PICK i \in 1..Len(v) : v[i] = Message(TurnOf(q), "answer")
          BY <1>0, <2>8, <3>1, <3>3, <3>5, <4>2 DEF CommitsOnLeaf
        <5>2. i \in 1..Len(LeafView(file'))
          BY <2>3, <3>4
        <5> QED BY <2>3, <5>1, <5>2
      <4> QED BY <4>1, <4>2
    <3> QED BY <3>2, <3>5
  <2>10. ToldAfterCommit'
    <3>1. \A q \in Request : verdict[q] = "completed" => verdict'[q] = "completed"
      BY <1>0, <1>6
    <3> QED BY <1>0, <1>1, <3>1 DEF ToldAfterCommit
  <2> QED BY <2>7, <2>9, <2>10
<1> QED BY <1>0, <1>5, <1>6, AppendIs DEF n

\* Every step keeps the invariant.
LEMMA ServiceStep ==
  ASSUME ServiceInv, [Next]_vars
  PROVE  ServiceInv'
<1>1. LockInv'
  <2>1. CASE UNCHANGED vars
    BY <2>1 DEF vars, ServiceInv, LockInv, Shape, HolderHasToken, VerdictIsLast, TurnIsAwaited
  <2>2. ASSUME NEW r \in Request,
               HandlerStep(r) \/ Acquire(r) \/ PromptStep(r) \/ Disconnect(r)
        PROVE  LockInv'
    BY <2>2, DisconnectStep, AcquireStep, KeepsToken, OpenStep, UnlockStep, SessionStep
    DEF HandlerStep, ServiceInv
  <2> QED BY <2>1, <2>2 DEF Next
<1>2. FileInv' /\ CommitsOnLeaf' /\ ToldAfterCommit'
  <2>1. CASE UNCHANGED vars
    <3>1. UNCHANGED <<file, opened, cursor, prompt, handler, verdict, ctx, reply, touched>>
      BY <2>1 DEF vars
    <3>2. \A q \in Request : (OnFile(q)' => OnFile(q)) /\ (prompt'[q] = "append" => prompt[q] = "append")
      BY <3>1 DEF OnFile
    <3>3. FileInv'
      BY <3>1, <3>2, SameFile DEF ServiceInv, FileInv, FileTypes
    <3>4. CommitsOnLeaf'
      BY <3>1, <3>2, SameLeaf DEF ServiceInv, Undisturbed
    <3> QED BY <3>1, <3>3, <3>4 DEF ServiceInv, ToldAfterCommit
  <2>2. ASSUME NEW r \in Request,
               HandlerStep(r) \/ Acquire(r) \/ PromptStep(r) \/ Disconnect(r)
        PROVE  FileInv' /\ CommitsOnLeaf' /\ ToldAfterCommit'
    BY <2>2, RequestStep, OpenFile, StartTurn, RunStep, AppendTurn
    DEF HandlerStep, PromptStep
  <2> QED BY <2>1, <2>2 DEF Next
<1> QED BY <1>1, <1>2 DEF ServiceInv

\* The invariant holds throughout.
LEMMA ServiceInvariant == Spec => []ServiceInv
<1>1. Init => ServiceInv
  BY LockInit, FileInit DEF ServiceInv
<1> QED
  BY <1>1, ServiceStep, PTL DEF Spec

-----------------------------------------------------------------------------
(* The theorems about the file *)

\* Whatever turns overlap, the file always loads, to whole turns only
\* (storage.go, appendRun L296 and loadSessionState L154).
THEOREM FileStaysWhole == Spec => []LoadsWholeTurns
<1>1. ServiceInv => LoadsWholeTurns
  <2> SUFFICES ASSUME ServiceInv PROVE LoadsWholeTurns
    OBVIOUS
  <2>1. Load(file).ok /\ TurnsAreWhole(LeafView(file))
    BY LatestTurns DEF ServiceInv, FileInv
  <2>2. \A r \in Request : cursor[r].next \in 1..3 /\ cursor[r].last \in 0..Len(file)
    BY DEF ServiceInv, FileInv, FileTypes
  <2>3. TypeOK
    BY <2>1, <2>2 DEF ServiceInv, LockInv, Shape, FileInv, FileTypes, TypeOK
  <2> QED BY <2>1, <2>3 DEF LoadsWholeTurns
<1> QED
  BY ServiceInvariant, <1>1, PTL

\* A client that was told "done" finds its turn in the transcript ever after,
\* if no streaming client has gone away (service/session.go L453-460).
THEOREM DoneStays == Spec => []DoneIsKept
<1>1. ServiceInv => DoneIsKept
  BY DEF ServiceInv, CommitsOnLeaf, ToldAfterCommit, DoneIsKept
<1> QED
  BY ServiceInvariant, <1>1, PTL

\* And no step takes anything out of the committed transcript.
THEOREM NoTurnLost == Spec => ViewOnlyGrows
<1> DEFINE Extends == SubSeq(LeafView(file'), 1, Len(LeafView(file))) = LeafView(file)
<1>1. ASSUME ServiceInv, [Next]_vars PROVE [Undisturbed' => Extends]_vars
  <2>0. LeafView(file) \in Seq(MessageType)
    BY <1>1, LatestTurns DEF ServiceInv, FileInv
  <2>1. CASE UNCHANGED file
    <3>1. Extends
      BY <2>0, <2>1, SubSeqFull
    <3> QED BY <3>1
  <2>2. ASSUME NEW r \in Request, AppendLine(r), Undisturbed' PROVE Extends
    <3>1. FileInv /\ LockInv /\ CommitsOnLeaf /\ cursor[r].next \in 1..3
      BY <1>1 DEF ServiceInv, FileInv, FileTypes
    <3>2. CASE cursor[r].next \in 1..2
      <4>1. LeafView(file') = LeafView(file)
        BY <2>2, <3>1, <3>2, AppendView
      <4> QED BY <2>0, <4>1, SubSeqFull
    <3>3. CASE cursor[r].next = 3
      <4>1. Undisturbed /\ OnFile(r)
        BY <2>2, <3>1, AppendIs DEF Undisturbed, OnFile, Active
      <4>2. opened[r].parent = Leaf(file).entry
        BY <3>1, <4>1 DEF CommitsOnLeaf
      <4>3. LeafView(file) = Thread(file, opened[r].parent)
        BY <3>1, <4>2, LatestTurns DEF FileInv
      <4>4. LeafView(file') = Append(Append(LeafView(file), Turn(r)[1]), Turn(r)[2])
        BY <2>2, <3>1, <3>3, <4>3, AppendView
      <4>5. TurnsAreWhole(LeafView(file))
        BY <3>1 DEF FileInv
      <4> QED BY <2>0, <4>4, <4>5, TurnAdded
    <3> QED BY <3>1, <3>2, <3>3
  <2>3. CASE UNCHANGED vars
    BY <2>1, <2>3 DEF vars
  <2>4. CASE \E r \in Request :
               HandlerStep(r) \/ Acquire(r) \/ PromptStep(r) \/ Disconnect(r)
    <3>1. UNCHANGED file \/ \E r \in Request : AppendLine(r)
      BY <2>4 DEF HandlerStep, PromptStep, Acquire, Disconnect, Resolve, GiveUpLock, Open, Start,
                  Abandon, TakeVerdict, PersistSuccess, Unlock, RunCompletes, RunEnds, AppendFails
    <3> QED BY <2>1, <2>2, <3>1
  <2> QED BY <1>1, <2>3, <2>4 DEF Next
<1> QED
  BY ServiceInvariant, <1>1, PTL DEF Spec, ViewOnlyGrows

=============================================================================
