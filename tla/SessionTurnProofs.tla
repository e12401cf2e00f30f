-------------------------- MODULE SessionTurnProofs --------------------------
(***************************************************************************)
(* A Session and its file, for every bound on turns, messages and crashes, *)
(* with writes that fail between two lines but are never cut inside one:   *)
(* whatever runs fail, are canceled, cannot be written or are cut short by *)
(* a crash, the Session goes on from what a new process would load, and it *)
(* implements the log of whole turns.                                      *)
(***************************************************************************)
EXTENDS SessionTurn, TranscriptFileProofs

-----------------------------------------------------------------------------
(* The inductive invariant *)

View == LeafView(file)

\* No committed message is of a turn from k on.
NoneFrom(k) == \A i \in 1..Len(View) : View[i].turn \notin k..MaxTurns

DiskInv ==
  /\ Sound(file)
  /\ HasLeaf(file)
  /\ EndsATurn(Load(file).covers, View)
  /\ NoneFrom(turn + 1)

\* One role may follow the other in a turn.
Follows(role, next) ==
  \/ role \in {"user", "result"} /\ next \in {"call", "answer"}
  \/ role = "call" /\ next = "result"

\* After its first b messages, m has the beginning of turn t.
TurnFrom(m, b, t) ==
  /\ b < Len(m)
  /\ m[b + 1] = Message(t, "user")
  /\ \A i \in (b + 2)..Len(m) : m[i].turn = t /\ Follows(m[i - 1].role, m[i].role)

\* The summarized prefix, the summary and the position for the next append are
\* those of the file.
AsOnDisk ==
  /\ session.covered = Load(file).covers
  /\ session.summary = (Load(file).summary # 0)
  /\ store = StoreAt(Load(file))

\* The turn is not committed: the transcript is the committed one, followed by
\* what the turn has said, if anything of it is left.
Uncommitted ==
  /\ AsOnDisk
  /\ ~run.completed
  /\ run.base = Len(View)
  /\ run.base <= Len(session.messages)
  /\ \A i \in 1..run.base : session.messages[i] = View[i]
  /\ run.base < Len(session.messages) => TurnFrom(session.messages, run.base, turn)
  /\ NoneFrom(turn)

\* appendRun has written the messages before next, each linked to the one
\* before it, and the summary if it stands after that.
LinesWritten ==
  LET m == session.messages
  IN /\ run.last \in 1..Len(file)
     /\ file[run.last].kind = "message"
     /\ \/ /\ run.next \in (run.base + 1)..(Len(m) + 1)
           /\ Thread(file, run.last) = SubSeq(m, 1, run.next - 1)
           /\ run.entry = store.summary
        \/ /\ run.next = Len(m) + 2
           /\ run.pending
           /\ Thread(file, run.last) = m
           /\ run.entry \in 1..Len(file)
           /\ file[run.entry] = SummaryLine(run.last, TotalCovered)

\* The committed turn, before and after memory follows the file.
Committed ==
  /\ session.messages = View
  /\ TurnFrom(View, run.base, turn)
  /\ LastRole = "answer"

AtIdle == run.at = "idle" /\ ~session.active /\ session.messages = View /\ AsOnDisk

AtRunning ==
  run.at \in {"running", "emit"} /\ Uncommitted /\ run.base < Len(session.messages)

AtAppend ==
  /\ run.at = "append"
  /\ Uncommitted
  /\ run.base < Len(session.messages)
  /\ LastRole = "answer"
  /\ LinesWritten

AtCommit ==
  /\ run.at = "commit"
  /\ Committed
  /\ EndsATurn(session.covered, View)
  /\ store = StoreAt(Load(file))
  /\ Load(file).covers = TotalCovered
  /\ (Load(file).summary # 0) = (session.summary \/ run.pending)

AtEnd ==
  /\ run.at \in {"terminal", "discard", "release"}
  /\ \/ run.completed /\ run.verdict = "completed" /\ Committed /\ AsOnDisk
     \/ run.verdict \in {"failed", "canceled"} /\ Uncommitted
        /\ (run.at = "release" => session.messages = View)

\* Memory follows the file at every point of the turn.
Phase ==
  IF up THEN AtIdle \/ (session.active /\ (AtRunning \/ AtAppend \/ AtCommit \/ AtEnd))
        ELSE session = Opened(Nothing) /\ run = NoRun

SessionInv == TypeOK /\ DiskInv /\ MemoryIsCommitted /\ Phase

-----------------------------------------------------------------------------
(* What the file says *)

\* What a sound file with a leaf loads to.
LEMMA LoadedFacts ==
  ASSUME NEW f, Sound(f), HasLeaf(f)
  PROVE  LET l == Load(f)
         IN /\ l.ok
            /\ l.messages = LeafView(f) /\ LeafView(f) \in Seq(MessageType)
            /\ l.parent \in Nat /\ l.parent \in 1..Len(f) /\ f[l.parent].kind = "message"
            /\ Thread(f, l.parent) = LeafView(f)
            /\ l.summary \in Nat /\ l.covers \in Nat /\ l.covers <= Len(LeafView(f))
            /\ l.summary = 0 => l.covers = 0
            /\ l.summary # 0 =>
                 /\ l.summary \in 1..Len(f)
                 /\ f[l.summary].kind = "summary"
                 /\ l.covers = f[l.summary].covers
<1> DEFINE e == Leaf(f).entry
           k == Leaf(f).summary
<1>1. /\ Load(f).ok
      /\ Load(f).messages = Thread(f, e) /\ LeafView(f) = Thread(f, e)
      /\ Load(f).parent = e /\ e \in 1..Len(f) /\ f[e].kind = "message"
      /\ Load(f).summary = k
      /\ Load(f).covers = IF k = 0 THEN 0 ELSE f[k].covers
      /\ LeafIsSound(f, LatestLeaf(f))
  BY LoadSound
<1>2. f \in Seq(LineType) /\ Linked(f) /\ LinksToMessages(f) /\ Len(f) \in Nat
  BY DEF Sound, WholeLines
<1>3. LatestLeaf(f) \in 1..Len(f)
  BY <1>2, LatestLeafIs
<1>4. e \in 0..Len(f) /\ e \in Nat
  BY <1>1, <1>2
<1>5. Thread(f, e) \in Seq(MessageType) /\ Len(Thread(f, e)) \in Nat
  BY <1>1, <1>2, <1>4, ThreadType
<1>6. k \in Nat
  <2>1. Leaf(f) \in LineType
    BY <1>2, <1>3 DEF Leaf
  <2> QED BY <2>1 DEF LineType
<1>7. ASSUME k # 0
      PROVE  /\ k \in 1..Len(f) /\ f[k].kind = "summary"
             /\ f[k].covers \in Nat /\ f[k].covers <= Len(Thread(f, e))
  <2>1. k \in 1..(LatestLeaf(f) - 1) /\ f[k].kind = "summary" /\ f[k].covers <= Len(Thread(f, e))
    BY <1>1, <1>7 DEF LeafIsSound, Leaf
  <2>2. k \in 1..Len(f)
    BY <1>2, <1>3, <2>1
  <2>3. f[k].covers \in Nat
    <3>1. f[k] \in LineType
      BY <1>2, <2>2
    <3> QED BY <3>1 DEF LineType
  <2> QED BY <2>1, <2>2, <2>3
<1> HIDE DEF e, k
<1> QED BY <1>1, <1>4, <1>5, <1>6, <1>7

-----------------------------------------------------------------------------
(* Turns *)

\* A turn begins with the user's message.
LEMMA TurnBegins ==
  ASSUME NEW m \in Seq(MessageType), NEW t \in Nat
  PROVE  LET w == Append(m, Message(t, "user"))
         IN /\ w \in Seq(MessageType) /\ Len(w) = Len(m) + 1
            /\ \A i \in 1..Len(m) : w[i] = m[i]
            /\ TurnFrom(w, Len(m), t)
<1>1. Message(t, "user") \in MessageType
  BY DEF Message, MessageType, Roles
<1>2. Len(m) \in Nat
  OBVIOUS
<1> QED BY <1>1, <1>2, AppendProperties DEF TurnFrom

\* And goes on with what may follow its last message.
LEMMA TurnGrows ==
  ASSUME NEW m \in Seq(MessageType), NEW t \in Nat, NEW b \in Nat, TurnFrom(m, b, t),
         NEW role, Follows(m[Len(m)].role, role)
  PROVE  LET w == Append(m, Message(t, role))
         IN /\ w \in Seq(MessageType) /\ Len(w) = Len(m) + 1
            /\ \A i \in 1..Len(m) : w[i] = m[i]
            /\ TurnFrom(w, b, t)
<1> DEFINE w == Append(m, Message(t, role))
           n == Len(m)
<1>1. Message(t, role) \in MessageType
  BY DEF Message, MessageType, Roles, Follows
<1>2. n \in Nat /\ w \in Seq(MessageType) /\ Len(w) = n + 1
      /\ (\A i \in 1..n : w[i] = m[i]) /\ w[n + 1] = Message(t, role)
  BY <1>1, AppendProperties
<1> HIDE DEF w
<1>3. b < n /\ m[b + 1] = Message(t, "user")
  BY DEF TurnFrom
<1>4. w[b + 1] = Message(t, "user")
  <2>1. b + 1 \in 1..n
    BY <1>2, <1>3
  <2> QED BY <1>2, <1>3, <2>1
<1>5. ASSUME NEW i \in (b + 2)..(n + 1) PROVE w[i].turn = t /\ Follows(w[i - 1].role, w[i].role)
  <2>1. CASE i = n + 1
    <3>1. i - 1 = n /\ n \in 1..n
      BY <1>2, <1>3, <2>1
    <3>2. w[i - 1] = m[n] /\ w[i] = Message(t, role)
      BY <1>2, <2>1, <3>1
    <3> QED BY <3>2 DEF Message
  <2>2. CASE i # n + 1
    <3>1. i \in (b + 2)..n /\ i \in 1..n /\ i - 1 \in 1..n
      BY <1>2, <1>3, <2>2
    <3>2. w[i - 1] = m[i - 1] /\ w[i] = m[i]
      BY <1>2, <3>1
    <3> QED BY <3>1, <3>2 DEF TurnFrom
  <2> QED BY <2>1, <2>2
<1>6. TurnFrom(w, b, t)
  BY <1>2, <1>3, <1>4, <1>5 DEF TurnFrom
<1> QED BY <1>2, <1>6 DEF w

\* A turn that ends with an answer is whole.
LEMMA TurnIsWhole ==
  ASSUME NEW m \in Seq(MessageType), NEW t \in Nat, NEW b \in Nat, TurnFrom(m, b, t),
         m[Len(m)].role = "answer"
  PROVE  WholeTurn(SubSeq(m, b + 1, Len(m)))
<1> DEFINE s == SubSeq(m, b + 1, Len(m))
           n == Len(m)
           l == Len(s)
<1>1. n \in Nat /\ b < n /\ m[b + 1] = Message(t, "user")
      /\ \A i \in (b + 2)..n : m[i].turn = t /\ Follows(m[i - 1].role, m[i].role)
  BY DEF TurnFrom
<1>2. s \in Seq(MessageType) /\ l = n - b /\ \A i \in 1..(n - b) : s[i] = m[i + b]
  <2>1. b + 1 \in 1..(n + 1)
    BY <1>1
  <2>2. /\ s \in Seq(MessageType)
        /\ Len(s) = n - (b + 1) + 1
        /\ \A i \in 1..(n - (b + 1) + 1) : s[i] = m[(b + 1) + i - 1]
    BY <1>1
  <2>3. n - (b + 1) + 1 = n - b /\ \A i \in 1..(n - b) : (b + 1) + i - 1 = i + b
    BY <1>1
  <2> QED BY <2>2, <2>3
<1> HIDE DEF s
<1>3. m[b + 1].role = "user" /\ m[b + 1].turn = t
  BY <1>1 DEF Message
<1>4. l >= 2
  <2>1. n # b + 1
    BY <1>3
  <2> QED BY <1>1, <1>2, <2>1
<1>5. s[1] = m[b + 1] /\ s[l] = m[n]
  <2>1. 1 \in 1..(n - b) /\ 1 + b = b + 1 /\ n - b \in 1..(n - b) /\ (n - b) + b = n
    BY <1>1
  <2> QED BY <1>2, <2>1
<1>6. ASSUME NEW i \in 2..l PROVE s[i].turn = t /\ Follows(s[i - 1].role, s[i].role)
  <2>0. i \in Nat /\ 2 <= i /\ i <= n - b /\ n - b \in Nat
    <3>1. n - b \in Nat
      BY <1>1
    <3> QED BY <1>2, <3>1
  <2>a. i \in 1..(n - b) /\ i - 1 \in 1..(n - b)
    BY <2>0
  <2>b. i + b \in (b + 2)..n
    BY <1>1, <2>0
  <2>c. (i - 1) + b = (i + b) - 1
    BY <2>0
  <2>1. i \in 1..(n - b) /\ i - 1 \in 1..(n - b) /\ i + b \in (b + 2)..n /\ (i - 1) + b = (i + b) - 1
    BY <2>a, <2>b, <2>c
  <2>2. s[i] = m[i + b] /\ s[i - 1] = m[(i + b) - 1]
    BY <1>2, <2>1
  <2> QED BY <1>1, <2>1, <2>2
<1>7. l \in Nat
  BY <1>1, <1>2
<1>8. \A i \in 1..l : s[i].turn = s[1].turn
  <2> SUFFICES ASSUME NEW i \in 1..l PROVE s[i].turn = s[1].turn
    OBVIOUS
  <2>1. i = 1 \/ i \in 2..l
    BY <1>7
  <2> QED BY <1>3, <1>5, <1>6, <2>1
<1>9. \A i \in 2..(l - 1) : s[i].role \in {"call", "result"}
  <2> SUFFICES ASSUME NEW i \in 2..(l - 1) PROVE s[i].role \in {"call", "result"}
    OBVIOUS
  <2>1. i \in 2..l /\ i + 1 \in 2..l /\ (i + 1) - 1 = i
    BY <1>7
  <2>2. Follows(s[i - 1].role, s[i].role) /\ Follows(s[i].role, s[i + 1].role)
    BY <1>6, <2>1
  <2> QED BY <2>2 DEF Follows
<1>10. Acceptable(s)
  <2> SUFFICES ASSUME NEW i \in 1..l
               PROVE  /\ s[i].role = "call" => i < l /\ s[i + 1].role = "result"
                      /\ s[i].role = "result" => i > 1 /\ s[i - 1].role = "call"
    BY DEF Acceptable
  <2>1. ASSUME s[i].role = "call" PROVE i < l /\ s[i + 1].role = "result"
    <3>1. i # l
      BY <1>5, <2>1
    <3>2. i < l /\ i + 1 \in 2..l /\ (i + 1) - 1 = i
      BY <1>7, <3>1
    <3>3. Follows(s[i].role, s[i + 1].role)
      BY <1>6, <3>2
    <3> QED BY <2>1, <3>2, <3>3 DEF Follows
  <2>2. ASSUME s[i].role = "result" PROVE i > 1 /\ s[i - 1].role = "call"
    <3>1. i # 1
      BY <1>3, <1>5, <2>2
    <3>2. i > 1 /\ i \in 2..l
      BY <1>7, <3>1
    <3>3. Follows(s[i - 1].role, s[i].role)
      BY <1>6, <3>2
    <3> QED BY <2>2, <3>2, <3>3 DEF Follows
  <2> QED BY <2>1, <2>2
<1> QED BY <1>3, <1>4, <1>5, <1>8, <1>9, <1>10 DEF WholeTurn, s

-----------------------------------------------------------------------------
(* Where the turn stands *)

\* The types and facts that the steps use.
LEMMA StateFacts ==
  ASSUME SessionInv
  PROVE  /\ session \in [messages : Seq(MessageType), covered : Nat, summary : BOOLEAN,
                         memory : Nat, active : BOOLEAN]
         /\ store \in [parent : Nat, summary : Nat]
         /\ turn \in Nat /\ turn \in 0..MaxTurns /\ MaxTurns \in Nat
         /\ run \in [at : RunPoints, base : Nat, pending : BOOLEAN, candidates : BOOLEAN,
                     next : Nat, last : Nat, entry : Nat,
                     verdict : {"none", "completed", "failed", "canceled"},
                     completed : BOOLEAN]
         /\ Len(session.messages) \in Nat
         /\ View \in Seq(MessageType) /\ Len(View) \in Nat
         /\ Load(file).ok /\ Load(file).messages = View
         /\ Load(file).covers \in Nat /\ Load(file).covers <= Len(View)
<1>1. MaxTurns \in Nat
  BY SessionAssumption
<1>2. Sound(file) /\ HasLeaf(file) /\ TypeOK
  BY DEF SessionInv, DiskInv
<1> QED BY <1>1, <1>2, LoadedFacts DEF TypeOK, View

\* A summary that is pending covers everything before the turn.
LEMMA PendingCoversAll ==
  ASSUME SessionInv, Uncommitted, run.base < Len(session.messages)
  PROVE  TotalCovered = IF run.pending THEN run.base ELSE session.covered
<1> DEFINE m == session.messages
           b == run.base
           c == session.covered
<1>1. m \in Seq(MessageType) /\ b \in Nat /\ c \in Nat /\ c <= b /\ b < Len(m)
  BY StateFacts DEF Uncommitted, AsOnDisk
<1>2. Len(SubSeq(m, c + 1, b + 1)) = b + 1 - c
  <2> HIDE DEF m, b, c
  <2>1. c + 1 \in 1..(Len(m) + 1) /\ b + 1 \in 0..Len(m) /\ c + 1 <= b + 1
    BY <1>1
  <2>2. (b + 1) - (c + 1) + 1 = b + 1 - c
    BY <1>1
  <2> QED BY <1>1, <2>1, <2>2
<1>3. Snapshot = SubSeq(m, c + 1, b + 1)
  BY DEF Snapshot
<1>4. Replaced = b - c
  BY <1>1, <1>2, <1>3 DEF Replaced
<1>5. c + (b - c) = b /\ c + 0 = c
  BY <1>1
<1> QED BY <1>4, <1>5 DEF TotalCovered

\* The points of the program, apart.
LEMMA PhaseAt ==
  ASSUME Phase, up
  PROVE  /\ run.at = "idle" => AtIdle
         /\ run.at # "idle" => session.active
         /\ run.at \in {"running", "emit"} => AtRunning
         /\ run.at = "append" => AtAppend
         /\ run.at = "commit" => AtCommit
         /\ run.at \in {"terminal", "discard", "release"} => AtEnd
         /\ session.active => run.at # "idle"
BY DEF Phase, AtIdle, AtRunning, AtAppend, AtCommit, AtEnd

\* What a turn has said is dropped again, and with it every trace of the turn.
LEMMA DiscardRestores ==
  ASSUME SessionInv, Uncommitted
  PROVE  /\ Discarded = [session EXCEPT !.messages = View]
         /\ SubSeq(session.messages, 1, run.base) = View
<1> DEFINE m == session.messages
           b == run.base
<1>1. m \in Seq(MessageType) /\ b \in Nat /\ b <= Len(m) /\ View \in Seq(MessageType)
      /\ b = Len(View) /\ \A i \in 1..b : m[i] = View[i]
  BY StateFacts DEF Uncommitted
<1> HIDE DEF m, b
<1>2. SubSeq(m, 1, b) \in Seq(MessageType) /\ Len(SubSeq(m, 1, b)) = b
      /\ \A i \in 1..b : SubSeq(m, 1, b)[i] = m[i]
  BY <1>1
<1>3. SubSeq(m, 1, b) = View
  BY <1>1, <1>2, SeqEqual
<1> QED BY <1>3 DEF Discarded, m, b

\* Steps that leave the file and the turn's number alone leave what is on disk.
LEMMA SameDisk ==
  ASSUME DiskInv, UNCHANGED <<file, turn>>
  PROVE  DiskInv'
BY DEF DiskInv, NoneFrom, View

\* An uncommitted turn stays so while the transcript and the store do.
LEMMA StaysUncommitted ==
  ASSUME Uncommitted, UNCHANGED <<file, store, turn>>,
         session'.covered = session.covered, session'.summary = session.summary,
         session'.messages = session.messages,
         run'.base = run.base, run'.completed = run.completed
  PROVE  Uncommitted'
BY DEF Uncommitted, AsOnDisk, NoneFrom, View

\* The transcript goes back to the committed one.
LEMMA DiscardedIsUncommitted ==
  ASSUME SessionInv, Uncommitted, UNCHANGED <<file, store, turn>>,
         session' = Discarded, run'.base = run.base, run'.completed = run.completed
  PROVE  Uncommitted' /\ session'.messages = View /\ session'.active = session.active
         /\ session'.memory = session.memory
<1>1. session' = [session EXCEPT !.messages = View]
  BY DiscardRestores
<1>2. /\ session'.messages = View /\ session'.covered = session.covered
      /\ session'.summary = session.summary /\ session'.active = session.active
      /\ session'.memory = session.memory
  BY <1>1, StateFacts
<1>3. Len(View) \in Nat
  BY StateFacts
<1> QED BY <1>2, <1>3 DEF Uncommitted, AsOnDisk, NoneFrom, View

-----------------------------------------------------------------------------
(* Steps that write nothing *)

\* The caller cancels or drains its channel; events are passed on.
LEMMA PassingStep ==
  ASSUME SessionInv, Cancel \/ Receive \/ EmitEvent \/ RuntimeOther
  PROVE  SessionInv'
<1>1. /\ UNCHANGED <<file, up, session, store, turn, told, crashes>>
      /\ \/ UNCHANGED run
         \/ run.at = "emit" /\ run' = [run EXCEPT !.at = "running"]
         \/ run.at = "running" /\ run' = [run EXCEPT !.at = "emit"]
  BY DEF Cancel, Receive, EmitEvent, RuntimeOther, Running, memory
<1>2. up
  BY DEF Cancel, Receive, EmitEvent, RuntimeOther, Running
<1>3. out' \in Seq({"event", "completed", "failed", "canceled"}) /\ Len(out') <= OutCap
  <2>1. out \in Seq({"event", "completed", "failed", "canceled"}) /\ Len(out) <= OutCap
        /\ OutCap \in Nat
    BY SessionAssumption DEF SessionInv, TypeOK
  <2>2. CASE UNCHANGED out
    BY <2>1, <2>2
  <2>3. CASE out # <<>> /\ out' = Tail(out)
    BY <2>1, <2>3, HeadTailProperties
  <2>4. CASE OutHasRoom /\ out' = Append(out, "event")
    BY <2>1, <2>4, AppendProperties DEF OutHasRoom
  <2> QED BY <2>2, <2>3, <2>4 DEF Cancel, Receive, EmitEvent, RuntimeOther
<1>4. ctx' \in {"live", "done"}
  BY DEF Cancel, Receive, EmitEvent, RuntimeOther, SessionInv, TypeOK
<1>5. TypeOK'
  <2>1. run' \in [at : RunPoints, base : Nat, pending : BOOLEAN, candidates : BOOLEAN,
                  next : Nat, last : Nat, entry : Nat,
                  verdict : {"none", "completed", "failed", "canceled"},
                  completed : BOOLEAN]
    BY <1>1, StateFacts DEF RunPoints
  <2> QED BY <1>1, <1>3, <1>4, <2>1 DEF SessionInv, TypeOK
<1>6. DiskInv' /\ MemoryIsCommitted'
  BY <1>1, SameDisk DEF SessionInv, MemoryIsCommitted
<1>7. Phase'
  <2>1. CASE UNCHANGED run
    BY <1>1, <2>1 DEF SessionInv, Phase, AtIdle, AtRunning, AtAppend, AtCommit, AtEnd, Uncommitted,
         AsOnDisk, NoneFrom, View, LinesWritten, Committed, LastRole, TotalCovered, Replaced, Snapshot
  <2>2. CASE \/ run.at = "emit" /\ run' = [run EXCEPT !.at = "running"]
             \/ run.at = "running" /\ run' = [run EXCEPT !.at = "emit"]
    <3>1. AtRunning /\ session.active
      BY <1>2, <2>2, PhaseAt DEF SessionInv
    <3>2. run'.at \in {"running", "emit"} /\ run'.base = run.base /\ run'.completed = run.completed
      BY <2>2, StateFacts
    <3>3. Uncommitted'
      BY <1>1, <3>1, <3>2, StaysUncommitted DEF AtRunning
    <3> QED BY <1>1, <1>2, <3>1, <3>2, <3>3 DEF Phase, AtRunning
  <2> QED BY <1>1, <2>1, <2>2
<1> QED BY <1>5, <1>6, <1>7 DEF SessionInv

\* A message of the run joins the transcript.
LEMMA MessageStep ==
  ASSUME SessionInv, RuntimeMessage
  PROVE  SessionInv'
<1> DEFINE m == session.messages
           b == run.base
<1>1. /\ up /\ run.at = "running"
      /\ run' = [run EXCEPT !.at = "emit"]
      /\ UNCHANGED <<file, up, store, turn, ctx, out, told, crashes>>
  BY DEF RuntimeMessage, Running
<1>2. PICK role \in NextRoles : session' = [session EXCEPT !.messages = Append(@, Message(turn, role))]
  BY DEF RuntimeMessage
<1>3. Follows(LastRole, role)
  BY <1>2 DEF NextRoles, Follows
<1>4. AtRunning /\ session.active
  BY <1>1, PhaseAt DEF SessionInv
<1>5. /\ session.messages \in Seq(MessageType) /\ turn \in Nat /\ b \in Nat /\ b < Len(m)
      /\ TurnFrom(m, b, turn)
  BY <1>4, StateFacts DEF AtRunning, Uncommitted
<1> DEFINE w == Append(m, Message(turn, role))
<1>6. /\ w \in Seq(MessageType) /\ Len(w) = Len(m) + 1
      /\ \A i \in 1..Len(m) : w[i] = m[i]
      /\ TurnFrom(w, b, turn)
  BY <1>3, <1>5, TurnGrows DEF LastRole
<1> HIDE DEF w
<1>7. /\ session' = [session EXCEPT !.messages = w]
      /\ session'.messages = w /\ session'.covered = session.covered
      /\ session'.summary = session.summary /\ session'.active = session.active
      /\ session'.memory = session.memory
  <2>1. session' = [session EXCEPT !.messages = w]
    BY <1>2 DEF w
  <2> QED BY <2>1, StateFacts
<1>8. run'.at = "emit" /\ run'.base = b /\ run'.completed = run.completed
  BY <1>1, StateFacts
<1>9. Len(m) \in Nat /\ b <= Len(m)
  BY <1>5
<1>10. Uncommitted'
  <2>1. \A i \in 1..b : w[i] = View[i]
    BY <1>4, <1>5, <1>6, <1>9 DEF AtRunning, Uncommitted
  <2>2. b < Len(w) /\ b <= Len(w)
    BY <1>5, <1>6, <1>9
  <2> QED BY <1>1, <1>4, <1>6, <1>7, <1>8, <2>1, <2>2 DEF AtRunning, Uncommitted, AsOnDisk, NoneFrom, View
<1>11. TypeOK'
  <2>1. session' \in [messages : Seq(MessageType), covered : Nat, summary : BOOLEAN,
                      memory : Nat, active : BOOLEAN]
    BY <1>6, <1>7, StateFacts
  <2>2. run' \in [at : RunPoints, base : Nat, pending : BOOLEAN, candidates : BOOLEAN,
                  next : Nat, last : Nat, entry : Nat,
                  verdict : {"none", "completed", "failed", "canceled"},
                  completed : BOOLEAN]
    BY <1>1, StateFacts DEF RunPoints
  <2> QED BY <1>1, <2>1, <2>2 DEF SessionInv, TypeOK
<1>12. DiskInv' /\ MemoryIsCommitted'
  BY <1>1, <1>7, SameDisk DEF SessionInv, MemoryIsCommitted
<1>13. b < Len(w)
  BY <1>5, <1>6, <1>9
<1>14. Phase'
  BY <1>1, <1>4, <1>7, <1>8, <1>10, <1>13 DEF Phase, AtRunning
<1> QED BY <1>11, <1>12, <1>14 DEF SessionInv

\* The run proposes a summary or memory candidates, or fails.
LEMMA ProposalStep ==
  ASSUME SessionInv, RuntimeSummary \/ RuntimeMemory \/ RuntimeEnds
  PROVE  SessionInv'
<1>1. /\ up /\ run.at = "running"
      /\ UNCHANGED <<file, up, session, store, turn, ctx, out, told, crashes>>
      /\ \/ run' = [run EXCEPT !.pending = TRUE]
         \/ run' = [run EXCEPT !.candidates = TRUE]
         \/ run' = [run EXCEPT !.at = "terminal", !.verdict = "failed"]
         \/ run' = [run EXCEPT !.at = "terminal", !.verdict = "canceled"]
  BY DEF RuntimeSummary, RuntimeMemory, RuntimeEnds, Running, memory
<1>2. AtRunning /\ session.active
  BY <1>1, PhaseAt DEF SessionInv
<1>3. /\ run' \in [at : RunPoints, base : Nat, pending : BOOLEAN, candidates : BOOLEAN,
                  next : Nat, last : Nat, entry : Nat,
                  verdict : {"none", "completed", "failed", "canceled"},
                  completed : BOOLEAN]
      /\ run'.base = run.base /\ run'.completed = run.completed
      /\ \/ run'.at = "running"
         \/ run'.at = "terminal" /\ run'.verdict \in {"failed", "canceled"}
  BY <1>1, StateFacts DEF RunPoints
<1>4. TypeOK' /\ DiskInv' /\ MemoryIsCommitted'
  BY <1>1, <1>3, SameDisk DEF SessionInv, TypeOK, MemoryIsCommitted
<1>5. Uncommitted'
  BY <1>1, <1>2, <1>3, StaysUncommitted DEF AtRunning
<1>6. Phase'
  BY <1>1, <1>2, <1>3, <1>5 DEF Phase, AtRunning, AtEnd
<1> QED BY <1>4, <1>6 DEF SessionInv

\* The run completes: its append begins where the file was left.
LEMMA CompletedStep ==
  ASSUME SessionInv, RuntimeCompleted
  PROVE  SessionInv'
<1> DEFINE b == run.base
           m == session.messages
<1>1. /\ up /\ run.at = "running" /\ LastRole = "answer"
      /\ UNCHANGED <<file, up, store, turn, ctx, out, told, crashes>>
      /\ \/ session' = Discarded /\ run' = [run EXCEPT !.at = "terminal", !.verdict = "failed"]
         \/ UNCHANGED session /\ run' = [run EXCEPT !.at = "append", !.next = run.base + 1,
                                                    !.last = store.parent, !.entry = store.summary]
  BY DEF RuntimeCompleted, Running
<1>2. AtRunning /\ session.active /\ Uncommitted
  BY <1>1, PhaseAt DEF SessionInv, AtRunning
<1>3. CASE session' = Discarded /\ run' = [run EXCEPT !.at = "terminal", !.verdict = "failed"]
  <2>1. /\ run' \in [at : RunPoints, base : Nat, pending : BOOLEAN, candidates : BOOLEAN,
                  next : Nat, last : Nat, entry : Nat,
                  verdict : {"none", "completed", "failed", "canceled"},
                  completed : BOOLEAN]
        /\ run'.base = run.base /\ run'.completed = run.completed
        /\ run'.at = "terminal" /\ run'.verdict \in {"failed", "canceled"}
    BY <1>3, StateFacts DEF RunPoints
  <2>2. Uncommitted' /\ session'.active /\ session'.memory = session.memory
    BY <1>1, <1>2, <1>3, <2>1, DiscardedIsUncommitted
  <2>3. session' \in [messages : Seq(MessageType), covered : Nat, summary : BOOLEAN,
                      memory : Nat, active : BOOLEAN]
    BY <1>2, <1>3, StateFacts, DiscardRestores
  <2>4. TypeOK' /\ DiskInv' /\ MemoryIsCommitted'
    BY <1>1, <2>1, <2>2, <2>3, SameDisk DEF SessionInv, TypeOK, MemoryIsCommitted
  <2> QED BY <1>1, <2>1, <2>2, <2>4 DEF SessionInv, Phase, AtEnd
<1>4. CASE UNCHANGED session /\ run' = [run EXCEPT !.at = "append", !.next = run.base + 1,
                                                   !.last = store.parent, !.entry = store.summary]
  <2>1. /\ b \in Nat /\ b < Len(m) /\ b = Len(View)
        /\ store \in [parent : Nat, summary : Nat] /\ store.parent = Load(file).parent
    BY <1>2, StateFacts DEF AtRunning, Uncommitted, AsOnDisk, StoreAt
  <2>2. /\ run' \in [at : RunPoints, base : Nat, pending : BOOLEAN, candidates : BOOLEAN,
                  next : Nat, last : Nat, entry : Nat,
                  verdict : {"none", "completed", "failed", "canceled"},
                  completed : BOOLEAN]
        /\ run'.base = run.base /\ run'.completed = run.completed
        /\ run'.at = "append" /\ run'.next = b + 1
        /\ run'.last = store.parent /\ run'.entry = store.summary
    <3>1. run.base + 1 \in Nat /\ store.parent \in Nat /\ store.summary \in Nat /\ "append" \in RunPoints
      BY <2>1 DEF RunPoints
    <3> HIDE DEF RunPoints
    <3> QED BY <1>4, <3>1, StateFacts
  <2>3. TypeOK' /\ DiskInv' /\ MemoryIsCommitted'
    BY <1>1, <1>4, <2>2, SameDisk DEF SessionInv, TypeOK, MemoryIsCommitted
  <2>4. Uncommitted'
    BY <1>1, <1>2, <1>4, <2>2, StaysUncommitted
  <2>5. Load(file).parent \in 1..Len(file) /\ file[Load(file).parent].kind = "message"
        /\ Thread(file, Load(file).parent) = View
    BY LoadedFacts DEF SessionInv, DiskInv, View
  <2>6. SubSeq(m, 1, (b + 1) - 1) = View
    <3>1. (b + 1) - 1 = b
      BY <2>1
    <3> QED BY <1>2, <3>1, DiscardRestores
  <2>7. b + 1 \in (b + 1)..(Len(m) + 1)
    <3>1. Len(m) \in Nat
      BY StateFacts
    <3> QED BY <2>1, <3>1
  <2>8. LinesWritten'
    BY <1>1, <1>4, <2>1, <2>2, <2>5, <2>6, <2>7 DEF LinesWritten
  <2>9. AtAppend'
    BY <1>1, <1>4, <2>1, <2>2, <2>4, <2>8 DEF AtAppend, LastRole
  <2> QED BY <1>1, <1>2, <1>4, <2>3, <2>9 DEF SessionInv, Phase
<1> QED BY <1>1, <1>3, <1>4

\* A write fails and leaves nothing of its line.
LEMMA FailureStep ==
  ASSUME SessionInv, ~CanTear, WriteFails
  PROVE  SessionInv'
<1>1. /\ up /\ run.at = "append"
      /\ session' = Discarded
      /\ run' = [run EXCEPT !.at = "terminal", !.verdict = "failed"]
      /\ UNCHANGED <<file, up, store, turn, ctx, out, told, crashes>>
  BY DEF WriteFails, Appending, Remains
<1>2. AtAppend /\ session.active /\ Uncommitted
  BY <1>1, PhaseAt DEF SessionInv, AtAppend
<1>3. /\ run' \in [at : RunPoints, base : Nat, pending : BOOLEAN, candidates : BOOLEAN,
                next : Nat, last : Nat, entry : Nat,
                verdict : {"none", "completed", "failed", "canceled"},
                completed : BOOLEAN]
      /\ run'.base = run.base /\ run'.completed = run.completed
      /\ run'.at = "terminal" /\ run'.verdict \in {"failed", "canceled"}
  BY <1>1, StateFacts DEF RunPoints
<1>4. Uncommitted' /\ session'.active /\ session'.memory = session.memory
  BY <1>1, <1>2, <1>3, DiscardedIsUncommitted
<1>5. session' \in [messages : Seq(MessageType), covered : Nat, summary : BOOLEAN,
                    memory : Nat, active : BOOLEAN]
  BY <1>1, <1>2, StateFacts, DiscardRestores
<1>6. TypeOK' /\ DiskInv' /\ MemoryIsCommitted'
  BY <1>1, <1>3, <1>4, <1>5, SameDisk DEF SessionInv, TypeOK, MemoryIsCommitted
<1> QED BY <1>1, <1>3, <1>4, <1>6 DEF SessionInv, Phase, AtEnd

\* Memory follows the file after the leaf.
LEMMA CommitStep ==
  ASSUME SessionInv, CommitTurn
  PROVE  SessionInv'
<1> DEFINE s == [session EXCEPT !.memory = IF run.candidates THEN turn ELSE 0,
                                !.summary = @ \/ run.pending,
                                !.covered = TotalCovered]
<1>1. /\ up /\ run.at = "commit"
      /\ session' = s
      /\ run' = [run EXCEPT !.at = "terminal", !.verdict = "completed", !.completed = TRUE]
      /\ UNCHANGED <<file, up, store, turn, ctx, out, told, crashes>>
  BY DEF CommitTurn
<1>2. AtCommit /\ session.active
  BY <1>1, PhaseAt DEF SessionInv
<1>3. TotalCovered \in Nat /\ TotalCovered = Load(file).covers
  BY <1>2, StateFacts DEF AtCommit
<1>4. /\ session' \in [messages : Seq(MessageType), covered : Nat, summary : BOOLEAN,
                       memory : Nat, active : BOOLEAN]
      /\ session'.messages = session.messages /\ session'.active = session.active
      /\ session'.covered = TotalCovered
      /\ session'.summary = (session.summary \/ run.pending)
      /\ session'.memory \in {0, turn}
  <2> HIDE DEF SessionInv
  <2>1. (session.summary \/ run.pending) \in BOOLEAN /\ (IF run.candidates THEN turn ELSE 0) \in {0, turn}
    BY StateFacts
  <2>2. (IF run.candidates THEN turn ELSE 0) \in Nat
    BY StateFacts
  <2> QED BY <1>1, <1>3, <2>1, <2>2, StateFacts
<1>5. /\ run' \in [at : RunPoints, base : Nat, pending : BOOLEAN, candidates : BOOLEAN,
                next : Nat, last : Nat, entry : Nat,
                verdict : {"none", "completed", "failed", "canceled"},
                completed : BOOLEAN]
      /\ run'.base = run.base /\ run'.completed /\ run'.at = "terminal" /\ run'.verdict = "completed"
  BY <1>1, StateFacts DEF RunPoints
<1>6. Committed'
  BY <1>1, <1>2, <1>4, <1>5 DEF AtCommit, Committed, LastRole, View
<1>7. AsOnDisk'
  BY <1>1, <1>2, <1>3, <1>4 DEF AtCommit, AsOnDisk
<1>8. TypeOK' /\ DiskInv'
  BY <1>1, <1>4, <1>5, SameDisk DEF SessionInv, TypeOK
<1>9. turn \in Answered(View)
  <2>1. /\ session.messages = View /\ View[Len(View)].role = "answer"
        /\ TurnFrom(View, run.base, turn) /\ run.base \in Nat /\ Len(View) \in Nat
    BY <1>2, StateFacts DEF AtCommit, Committed, LastRole
  <2>2. run.base < Len(View) /\ View[run.base + 1].role = "user"
    BY <2>1 DEF TurnFrom, Message
  <2>3. Len(View) \in (run.base + 2)..Len(View)
    BY <2>1, <2>2
  <2>4. View[Len(View)].turn = turn /\ Len(View) \in 1..Len(View)
    BY <2>1, <2>2, <2>3 DEF TurnFrom
  <2> QED BY <2>1, <2>4 DEF Answered
<1>10. MemoryIsCommitted'
  BY <1>1, <1>4, <1>9 DEF MemoryIsCommitted, View
<1>11. Phase'
  BY <1>1, <1>2, <1>4, <1>5, <1>6, <1>7 DEF Phase, AtEnd
<1> QED BY <1>8, <1>10, <1>11 DEF SessionInv

\* The terminal event goes out.
LEMMA TerminalStep ==
  ASSUME SessionInv, EmitTerminal
  PROVE  SessionInv'
<1>1. /\ up /\ run.at = "terminal" /\ Len(out) < OutCap
      /\ out' = Append(out, run.verdict)
      /\ told' = IF run.verdict = "completed" THEN told \cup {turn} ELSE told
      /\ run' = [run EXCEPT !.at = "discard"]
      /\ UNCHANGED <<file, up, session, store, turn, ctx, crashes>>
  BY DEF EmitTerminal, OutHasRoom, memory
<1>2. AtEnd /\ session.active
  BY <1>1, PhaseAt DEF SessionInv
<1>3. /\ run' \in [at : RunPoints, base : Nat, pending : BOOLEAN, candidates : BOOLEAN,
                next : Nat, last : Nat, entry : Nat,
                verdict : {"none", "completed", "failed", "canceled"},
                completed : BOOLEAN]
      /\ run'.base = run.base /\ run'.completed = run.completed
      /\ run'.at = "discard" /\ run'.verdict = run.verdict
  BY <1>1, StateFacts DEF RunPoints
<1>4. out' \in Seq({"event", "completed", "failed", "canceled"}) /\ Len(out') <= OutCap
  <2>1. out \in Seq({"event", "completed", "failed", "canceled"}) /\ OutCap \in Nat
    BY SessionAssumption DEF SessionInv, TypeOK
  <2>2. run.verdict \in {"event", "completed", "failed", "canceled"}
    BY <1>2 DEF AtEnd
  <2> QED BY <1>1, <2>1, <2>2, AppendProperties
<1>5. told' \in SUBSET Nat
  BY <1>1, StateFacts DEF SessionInv, TypeOK
<1>6. TypeOK' /\ DiskInv' /\ MemoryIsCommitted'
  BY <1>1, <1>3, <1>4, <1>5, SameDisk DEF SessionInv, TypeOK, MemoryIsCommitted
<1>7. Uncommitted => Uncommitted'
  BY <1>1, <1>3, StaysUncommitted
<1>8. Committed /\ AsOnDisk => Committed' /\ AsOnDisk'
  BY <1>1, <1>3 DEF Committed, AsOnDisk, View, LastRole
<1>9. Phase'
  BY <1>1, <1>2, <1>3, <1>7, <1>8 DEF Phase, AtEnd
<1> QED BY <1>6, <1>9 DEF SessionInv

\* The cleanup takes back what is not committed.
LEMMA RollbackStep ==
  ASSUME SessionInv, Rollback
  PROVE  SessionInv'
<1>1. /\ up /\ run.at = "discard"
      /\ session' = IF run.completed THEN session ELSE Discarded
      /\ ctx' = "done"
      /\ run' = [run EXCEPT !.at = "release"]
      /\ UNCHANGED <<file, up, store, turn, out, told, crashes>>
  BY DEF Rollback
<1>2. AtEnd /\ session.active
  BY <1>1, PhaseAt DEF SessionInv
<1>3. /\ run' \in [at : RunPoints, base : Nat, pending : BOOLEAN, candidates : BOOLEAN,
                next : Nat, last : Nat, entry : Nat,
                verdict : {"none", "completed", "failed", "canceled"},
                completed : BOOLEAN]
      /\ run'.base = run.base /\ run'.completed = run.completed
      /\ run'.at = "release" /\ run'.verdict = run.verdict
  BY <1>1, StateFacts DEF RunPoints
<1>4. CASE run.completed
  <2>1. Committed /\ AsOnDisk /\ run.verdict = "completed" /\ UNCHANGED session
    BY <1>1, <1>2, <1>4 DEF AtEnd, Uncommitted
  <2>2. TypeOK' /\ DiskInv' /\ MemoryIsCommitted'
    BY <1>1, <1>3, <2>1, SameDisk DEF SessionInv, TypeOK, MemoryIsCommitted
  <2>3. Committed' /\ AsOnDisk'
    BY <1>1, <1>3, <2>1 DEF Committed, AsOnDisk, View, LastRole
  <2> QED BY <1>1, <1>2, <1>3, <1>4, <2>1, <2>2, <2>3 DEF SessionInv, Phase, AtEnd
<1>5. CASE ~run.completed
  <2>1. Uncommitted /\ run.verdict \in {"failed", "canceled"} /\ session' = Discarded
    BY <1>1, <1>2, <1>5 DEF AtEnd
  <2>2. Uncommitted' /\ session'.messages = View /\ session'.active /\ session'.memory = session.memory
    BY <1>1, <1>2, <1>3, <2>1, DiscardedIsUncommitted
  <2>3. session' \in [messages : Seq(MessageType), covered : Nat, summary : BOOLEAN,
                    memory : Nat, active : BOOLEAN]
    BY <2>1, StateFacts, DiscardRestores
  <2>4. TypeOK' /\ DiskInv' /\ MemoryIsCommitted'
    BY <1>1, <1>3, <2>2, <2>3, SameDisk DEF SessionInv, TypeOK, MemoryIsCommitted
  <2>5. session'.messages = View'
    BY <1>1, <2>2 DEF View
  <2> QED BY <1>1, <1>3, <2>1, <2>2, <2>4, <2>5 DEF SessionInv, Phase, AtEnd
<1> QED BY <1>4, <1>5

\* The next prompt is let in.
LEMMA ReleaseStep ==
  ASSUME SessionInv, Release
  PROVE  SessionInv'
<1>1. /\ up /\ run.at = "release"
      /\ session' = [session EXCEPT !.active = FALSE]
      /\ run' = NoRun
      /\ UNCHANGED <<file, up, store, turn, ctx, out, told, crashes>>
  BY DEF Release
<1>2. AtEnd
  BY <1>1, PhaseAt DEF SessionInv
<1>3. /\ session' \in [messages : Seq(MessageType), covered : Nat, summary : BOOLEAN,
                       memory : Nat, active : BOOLEAN]
      /\ session'.messages = session.messages /\ ~session'.active
      /\ session'.covered = session.covered /\ session'.summary = session.summary
      /\ session'.memory = session.memory
  BY <1>1, StateFacts
<1>4. /\ run' \in [at : RunPoints, base : Nat, pending : BOOLEAN, candidates : BOOLEAN,
                next : Nat, last : Nat, entry : Nat,
                verdict : {"none", "completed", "failed", "canceled"},
                completed : BOOLEAN]
      /\ run'.at = "idle"
  BY <1>1 DEF NoRun, RunPoints
<1>5. TypeOK' /\ DiskInv' /\ MemoryIsCommitted'
  BY <1>1, <1>3, <1>4, SameDisk DEF SessionInv, TypeOK, MemoryIsCommitted
<1>6. session.messages = View /\ AsOnDisk
  BY <1>1, <1>2 DEF AtEnd, Committed, Uncommitted
<1>7. AtIdle'
  BY <1>1, <1>3, <1>4, <1>6 DEF AtIdle, AsOnDisk, View
<1> QED BY <1>1, <1>5, <1>7 DEF SessionInv, Phase

-----------------------------------------------------------------------------
(* Opening, prompting, crashing *)

\* What is opened from a sound file is what is on disk.
LEMMA OpenedFacts ==
  ASSUME NEW f, Sound(f), HasLeaf(f)
  PROVE  LET l == Load(f)
         IN /\ Opened(l) \in [messages : Seq(MessageType), covered : Nat, summary : BOOLEAN,
                              memory : Nat, active : BOOLEAN]
            /\ StoreAt(l) \in [parent : Nat, summary : Nat]
            /\ Opened(l).messages = LeafView(f)
            /\ Opened(l).covered = l.covers
            /\ Opened(l).summary = (l.summary # 0)
            /\ Opened(l).memory = 0 /\ ~Opened(l).active
BY LoadedFacts DEF Opened, StoreAt

\* A session without a turn has locals of the right type.
LEMMA NoRunType ==
  /\ NoRun \in [at : RunPoints, base : Nat, pending : BOOLEAN, candidates : BOOLEAN,
                next : Nat, last : Nat, entry : Nat,
                verdict : {"none", "completed", "failed", "canceled"},
                completed : BOOLEAN]
  /\ NoRun.at = "idle" /\ ~NoRun.completed
BY DEF NoRun, RunPoints

\* A session that opens a sound file holds what is in it.
LEMMA SessionInit ==
  ASSUME StartsSound, Init
  PROVE  SessionInv
<1>1. Sound(file) /\ HasLeaf(file) /\ file = File0
  BY DEF StartsSound, Init
<1>2. /\ session = Opened(Load(file)) /\ store = StoreAt(Load(file)) /\ run = NoRun /\ up = TRUE
      /\ turn = 0 /\ ctx = "live" /\ out = <<>> /\ told = {} /\ crashes = 0
  BY DEF Init
<1>3. TypeOK
  <2>1. file \in Seq(LineType)
    BY <1>1 DEF Sound, WholeLines
  <2>2. <<>> \in Seq({"event", "completed", "failed", "canceled"}) /\ Len(<<>>) <= OutCap
    BY SessionAssumption
  <2>3. 0 \in 0..MaxTurns /\ 0 \in 0..MaxCrashes
    BY SessionAssumption
  <2> QED BY <1>1, <1>2, <2>1, <2>2, <2>3, OpenedFacts, NoRunType DEF TypeOK
<1>4. DiskInv
  BY <1>1, <1>2 DEF DiskInv, StartsSound, NoneFrom, View
<1>5. MemoryIsCommitted
  BY <1>1, <1>2, OpenedFacts DEF MemoryIsCommitted
<1>6. AtIdle
  BY <1>1, <1>2, OpenedFacts, NoRunType DEF AtIdle, AsOnDisk, View
<1> QED BY <1>2, <1>3, <1>4, <1>5, <1>6 DEF SessionInv, Phase

\* After a crash the session is what the file says.
LEMMA ReopenStep ==
  ASSUME SessionInv, Reopen
  PROVE  SessionInv'
<1>1. /\ ~up /\ up' = TRUE
      /\ session' = Opened(Load(file)) /\ store' = StoreAt(Load(file))
      /\ UNCHANGED <<file, turn, run, ctx, out, told, crashes>>
  BY DEF Reopen, control
<1>2. Sound(file) /\ HasLeaf(file) /\ run = NoRun
  BY <1>1 DEF SessionInv, DiskInv, Phase
<1>3. /\ session' \in [messages : Seq(MessageType), covered : Nat, summary : BOOLEAN,
                       memory : Nat, active : BOOLEAN]
      /\ store' \in [parent : Nat, summary : Nat]
      /\ session'.messages = View
      /\ session'.covered = Load(file).covers
      /\ session'.summary = (Load(file).summary # 0)
      /\ session'.memory = 0 /\ ~session'.active
  BY <1>1, <1>2, OpenedFacts DEF View
<1>4. TypeOK'
  BY <1>1, <1>3 DEF SessionInv, TypeOK
<1>5. DiskInv'
  BY <1>1, SameDisk DEF SessionInv
<1>6. MemoryIsCommitted'
  BY <1>3 DEF MemoryIsCommitted
<1>7. AtIdle'
  BY <1>1, <1>2, <1>3, NoRunType DEF AtIdle, AsOnDisk, View
<1> QED BY <1>1, <1>4, <1>5, <1>6, <1>7 DEF SessionInv, Phase

\* A prompt opens a new turn after the committed ones.
LEMMA PromptStep ==
  ASSUME SessionInv, Prompt
  PROVE  SessionInv'
<1> DEFINE m == session.messages
           w == Append(m, Message(turn + 1, "user"))
<1>1. /\ up /\ ~session.active /\ turn < MaxTurns
      /\ turn' = turn + 1
      /\ session' = [session EXCEPT !.active = TRUE, !.messages = w]
      /\ run' = [NoRun EXCEPT !.at = "running", !.base = Len(m)]
      /\ ctx' = "live" /\ out' = <<>>
      /\ UNCHANGED <<file, up, store, told, crashes>>
  BY DEF Prompt
<1>2. AtIdle
  BY <1>1, PhaseAt DEF SessionInv, Phase
<1>3. m \in Seq(MessageType) /\ turn + 1 \in Nat /\ Len(m) \in Nat /\ m = View
      /\ turn + 1 \in 0..MaxTurns
  BY <1>1, <1>2, StateFacts DEF AtIdle
<1>4. /\ w \in Seq(MessageType) /\ Len(w) = Len(m) + 1
      /\ \A i \in 1..Len(m) : w[i] = m[i]
      /\ TurnFrom(w, Len(m), turn + 1)
  BY <1>3, TurnBegins
<1> HIDE DEF w
<1>5. /\ session' \in [messages : Seq(MessageType), covered : Nat, summary : BOOLEAN,
                       memory : Nat, active : BOOLEAN]
      /\ session'.messages = w /\ session'.active
      /\ session'.covered = session.covered /\ session'.summary = session.summary
      /\ session'.memory = session.memory
  BY <1>1, <1>4, StateFacts
<1>6. /\ run' \in [at : RunPoints, base : Nat, pending : BOOLEAN, candidates : BOOLEAN,
                next : Nat, last : Nat, entry : Nat,
                verdict : {"none", "completed", "failed", "canceled"},
                completed : BOOLEAN]
      /\ run'.at = "running" /\ run'.base = Len(m) /\ ~run'.completed
  BY <1>1, <1>3 DEF NoRun, RunPoints
<1>7. TypeOK'
  <2>1. <<>> \in Seq({"event", "completed", "failed", "canceled"}) /\ Len(<<>>) <= OutCap
    BY SessionAssumption
  <2> QED BY <1>1, <1>3, <1>5, <1>6, <2>1 DEF SessionInv, TypeOK
<1>8. NoneFrom(turn + 1) /\ NoneFrom((turn + 1) + 1)
  <2>1. NoneFrom(turn + 1)
    BY DEF SessionInv, DiskInv
  <2>2. ((turn + 1) + 1)..MaxTurns \subseteq (turn + 1)..MaxTurns
    BY <1>3
  <2> QED BY <2>1, <2>2 DEF NoneFrom
<1>9. DiskInv' /\ MemoryIsCommitted'
  BY <1>1, <1>5, <1>8 DEF SessionInv, DiskInv, NoneFrom, View, MemoryIsCommitted
<1>10. Uncommitted'
  <2>1. Len(m) <= Len(w) /\ \A i \in 1..Len(m) : w[i] = View[i]
    BY <1>3, <1>4
  <2> QED BY <1>1, <1>2, <1>3, <1>4, <1>5, <1>6, <1>8, <2>1
          DEF AtIdle, Uncommitted, AsOnDisk, NoneFrom, View
<1>11. Len(m) < Len(w)
  BY <1>3, <1>4
<1>12. Phase'
  BY <1>1, <1>5, <1>6, <1>10, <1>11 DEF Phase, AtRunning
<1> QED BY <1>7, <1>9, <1>12 DEF SessionInv

\* A crash takes the memory, not the lines that were written.
LEMMA CrashStep ==
  ASSUME SessionInv, ~CanTear, Crash
  PROVE  SessionInv'
<1>1. /\ crashes < MaxCrashes /\ crashes' = crashes + 1
      /\ up' = FALSE /\ session' = Opened(Nothing) /\ store' = StoreAt(Nothing)
      /\ run' = NoRun /\ ctx' = "live" /\ out' = <<>>
      /\ UNCHANGED <<file, turn, told>>
  BY DEF Crash, Remains
<1>2. /\ session' \in [messages : Seq(MessageType), covered : Nat, summary : BOOLEAN,
                       memory : Nat, active : BOOLEAN]
      /\ session'.memory = 0
      /\ store' \in [parent : Nat, summary : Nat]
  <2>1. <<>> \in Seq(MessageType)
    OBVIOUS
  <2> QED BY <1>1, <2>1 DEF Opened, Nothing, StoreAt
<1>3. crashes' \in 0..MaxCrashes
  BY <1>1, SessionAssumption DEF SessionInv, TypeOK
<1>4. out' \in Seq({"event", "completed", "failed", "canceled"}) /\ Len(out') <= OutCap
  BY <1>1, SessionAssumption
<1>5. TypeOK'
  BY <1>1, <1>2, <1>3, <1>4, NoRunType DEF SessionInv, TypeOK
<1>6. DiskInv' /\ MemoryIsCommitted'
  BY <1>1, <1>2, SameDisk DEF SessionInv, MemoryIsCommitted
<1> QED BY <1>1, <1>5, <1>6 DEF SessionInv, Phase

-----------------------------------------------------------------------------
(* What appendRun writes *)

\* A line that is no leaf leaves what the file loads to as it was.
LEMMA LoadKept ==
  ASSUME NEW f, Sound(f), HasLeaf(f), NEW line, Fits(f, line), line.kind # "leaf"
  PROVE  LET g == Append(f, line)
         IN /\ Sound(g) /\ HasLeaf(g) /\ LeafView(g) = LeafView(f)
            /\ Load(g).parent = Load(f).parent
            /\ Load(g).summary = Load(f).summary
            /\ Load(g).covers = Load(f).covers
<1> DEFINE g == Append(f, line)
<1>1. f \in Seq(LineType) /\ line \in LineType
  BY DEF Sound, WholeLines, Fits
<1>2. /\ Len(f) \in Nat
      /\ \A p \in 1..Len(f) : g[p] = f[p]
  BY <1>1, AppendedLines
<1>3. Sound(g) /\ \A p \in 1..Len(f) : f[p].kind = "message" => Thread(g, p) = Thread(f, p)
  BY SoundStep
<1>4. HasLeaf(g) /\ Leaf(g) = Leaf(f)
  BY <1>1, LeafStep
<1> DEFINE e == Leaf(f).entry
           k == Leaf(f).summary
<1> HIDE DEF g
<1>5. /\ e \in 1..Len(f) /\ f[e].kind = "message"
      /\ LeafView(f) = Thread(f, e)
      /\ Load(f).parent = e /\ Load(f).summary = k
      /\ Load(f).covers = IF k = 0 THEN 0 ELSE f[k].covers
  BY LoadSound
<1>6. /\ LeafView(g) = Thread(g, e)
      /\ Load(g).parent = e /\ Load(g).summary = k
      /\ Load(g).covers = IF k = 0 THEN 0 ELSE g[k].covers
  BY <1>3, <1>4, LoadSound
<1>7. ASSUME k # 0 PROVE k \in 1..Len(f)
  BY <1>5, <1>7, LoadedFacts
<1> HIDE DEF e, k
<1>8. (IF k = 0 THEN 0 ELSE g[k].covers) = (IF k = 0 THEN 0 ELSE f[k].covers)
  BY <1>2, <1>7
<1> QED BY <1>3, <1>4, <1>5, <1>6, <1>8 DEF g

\* A leaf commits the transcript of the entry it names.
LEMMA LeafLoads ==
  ASSUME NEW f, Sound(f), NEW line, Fits(f, line), line.kind = "leaf"
  PROVE  LET g == Append(f, line)
         IN /\ Sound(g) /\ HasLeaf(g) /\ LeafView(g) = Thread(f, line.entry)
            /\ Load(g).parent = line.entry
            /\ Load(g).summary = line.summary
            /\ Load(g).covers = IF line.summary = 0 THEN 0 ELSE f[line.summary].covers
<1> DEFINE g == Append(f, line)
<1>1. f \in Seq(LineType) /\ line \in LineType
  BY DEF Sound, WholeLines, Fits
<1>2. /\ Len(f) \in Nat
      /\ \A p \in 1..Len(f) : g[p] = f[p]
  BY <1>1, AppendedLines
<1>3. Sound(g) /\ \A p \in 1..Len(f) : f[p].kind = "message" => Thread(g, p) = Thread(f, p)
  BY SoundStep
<1>4. HasLeaf(g) /\ Leaf(g) = line
  BY <1>1, LeafStep
<1> HIDE DEF g
<1>5. /\ LeafView(g) = Thread(g, line.entry)
      /\ Load(g).parent = line.entry /\ Load(g).summary = line.summary
      /\ Load(g).covers = IF line.summary = 0 THEN 0 ELSE g[line.summary].covers
  BY <1>3, <1>4, LoadSound
<1>6. line.entry \in 1..Len(f) /\ f[line.entry].kind = "message"
  BY <1>2 DEF Fits
<1>7. line.summary # 0 => line.summary \in 1..Len(f)
  BY DEF Fits
<1>8. Thread(g, line.entry) = Thread(f, line.entry)
  BY <1>3, <1>6
<1>9. (IF line.summary = 0 THEN 0 ELSE g[line.summary].covers)
        = (IF line.summary = 0 THEN 0 ELSE f[line.summary].covers)
  BY <1>2, <1>7
<1> QED BY <1>3, <1>4, <1>5, <1>8, <1>9 DEF g

\* A summarized prefix that ends between turns still does after a turn is
\* added, and so does the transcript before that turn.
LEMMA EndsBeforeTurn ==
  ASSUME NEW v \in Seq(MessageType), NEW m \in Seq(MessageType), NEW t \in Nat,
         NEW c \in Nat, Len(v) < Len(m), \A i \in 1..Len(v) : m[i] = v[i],
         TurnFrom(m, Len(v), t), EndsATurn(c, v)
  PROVE  EndsATurn(c, m) /\ EndsATurn(Len(v), m)
<1>1. Len(v) \in Nat /\ Len(m) \in Nat /\ c <= Len(v) /\ c <= Len(m)
  BY DEF EndsATurn
<1>2. m[Len(v) + 1].role = "user"
  BY DEF TurnFrom, Message
<1>3. m[c + 1].role = "user"
  <2>1. CASE c = Len(v)
    BY <1>2, <2>1
  <2>2. CASE c < Len(v)
    <3>1. c + 1 \in 1..Len(v)
      BY <1>1, <2>2
    <3> QED BY <2>2, <3>1 DEF EndsATurn
  <2> QED BY <1>1, <2>1, <2>2
<1> QED BY <1>1, <1>2, <1>3 DEF EndsATurn

\* What appendRun has written when only the leaf is left.
LEMMA BeforeLeaf ==
  ASSUME SessionInv, AtAppend, run.next > Len(session.messages),
         ~(run.pending /\ run.next = Len(session.messages) + 1)
  PROVE  /\ Thread(file, run.last) = session.messages
         /\ run.entry # 0 => run.entry \in 1..Len(file) /\ file[run.entry].kind = "summary"
         /\ TotalCovered = IF run.entry = 0 THEN 0 ELSE file[run.entry].covers
         /\ (run.entry # 0) = (session.summary \/ run.pending)
         /\ EndsATurn(session.covered, session.messages)
         /\ EndsATurn(TotalCovered, session.messages)
<1> DEFINE m == session.messages
           b == run.base
           n == run.next
<1>0. n > Len(m)
  OBVIOUS
<1>1. /\ m \in Seq(MessageType) /\ Len(m) \in Nat /\ b \in Nat /\ n \in Nat
      /\ Uncommitted /\ b < Len(m) /\ b = Len(View) /\ View \in Seq(MessageType)
      /\ TurnFrom(m, b, turn) /\ turn \in Nat
      /\ \A i \in 1..b : m[i] = View[i]
  BY StateFacts DEF AtAppend, Uncommitted
<1>2. TotalCovered = IF run.pending THEN b ELSE session.covered
  BY <1>1, PendingCoversAll
<1>3. /\ session.covered = Load(file).covers
      /\ session.summary = (Load(file).summary # 0)
      /\ store.summary = Load(file).summary
  BY <1>1 DEF Uncommitted, AsOnDisk, StoreAt
<1>4. EndsATurn(session.covered, View) /\ session.covered \in Nat
  BY <1>3, StateFacts DEF SessionInv, DiskInv
<1>5. EndsATurn(session.covered, m) /\ EndsATurn(b, m)
  BY <1>1, <1>4, EndsBeforeTurn
<1>6. EndsATurn(TotalCovered, m)
  BY <1>2, <1>5
<1>7. CASE n \in (b + 1)..(Len(m) + 1)
  <2>1. n = Len(m) + 1 /\ ~run.pending /\ n - 1 = Len(m)
    <3>1. n = Len(m) + 1 /\ n - 1 = Len(m)
      <4> HIDE DEF n, m, b
      <4> QED BY <1>0, <1>1, <1>7
    <3> QED BY <3>1
  <2>2. Thread(file, run.last) = SubSeq(m, 1, n - 1) /\ run.entry = store.summary
    BY <1>1, <1>7, <2>1 DEF AtAppend, LinesWritten
  <2>3. SubSeq(m, 1, Len(m)) = m
    BY <1>1
  <2>4. /\ Load(file).summary # 0 => /\ Load(file).summary \in 1..Len(file)
                                     /\ file[Load(file).summary].kind = "summary"
                                     /\ Load(file).covers = file[Load(file).summary].covers
        /\ Load(file).summary = 0 => Load(file).covers = 0
    BY LoadedFacts DEF SessionInv, DiskInv
  <2> QED BY <1>2, <1>3, <1>5, <1>6, <2>1, <2>2, <2>3, <2>4
<1>8. CASE n = Len(m) + 2 /\ run.pending
  <2>1. /\ Thread(file, run.last) = m
        /\ run.entry \in 1..Len(file)
        /\ file[run.entry] = SummaryLine(run.last, TotalCovered)
    <3>1. ~(n \in (b + 1)..(Len(m) + 1))
      BY <1>1, <1>8
    <3> QED BY <3>1 DEF AtAppend, LinesWritten
  <2>2. file[run.entry].kind = "summary" /\ file[run.entry].covers = TotalCovered
    BY <2>1 DEF SummaryLine, Line
  <2>3. run.entry # 0
    BY <2>1
  <2> HIDE DEF m
  <2> QED BY <1>5, <1>6, <1>8, <2>1, <2>2, <2>3 DEF m
<1> QED BY <1>7, <1>8 DEF AtAppend, LinesWritten

\* The next line may be appended.
LEMMA LineFits ==
  ASSUME SessionInv, AtAppend, OversizedRoles = {}
  PROVE  Fits(file, NextLine)
<1> DEFINE m == session.messages
           n == run.next
<1>1. /\ m \in Seq(MessageType) /\ Len(m) \in Nat /\ n \in Nat
      /\ run.last \in Nat /\ run.entry \in Nat /\ n >= 1
      /\ run.last \in 1..Len(file) /\ file[run.last].kind = "message"
  <2>1. m \in Seq(MessageType) /\ Len(m) \in Nat /\ n \in Nat /\ run.base \in Nat
        /\ run.last \in Nat /\ run.entry \in Nat
    BY StateFacts
  <2> QED BY <2>1 DEF AtAppend, LinesWritten
<1>2. NoMessage \in MessageType
  BY DEF NoMessage, Message, MessageType, Roles
<1>3. run.last \in 0..Len(file) /\ run.last # 0
  BY <1>1
<1>4. CASE n <= Len(m)
  <2>1. m[n] \in MessageType
    <3>1. n \in 1..Len(m)
      BY <1>1, <1>4
    <3> QED BY <1>1, <3>1
  <2>2. NextLine = Line("message", run.last, m[n], 0, 0, 0)
    BY <1>4 DEF NextLine, MessageLine
  <2>3. NextLine \in LineType
    BY <1>1, <2>1, <2>2 DEF Line, LineType
  <2> QED BY <1>1, <1>3, <2>2, <2>3 DEF Fits, Line, Readable
<1>5. CASE n > Len(m) /\ run.pending /\ n = Len(m) + 1
  <2>1. TotalCovered \in Nat
    BY PendingCoversAll, StateFacts DEF AtAppend
  <2>2. NextLine = Line("summary", run.last, NoMessage, 0, 0, TotalCovered)
    BY <1>1, <1>5 DEF NextLine, SummaryLine
  <2>3. NextLine \in LineType
    BY <1>1, <1>2, <2>1, <2>2 DEF Line, LineType
  <2> QED BY <1>1, <1>3, <2>2, <2>3 DEF Fits, Line, Readable
<1>6. CASE n > Len(m) /\ ~(run.pending /\ n = Len(m) + 1)
  <2>1. /\ Thread(file, run.last) = m
        /\ run.entry # 0 => /\ run.entry \in 1..Len(file) /\ file[run.entry].kind = "summary"
                            /\ file[run.entry].covers <= Len(m)
    BY <1>6, BeforeLeaf DEF EndsATurn
  <2>2. NextLine = Line("leaf", run.last, NoMessage, run.last, run.entry, 0)
    BY <1>1, <1>6 DEF NextLine, LeafLine
  <2>3. NextLine \in LineType
    BY <1>1, <1>2, <2>2 DEF Line, LineType
  <2>4. /\ NextLine.shape = "whole" /\ NextLine.kind = "leaf" /\ NextLine.parent = run.last
        /\ NextLine.entry = run.last /\ NextLine.summary = run.entry
    BY <2>2 DEF Line
  <2> QED BY <1>1, <1>3, <2>1, <2>3, <2>4 DEF Fits, Readable
<1>7. n <= Len(m) \/ n > Len(m)
  BY <1>1
<1> QED BY <1>4, <1>5, <1>6, <1>7

\* A write of appendRun, before what it leaves in memory is looked at.
LEMMA LineAppended ==
  ASSUME SessionInv, OversizedRoles = {}, WriteLine
  PROVE  /\ AtAppend /\ session.active /\ up
         /\ Fits(file, NextLine) /\ file' = Append(file, NextLine)
         /\ UNCHANGED <<up, session, turn, ctx, out, told, crashes>>
         /\ file \in Seq(LineType) /\ NextLine \in LineType /\ Len(file) \in Nat
         /\ Sound(file') /\ file' \in Seq(LineType) /\ Len(file') = Len(file) + 1
         /\ file'[Len(file) + 1] = NextLine
         /\ \A p \in 1..Len(file) : file'[p] = file[p] /\ p \in 1..Len(file')
         /\ \A p \in 1..Len(file) : file[p].kind = "message" =>
              Thread(file', p) = Thread(file, p)
<1>1. up /\ run.at = "append" /\ file' = Written(file, NextLine)
      /\ UNCHANGED <<up, session, turn, ctx, out, told, crashes>>
  BY DEF WriteLine, Appending
<1>2. AtAppend /\ session.active
  BY <1>1, PhaseAt DEF SessionInv
<1>3. Fits(file, NextLine)
  BY <1>2, LineFits
<1>4. Sound(file) /\ WholeLines(file) /\ file \in Seq(LineType) /\ NextLine \in LineType
  BY <1>3 DEF SessionInv, DiskInv, Sound, WholeLines, Fits
<1>5. file' = Append(file, NextLine)
  BY <1>1, <1>4, WrittenIsAppended
<1>6. Sound(file') /\ \A p \in 1..Len(file) : file[p].kind = "message" =>
                        Thread(file', p) = Thread(file, p)
  BY <1>3, <1>4, <1>5, SoundStep
<1>7. /\ file' \in Seq(LineType) /\ Len(file) \in Nat /\ Len(file') = Len(file) + 1
      /\ file'[Len(file) + 1] = NextLine
      /\ \A p \in 1..Len(file) : file'[p] = file[p] /\ p \in 1..Len(file')
  BY <1>4, <1>5, AppendedLines
<1> QED BY <1>1, <1>2, <1>3, <1>4, <1>5, <1>6, <1>7

\* Before the leaf nothing that was committed changes.
LEMMA StillUncommitted ==
  ASSUME SessionInv, OversizedRoles = {}, WriteLine, NextLine.kind # "leaf",
         UNCHANGED store, run'.base = run.base, run'.completed = run.completed
  PROVE  Uncommitted' /\ DiskInv' /\ MemoryIsCommitted' /\ View' = View
<1>1. /\ AtAppend /\ Fits(file, NextLine) /\ file' = Append(file, NextLine)
      /\ UNCHANGED <<session, turn>>
  BY LineAppended
<1>2. Sound(file) /\ HasLeaf(file)
  BY DEF SessionInv, DiskInv
<1>3. /\ Sound(file') /\ HasLeaf(file') /\ View' = View
      /\ Load(file').parent = Load(file).parent
      /\ Load(file').summary = Load(file).summary
      /\ Load(file').covers = Load(file).covers
  BY <1>1, <1>2, LoadKept DEF View
<1>4. Uncommitted /\ DiskInv /\ MemoryIsCommitted
  BY <1>1 DEF AtAppend, SessionInv
<1>5. Uncommitted'
  BY <1>1, <1>3, <1>4 DEF Uncommitted, AsOnDisk, StoreAt, NoneFrom
<1>6. DiskInv'
  BY <1>1, <1>3, <1>4 DEF DiskInv, NoneFrom
<1>7. MemoryIsCommitted'
  BY <1>1, <1>3, <1>4 DEF MemoryIsCommitted, View
<1> QED BY <1>3, <1>5, <1>6, <1>7

\* Messages joined to the messages before.
LEMMA SubSeqGrows ==
  ASSUME NEW m \in Seq(MessageType), NEW n \in 1..Len(m)
  PROVE  Append(SubSeq(m, 1, n - 1), m[n]) = SubSeq(m, 1, (n + 1) - 1)
<1>1. Len(m) \in Nat /\ n \in Nat /\ n - 1 \in Nat /\ (n + 1) - 1 = n /\ m[n] \in MessageType
  OBVIOUS
<1>2. /\ SubSeq(m, 1, n - 1) \in Seq(MessageType)
      /\ Len(SubSeq(m, 1, n - 1)) = n - 1
      /\ \A i \in 1..(n - 1) : SubSeq(m, 1, n - 1)[i] = m[i]
  BY <1>1
<1>3. /\ SubSeq(m, 1, n) \in Seq(MessageType)
      /\ Len(SubSeq(m, 1, n)) = n
      /\ \A i \in 1..n : SubSeq(m, 1, n)[i] = m[i]
  BY <1>1
<1> DEFINE s == SubSeq(m, 1, n - 1)
           w == Append(s, m[n])
<1>4. /\ w \in Seq(MessageType) /\ Len(w) = n
      /\ \A i \in 1..(n - 1) : w[i] = m[i]
      /\ w[n] = m[n]
  <2> HIDE DEF s
  <2>1. s \in Seq(MessageType) /\ Len(s) = n - 1 /\ \A i \in 1..(n - 1) : s[i] = m[i]
    BY <1>2 DEF s
  <2>2. (n - 1) + 1 = n
    BY <1>1
  <2> QED BY <1>1, <2>1, <2>2, AppendProperties
<1>5. \A i \in 1..n : i = n \/ i \in 1..(n - 1)
  BY <1>1
<1> HIDE DEF w
<1>6. w = SubSeq(m, 1, n)
  BY <1>3, <1>4, <1>5, SeqEqual
<1> QED BY <1>1, <1>6 DEF w

\* A message of the turn is written.
LEMMA WriteMessage ==
  ASSUME SessionInv, OversizedRoles = {}, WriteLine, run.next <= Len(session.messages)
  PROVE  SessionInv'
<1> DEFINE m == session.messages
           n == run.next
<1>1. /\ AtAppend /\ session.active /\ up
      /\ UNCHANGED <<up, session, turn, ctx, out, told, crashes>>
      /\ file \in Seq(LineType) /\ NextLine \in LineType /\ Len(file) \in Nat
      /\ Sound(file') /\ file' \in Seq(LineType) /\ Len(file') = Len(file) + 1
      /\ file'[Len(file) + 1] = NextLine
      /\ \A p \in 1..Len(file) : file[p].kind = "message" =>
           Thread(file', p) = Thread(file, p)
  BY LineAppended
<1>2. NextLine = Line("message", run.last, m[n], 0, 0, 0)
  BY DEF NextLine, MessageLine
<1>3. NextLine.kind = "message" /\ NextLine.parent = run.last /\ NextLine.message = m[n]
  BY <1>2 DEF Line
<1>4. run' = [run EXCEPT !.next = @ + 1, !.last = Len(file')] /\ UNCHANGED store
  BY <1>3 DEF WriteLine, NewEntry
<1>5. run.next + 1 \in Nat /\ Len(file') \in Nat
  BY <1>1, StateFacts
<1>6. /\ run' \in [at : RunPoints, base : Nat, pending : BOOLEAN, candidates : BOOLEAN,
                next : Nat, last : Nat, entry : Nat,
                verdict : {"none", "completed", "failed", "canceled"},
                completed : BOOLEAN]
      /\ run'.base = run.base /\ run'.completed = run.completed /\ run'.at = run.at
      /\ run'.next = n + 1 /\ run'.last = Len(file') /\ run'.entry = run.entry
  BY <1>4, <1>5, StateFacts
<1>7. Uncommitted' /\ DiskInv' /\ MemoryIsCommitted'
  BY <1>3, <1>4, <1>6, StillUncommitted
<1>8. TypeOK'
  BY <1>1, <1>4, <1>6 DEF SessionInv, TypeOK
<1>9. /\ m \in Seq(MessageType) /\ Len(m) \in Nat /\ n \in Nat /\ run.base \in Nat
  BY StateFacts
<1>10. /\ run.last \in 1..Len(file) /\ file[run.last].kind = "message"
       /\ n \in (run.base + 1)..(Len(m) + 1)
       /\ Thread(file, run.last) = SubSeq(m, 1, n - 1)
       /\ run.entry = store.summary
  <2>1. n # Len(m) + 2
    BY <1>9
  <2> QED BY <1>1, <2>1 DEF AtAppend, LinesWritten
<1>11. n \in 1..Len(m) /\ n + 1 \in (run.base + 1)..(Len(m) + 1)
  BY <1>9, <1>10
<1>12. Thread(file', Len(file')) = SubSeq(m, 1, (n + 1) - 1)
  <2>1. Thread(file', Len(file')) = Append(Thread(file', run.last), m[n])
    <3>1. Linked(file') /\ LinksToMessages(file') /\ Len(file') \in 1..Len(file')
      BY <1>1 DEF Sound, WholeLines
    <3>2. file'[Len(file')].parent = run.last /\ file'[Len(file')].message = m[n]
      BY <1>1, <1>3
    <3> QED BY <1>1, <3>1, <3>2, ThreadStep
  <2>2. Thread(file', run.last) = SubSeq(m, 1, n - 1)
    BY <1>1, <1>10
  <2> QED BY <1>9, <1>11, <2>1, <2>2, SubSeqGrows
<1>13. LinesWritten'
  <2>1. Len(file') \in 1..Len(file') /\ file'[Len(file')].kind = "message"
    BY <1>1, <1>3
  <2> QED BY <1>1, <1>4, <1>6, <1>10, <1>11, <1>12, <2>1 DEF LinesWritten
<1>14. AtAppend'
  BY <1>1, <1>6, <1>7, <1>13 DEF AtAppend, LastRole
<1> QED BY <1>1, <1>7, <1>8, <1>14 DEF SessionInv, Phase

\* The summary is written.
LEMMA WriteSummary ==
  ASSUME SessionInv, OversizedRoles = {}, WriteLine,
         run.pending, run.next = Len(session.messages) + 1
  PROVE  SessionInv'
<1> DEFINE m == session.messages
           n == run.next
<1>1. /\ AtAppend /\ session.active /\ up
      /\ UNCHANGED <<up, session, turn, ctx, out, told, crashes>>
      /\ file \in Seq(LineType) /\ NextLine \in LineType /\ Len(file) \in Nat
      /\ Sound(file') /\ file' \in Seq(LineType) /\ Len(file') = Len(file) + 1
      /\ file'[Len(file) + 1] = NextLine
      /\ \A p \in 1..Len(file) : file'[p] = file[p] /\ p \in 1..Len(file')
      /\ \A p \in 1..Len(file) : file[p].kind = "message" =>
           Thread(file', p) = Thread(file, p)
  BY LineAppended
<1>2. m \in Seq(MessageType) /\ Len(m) \in Nat /\ n \in Nat /\ run.base \in Nat
  BY StateFacts
<1>3. ~(n <= Len(m)) /\ n # Len(m) + 2 /\ n - 1 = Len(m) /\ n + 1 = Len(m) + 2
  <2>1. n = Len(m) + 1
    OBVIOUS
  <2> HIDE DEF n, m
  <2> QED BY <1>2, <2>1
<1>4. NextLine = SummaryLine(run.last, TotalCovered)
  BY <1>3 DEF NextLine
<1>5. NextLine.kind = "summary"
  BY <1>4 DEF SummaryLine, Line
<1>6. run' = [run EXCEPT !.next = @ + 1, !.entry = Len(file')] /\ UNCHANGED store
  BY <1>5 DEF WriteLine, NewEntry
<1>7. run.next + 1 \in Nat /\ Len(file') \in Nat
  BY <1>1, StateFacts
<1>8. /\ run' \in [at : RunPoints, base : Nat, pending : BOOLEAN, candidates : BOOLEAN,
                next : Nat, last : Nat, entry : Nat,
                verdict : {"none", "completed", "failed", "canceled"},
                completed : BOOLEAN]
      /\ run'.base = run.base /\ run'.completed = run.completed /\ run'.at = run.at
      /\ run'.next = n + 1 /\ run'.last = run.last /\ run'.entry = Len(file')
      /\ run'.pending = run.pending
  BY <1>6, <1>7, StateFacts
<1>9. Uncommitted' /\ DiskInv' /\ MemoryIsCommitted'
  BY <1>5, <1>6, <1>8, StillUncommitted
<1>10. TypeOK'
  BY <1>1, <1>6, <1>8 DEF SessionInv, TypeOK
<1>11. /\ run.last \in 1..Len(file) /\ file[run.last].kind = "message"
       /\ Thread(file, run.last) = SubSeq(m, 1, n - 1)
  BY <1>1, <1>3 DEF AtAppend, LinesWritten
<1>12. SubSeq(m, 1, n - 1) = m
  BY <1>2, <1>3
<1>13. Thread(file', run.last) = m
  BY <1>1, <1>11, <1>12
<1>14. TotalCovered' = TotalCovered
  BY <1>1, <1>8 DEF TotalCovered, Replaced, Snapshot
<1>15. LinesWritten'
  <2>1. Len(file') \in 1..Len(file') /\ file'[Len(file')] = SummaryLine(run.last, TotalCovered)
    BY <1>1, <1>4
  <2>2. run.last \in 1..Len(file') /\ file'[run.last].kind = "message"
    BY <1>1, <1>11
  <2> QED BY <1>1, <1>3, <1>8, <1>13, <1>14, <2>1, <2>2 DEF LinesWritten
<1>16. AtAppend'
  BY <1>1, <1>8, <1>9, <1>15 DEF AtAppend, LastRole
<1> QED BY <1>1, <1>9, <1>10, <1>16 DEF SessionInv, Phase

\* The leaf is written: the turn is committed.
LEMMA WriteLeaf ==
  ASSUME SessionInv, OversizedRoles = {}, WriteLine, run.next > Len(session.messages),
         ~(run.pending /\ run.next = Len(session.messages) + 1)
  PROVE  SessionInv' /\ View' = session.messages
<1> DEFINE m == session.messages
           b == run.base
<1>1. /\ AtAppend /\ session.active /\ up /\ Fits(file, NextLine)
      /\ file' = Append(file, NextLine)
      /\ UNCHANGED <<up, session, turn, ctx, out, told, crashes>>
      /\ Sound(file') /\ file' \in Seq(LineType)
  BY LineAppended
<1>2. /\ m \in Seq(MessageType) /\ Len(m) \in Nat /\ run.next \in Nat /\ b \in Nat
      /\ turn \in Nat /\ MaxTurns \in Nat
  BY StateFacts
<1>3. ~(run.next <= Len(m))
  <2>1. run.next > Len(m)
    OBVIOUS
  <2> HIDE DEF m
  <2> QED BY <1>2, <2>1
<1>4. NextLine = Line("leaf", run.last, NoMessage, run.last, run.entry, 0)
  BY <1>3 DEF NextLine, LeafLine
<1>5. NextLine.kind = "leaf" /\ NextLine.entry = run.last /\ NextLine.summary = run.entry
  BY <1>4 DEF Line
<1>6. run' = [run EXCEPT !.at = "commit"] /\ store' = [parent |-> run.last, summary |-> run.entry]
  BY <1>5 DEF WriteLine
<1>7. /\ run' \in [at : RunPoints, base : Nat, pending : BOOLEAN, candidates : BOOLEAN,
                next : Nat, last : Nat, entry : Nat,
                verdict : {"none", "completed", "failed", "canceled"},
                completed : BOOLEAN]
      /\ run'.base = run.base /\ run'.pending = run.pending /\ run'.at = "commit"
      /\ store' \in [parent : Nat, summary : Nat]
  BY <1>6, StateFacts DEF RunPoints
<1>8. /\ Thread(file, run.last) = m
      /\ TotalCovered = IF run.entry = 0 THEN 0 ELSE file[run.entry].covers
      /\ (run.entry # 0) = (session.summary \/ run.pending)
      /\ EndsATurn(session.covered, m)
      /\ EndsATurn(TotalCovered, m)
  BY <1>1, BeforeLeaf
<1>9. /\ HasLeaf(file') /\ View' = m
      /\ Load(file').parent = run.last
      /\ Load(file').summary = run.entry
      /\ Load(file').covers = TotalCovered
  <2>1. Sound(file)
    BY DEF SessionInv, DiskInv
  <2> QED BY <1>1, <1>5, <1>8, <2>1, LeafLoads DEF View
<1>10. Uncommitted /\ b < Len(m) /\ LastRole = "answer" /\ b = Len(View)
       /\ (\A i \in 1..b : m[i] = View[i]) /\ TurnFrom(m, b, turn) /\ NoneFrom(turn)
  BY <1>1 DEF AtAppend, Uncommitted
<1>11. \A i \in 1..Len(m) : m[i].turn \notin (turn + 1)..MaxTurns
  <2> SUFFICES ASSUME NEW i \in 1..Len(m) PROVE m[i].turn \notin (turn + 1)..MaxTurns
    OBVIOUS
  <2>1. CASE i \in 1..b
    <3>1. m[i].turn \notin turn..MaxTurns
      BY <1>10, <2>1 DEF NoneFrom
    <3>2. (turn + 1)..MaxTurns \subseteq turn..MaxTurns
      BY <1>2
    <3> QED BY <3>1, <3>2
  <2>2. CASE i \notin 1..b
    <3>1. i = b + 1 \/ i \in (b + 2)..Len(m)
      BY <1>2, <2>2
    <3>2. m[i].turn = turn
      BY <1>10, <3>1 DEF TurnFrom, Message
    <3> QED BY <1>2, <3>2
  <2> QED BY <2>1, <2>2
<1>12. DiskInv'
  BY <1>1, <1>8, <1>9, <1>11 DEF DiskInv, NoneFrom
<1>13. TypeOK'
  BY <1>1, <1>7 DEF SessionInv, TypeOK
<1>14. MemoryIsCommitted'
  <2>1. session.memory \in {0} \cup Answered(View)
    BY DEF SessionInv, MemoryIsCommitted, View
  <2>2. Answered(View) \subseteq Answered(m)
    <3>1. \A i \in 1..Len(View) : i \in 1..Len(m) /\ m[i] = View[i]
      BY <1>2, <1>10
    <3> QED BY <3>1 DEF Answered
  <2> QED BY <1>1, <1>9, <2>1, <2>2 DEF MemoryIsCommitted, View
<1>15. TotalCovered' = TotalCovered
  BY <1>1, <1>7 DEF TotalCovered, Replaced, Snapshot
<1>16. Committed'
  BY <1>1, <1>7, <1>9, <1>10 DEF Committed, LastRole
<1>17. AtCommit'
  BY <1>1, <1>6, <1>7, <1>8, <1>9, <1>15, <1>16 DEF AtCommit, StoreAt
<1>18. Phase'
  BY <1>1, <1>17 DEF Phase
<1> QED BY <1>9, <1>12, <1>13, <1>14, <1>18 DEF SessionInv

\* Every line that is written, or fails to be, keeps the invariant.
LEMMA WriteStep ==
  ASSUME SessionInv, OversizedRoles = {}, WriteLine
  PROVE  SessionInv'
<1>1. run.next \in Nat /\ Len(session.messages) \in Nat
  BY StateFacts
<1>2. \/ run.next <= Len(session.messages)
      \/ run.pending /\ run.next = Len(session.messages) + 1
      \/ /\ run.next > Len(session.messages)
         /\ ~(run.pending /\ run.next = Len(session.messages) + 1)
  BY <1>1
<1> QED BY <1>2, WriteMessage, WriteSummary, WriteLeaf

-----------------------------------------------------------------------------
(* The invariant, and what follows from it *)

\* Every step keeps the invariant.
LEMMA SessionStep ==
  ASSUME SessionInv, Undamaged, [Next]_vars
  PROVE  SessionInv'
<1>0. ~CanTear /\ OversizedRoles = {}
  BY DEF Undamaged
<1>1. CASE UNCHANGED vars
  <2>1. UNCHANGED <<file, up, session, store, turn, run, ctx, out, told, crashes>>
    BY <1>1 DEF vars, disk, memory, control
  <2>2. TypeOK' /\ DiskInv' /\ MemoryIsCommitted'
    BY <2>1, SameDisk DEF SessionInv, TypeOK, MemoryIsCommitted
  <2>3. AtIdle' = AtIdle /\ AtRunning' = AtRunning /\ AtEnd' = AtEnd
    BY <2>1 DEF AtIdle, AtRunning, AtEnd, Uncommitted, AsOnDisk, NoneFrom, View, Committed,
       LastRole
  <2>4. AtAppend' = AtAppend /\ AtCommit' = AtCommit
    BY <2>1 DEF AtAppend, AtCommit, Uncommitted, AsOnDisk, NoneFrom, View, Committed, LastRole,
       LinesWritten, TotalCovered, Replaced, Snapshot
  <2>5. Phase'
    BY <2>1, <2>3, <2>4 DEF SessionInv, Phase
  <2> QED BY <2>2, <2>5 DEF SessionInv
<1>2. CASE Prompt
  BY <1>2, PromptStep
<1>3. CASE RuntimeEvent
  BY <1>3, MessageStep, PassingStep, ProposalStep, CompletedStep DEF RuntimeEvent
<1>4. CASE TurnStep
  BY <1>0, <1>4, PassingStep, WriteStep, FailureStep, CommitStep, TerminalStep, RollbackStep,
     ReleaseStep DEF TurnStep
<1>5. CASE Cancel \/ Receive
  BY <1>5, PassingStep
<1>6. CASE Crash
  BY <1>0, <1>6, CrashStep
<1>7. CASE Reopen
  BY <1>7, ReopenStep
<1> QED BY <1>1, <1>2, <1>3, <1>4, <1>5, <1>6, <1>7 DEF Next

\* The invariant holds throughout.
LEMMA SessionInvariant ==
  ASSUME Undamaged
  PROVE  Spec => []SessionInv
<1>1. Init => SessionInv
  BY SessionInit DEF Undamaged
<1>2. SessionInv /\ [Next]_vars => SessionInv'
  BY SessionStep
<1> QED BY <1>1, <1>2, PTL DEF Spec

\* The length of the summarized prefix is right for the transcript in memory.
LEMMA PrefixEnds ==
  ASSUME SessionInv
  PROVE  EndsATurn(session.covered, session.messages)
<1> DEFINE m == session.messages
           c == session.covered
<1>1. /\ m \in Seq(MessageType) /\ Len(m) \in Nat /\ c \in Nat /\ turn \in Nat
      /\ View \in Seq(MessageType) /\ Len(View) \in Nat /\ run.base \in Nat
  BY StateFacts
<1>2. EndsATurn(Load(file).covers, View)
  BY DEF SessionInv, DiskInv
<1>3. CASE ~up
  <2>1. c = 0 /\ m = <<>>
    BY <1>3 DEF SessionInv, Phase, Opened, Nothing
  <2> QED BY <2>1 DEF EndsATurn
<1>4. CASE m = View /\ AsOnDisk
  BY <1>2, <1>4 DEF AsOnDisk
<1>5. CASE Uncommitted
  <2>1. c = Load(file).covers /\ run.base = Len(View) /\ run.base <= Len(m)
        /\ \A i \in 1..run.base : m[i] = View[i]
    BY <1>5 DEF Uncommitted, AsOnDisk
  <2>2. CASE run.base = Len(m)
    <3>1. m = View
      BY <1>1, <2>1, <2>2, SeqEqual
    <3> QED BY <1>2, <2>1, <3>1
  <2>3. CASE run.base < Len(m)
    <3>1. TurnFrom(m, Len(View), turn)
      BY <1>5, <2>1, <2>3 DEF Uncommitted
    <3> QED BY <1>1, <1>2, <2>1, <2>3, <3>1, EndsBeforeTurn
  <2> QED BY <1>1, <2>1, <2>2, <2>3
<1>6. CASE AtCommit
  BY <1>6 DEF AtCommit, Committed
<1>7. CASE up
  BY <1>4, <1>5, <1>6, <1>7 DEF SessionInv, Phase, AtIdle, AtRunning, AtAppend, AtEnd, Committed
<1> QED BY <1>3, <1>7

\* The session as the log sees it: a step commits a whole new turn, reports a
\* committed one, or is none of the log's.
LEMMA LogStep ==
  ASSUME SessionInv, Undamaged, [Next]_vars
  PROVE  [Log!LogNext]_<<View, told>>
<1>0. ~CanTear /\ OversizedRoles = {}
  BY DEF Undamaged
<1>1. CASE UNCHANGED <<file, told>>
  BY <1>1 DEF View
<1>2. CASE WriteLine
  <2> DEFINE m == session.messages
             b == run.base
  <2>1. AtAppend /\ UNCHANGED told /\ run.next \in Nat /\ Len(m) \in Nat
    BY <1>0, <1>2, LineAppended, StateFacts
  <2>2. CASE run.next > Len(m) /\ ~(run.pending /\ run.next = Len(m) + 1)
    <3>1. View' = m
      BY <1>0, <1>2, <2>2, WriteLeaf
    <3>2. /\ Uncommitted /\ b < Len(m) /\ m[Len(m)].role = "answer" /\ b = Len(View)
          /\ TurnFrom(m, b, turn) /\ NoneFrom(turn)
      BY <2>1 DEF AtAppend, Uncommitted, LastRole
    <3>3. m \in Seq(MessageType) /\ turn \in Nat /\ b \in Nat /\ turn \in 0..MaxTurns
          /\ MaxTurns \in Nat
      BY StateFacts
    <3>4. SubSeq(m, 1, b) = View
      BY <3>2, DiscardRestores
    <3>5. WholeTurn(SubSeq(m, b + 1, Len(m)))
      BY <3>2, <3>3, TurnIsWhole
    <3>6. m[Len(m)].turn = turn
      <4>1. m[b + 1].role = "user"
        BY <3>2 DEF TurnFrom, Message
      <4>2. Len(m) \in (b + 2)..Len(m)
        BY <2>1, <3>2, <3>3, <4>1
      <4> QED BY <3>2, <4>2 DEF TurnFrom
    <3>7. turn \notin {View[i].turn : i \in 1..Len(View)}
      <4>1. turn \in turn..MaxTurns
        BY <3>3
      <4> QED BY <3>2, <4>1 DEF NoneFrom
    <3>8. Log!Commit
      BY <2>1, <3>1, <3>2, <3>4, <3>5, <3>6, <3>7 DEF Log!Commit, Log!Turns, View
    <3> QED BY <3>8 DEF Log!LogNext
  <2>3. CASE run.next <= Len(m) \/ (run.pending /\ run.next = Len(m) + 1)
    <3>1. NextLine.kind # "leaf"
      <4>1. run.next <= Len(m) \/ (~(run.next <= Len(m)) /\ run.pending /\ run.next = Len(m) + 1)
        BY <2>1, <2>3
      <4> QED BY <4>1 DEF NextLine, MessageLine, SummaryLine, Line
    <3>2. AtAppend /\ Fits(file, NextLine) /\ file' = Append(file, NextLine)
      BY <1>0, <1>2, LineAppended
    <3>3. View' = View
      <4>1. Sound(file) /\ HasLeaf(file)
        BY DEF SessionInv, DiskInv
      <4> QED BY <3>1, <3>2, <4>1, LoadKept DEF View
    <3> QED BY <2>1, <3>3
  <2> QED BY <2>1, <2>2, <2>3
<1>3. CASE EmitTerminal
  <2>1. /\ up /\ run.at = "terminal" /\ UNCHANGED file
        /\ told' = IF run.verdict = "completed" THEN told \cup {turn} ELSE told
    BY <1>3 DEF EmitTerminal
  <2>2. AtEnd
    BY <2>1, PhaseAt DEF SessionInv
  <2>3. CASE run.verdict = "completed"
    <3>1. TurnFrom(View, run.base, turn) /\ View[Len(View)].role = "answer"
      BY <2>2, <2>3 DEF AtEnd, Committed, LastRole
    <3>2. Len(View) \in Nat /\ run.base \in Nat
      BY StateFacts
    <3>3. View[run.base + 1].turn = turn /\ run.base + 1 \in 1..Len(View)
      BY <3>1, <3>2 DEF TurnFrom, Message
    <3>4. turn \in Log!Turns
      BY <3>3 DEF Log!Turns, View
    <3>5. CASE turn \in told
      <4>1. told' = told
        BY <2>1, <3>5
      <4> QED BY <2>1, <4>1 DEF View
    <3>6. CASE turn \notin told
      <4>1. Log!Acknowledge
        BY <2>1, <2>3, <3>4, <3>6 DEF Log!Acknowledge
      <4> QED BY <4>1 DEF Log!LogNext
    <3> QED BY <3>5, <3>6
  <2>4. CASE run.verdict # "completed"
    BY <2>1, <2>4 DEF View
  <2> QED BY <2>3, <2>4
<1>4. CASE WriteFails \/ Crash
  BY <1>0, <1>1, <1>4 DEF WriteFails, Crash, Remains
<1>5. CASE Prompt \/ Cancel \/ Receive \/ Reopen
  BY <1>1, <1>5 DEF Prompt, Cancel, Receive, Reopen, control
<1>6. CASE RuntimeEvent
  BY <1>1, <1>6 DEF RuntimeEvent, RuntimeMessage, RuntimeOther, RuntimeSummary, RuntimeMemory,
     RuntimeCompleted, RuntimeEnds
<1>7. CASE EmitEvent \/ CommitTurn \/ Rollback \/ Release
  BY <1>1, <1>7 DEF EmitEvent, CommitTurn, Rollback, Release
<1>8. CASE UNCHANGED vars
  BY <1>1, <1>8 DEF vars, disk, control
<1> QED BY <1>2, <1>3, <1>4, <1>5, <1>6, <1>7, <1>8 DEF Next, TurnStep

\* Between two turns a Session of runPrompt holds what a new process would
\* load, whatever the turns before it came to: the rollback of a run that
\* failed, was canceled or could not be written leaves nothing behind.
THEOREM IdleAgrees ==
  ASSUME Undamaged
  PROVE  Spec => []IdleMatchesDisk
<1>1. SessionInv => IdleMatchesDisk
  <2> SUFFICES ASSUME SessionInv PROVE IdleMatchesDisk
    OBVIOUS
  <2>1. ASSUME up, ~session.active PROVE AtIdle
    BY <2>1 DEF SessionInv, Phase
  <2> QED BY <2>1, StateFacts DEF IdleMatchesDisk, SessionInv, AtIdle, AsOnDisk
<1> QED BY <1>1, SessionInvariant, PTL

\* The prefix that a summary stands for ends between two turns, while runs
\* propose summaries, commit them, or take their turn back.
THEOREM PrefixOfWholeTurns ==
  ASSUME Undamaged
  PROVE  Spec => []SummaryEndsATurn
<1>1. SessionInv => SummaryEndsATurn
  BY PrefixEnds DEF SummaryEndsATurn
<1> QED BY <1>1, SessionInvariant, PTL

\* Memory candidates are offered from committed turns alone.
THEOREM CandidatesCommitted ==
  ASSUME Undamaged
  PROVE  Spec => []MemoryIsCommitted
<1>1. SessionInv => MemoryIsCommitted
  BY DEF SessionInv
<1> QED BY <1>1, SessionInvariant, PTL

\* A Session and its file implement the log of whole turns: the leaf line of
\* appendRun is the one step that commits, and what was committed or reported
\* survives failures, cancellations and crashes.
THEOREM SessionImplementsLog ==
  ASSUME Undamaged
  PROVE  Spec => ImplementsLog
<1>1. Init => Log!LogInit
  BY DEF Init, Log!LogInit
<1>2. SessionInv /\ [Next]_vars => [Log!LogNext]_<<LeafView(file), told>>
  BY LogStep DEF Undamaged, View
<1> QED BY <1>1, <1>2, SessionInvariant, PTL DEF Spec, ImplementsLog, Log!LogSpec

\* What the comment on appendRun (storage.go L297) says holds as long as lines
\* are written whole and none is too long for the scanner: the file always
\* loads, through failures, cancellations and crashes.
THEOREM CommittedLoads ==
  ASSUME Undamaged
  PROVE  Spec => []CommittedIsLoadable
<1>1. SessionInv => CommittedIsLoadable
  BY LoadedFacts DEF SessionInv, DiskInv, CommittedIsLoadable
<1> QED BY <1>1, SessionInvariant, PTL

\* Messages that can be sent, followed by others that can, can be sent.
LEMMA JoinAcceptable ==
  ASSUME NEW l \in Seq(MessageType), NEW m \in Seq(MessageType), Len(l) < Len(m),
         SubSeq(m, 1, Len(l)) = l, Acceptable(l),
         Acceptable(SubSeq(m, Len(l) + 1, Len(m)))
  PROVE  Acceptable(m)
<1> DEFINE k == Len(l)
           t == SubSeq(m, k + 1, Len(m))
<1>1. k \in Nat /\ Len(m) \in Nat /\ k < Len(m)
  OBVIOUS
<1>2. \A i \in 1..k : l[i] = m[i]
  BY <1>1
<1>3. Len(t) = Len(m) - k /\ \A i \in 1..Len(t) : t[i] = m[k + i]
  BY <1>1
<1> SUFFICES ASSUME NEW i \in 1..Len(m)
             PROVE  /\ m[i].role = "call" => i < Len(m) /\ m[i + 1].role = "result"
                    /\ m[i].role = "result" => i > 1 /\ m[i - 1].role = "call"
  BY DEF Acceptable
<1>4. CASE i <= k
  <2>1. i \in 1..k /\ i \in Nat
    BY <1>1, <1>4
  <2>2. /\ l[i].role = "call" => i < k /\ l[i + 1].role = "result"
        /\ l[i].role = "result" => i > 1 /\ l[i - 1].role = "call"
    BY <2>1 DEF Acceptable
  <2>3. i < k => i + 1 \in 1..k
    BY <1>1, <2>1
  <2>4. i > 1 => i - 1 \in 1..k
    BY <1>1, <2>1
  <2>5. i < k => i < Len(m)
    BY <1>1, <2>1
  <2> HIDE DEF k
  <2> QED BY <1>2, <2>1, <2>2, <2>3, <2>4, <2>5
<1>5. CASE i > k
  <2> DEFINE j == i - k
  <2>1. j \in 1..Len(t) /\ i = k + j /\ i + 1 = k + (j + 1) /\ i - 1 = k + (j - 1)
    BY <1>1, <1>3, <1>5
  <2>2. /\ t[j].role = "call" => j < Len(t) /\ t[j + 1].role = "result"
        /\ t[j].role = "result" => j > 1 /\ t[j - 1].role = "call"
    BY <2>1 DEF Acceptable
  <2>3. j < Len(t) => i < Len(m) /\ j + 1 \in 1..Len(t)
    BY <1>1, <1>3, <2>1
  <2>4. j > 1 => i > 1 /\ j - 1 \in 1..Len(t)
    BY <1>1, <1>3, <2>1
  <2> HIDE DEF k, t, j
  <2> QED BY <1>3, <2>1, <2>2, <2>3, <2>4
<1> QED BY <1>1, <1>4, <1>5

\* The committed messages can be sent, after every step as before it.
LEMMA ViewStaysAcceptable ==
  ASSUME SessionInv, Undamaged, [Next]_vars, Acceptable(View)
  PROVE  Acceptable(View)'
<1>1. View \in Seq(MessageType) /\ View' \in Seq(MessageType)
  BY SessionStep, LoadedFacts DEF SessionInv, DiskInv, View
<1>2. [Log!LogNext]_<<View, told>>
  BY LogStep
<1>3. CASE View' = View
  BY <1>3 DEF Acceptable
<1>4. CASE Log!Commit
  <2>1. /\ Len(View') > Len(View)
        /\ SubSeq(View', 1, Len(View)) = View
        /\ WholeTurn(SubSeq(View', Len(View) + 1, Len(View')))
    BY <1>4 DEF Log!Commit, View
  <2>2. Acceptable(SubSeq(View', Len(View) + 1, Len(View')))
    BY <2>1 DEF WholeTurn
  <2>3. Len(View) < Len(View')
    BY <1>1, <2>1
  <2>4. \A m \in Seq(MessageType) :
          Len(View) < Len(m) /\ SubSeq(m, 1, Len(View)) = View
          /\ Acceptable(SubSeq(m, Len(View) + 1, Len(m))) => Acceptable(m)
    BY <1>1, JoinAcceptable
  <2>5. \A m : m = View' => (Acceptable(m) <=> Acceptable(View)')
    BY DEF Acceptable
  <2> QED BY <1>1, <2>1, <2>2, <2>3, <2>4, <2>5
<1> QED BY <1>2, <1>3, <1>4 DEF Log!LogNext, Log!Acknowledge, View

\* What the comment on the leaf entry (storage.go L24) says holds of a session
\* that has committed a turn, with lines written whole: after a run that was
\* not completed, or a crash in its append, what a process recovers is a
\* transcript that can be sent.
THEOREM RecoversWholeTurns ==
  ASSUME Undamaged, Acceptable(LeafView(File0))
  PROVE  Spec => []OnlyWholeTurnsRecovered
<1>1. Init => Acceptable(View)
  BY DEF Init, View
<1>2. SessionInv /\ [Next]_vars /\ Acceptable(View) => Acceptable(View)'
  BY ViewStaysAcceptable
<1>3. SessionInv /\ Acceptable(View) => OnlyWholeTurnsRecovered
  <2> SUFFICES ASSUME SessionInv, Acceptable(View), up, ~session.active
               PROVE  Acceptable(session.messages)
    BY DEF OnlyWholeTurnsRecovered
  <2>1. AtIdle
    BY DEF SessionInv, Phase
  <2> QED BY <2>1 DEF AtIdle
<1> QED BY <1>1, <1>2, <1>3, SessionInvariant, PTL DEF Spec

=============================================================================
