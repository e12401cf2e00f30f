-------------------------- MODULE SessionIndexProofs --------------------------
(***************************************************************************)
(* The metadata stores implement SessionMetadata: every change of the      *)
(* metadata is the one its request asked for, unless another process saved *)
(* in between, for any number of requests, commands, users, sessions and   *)
(* preferences, with either store.                                         *)
(***************************************************************************)
EXTENDS SessionIndex, TLAPS

-----------------------------------------------------------------------------
(* The inductive invariant *)

Job ==
  [pc : {"resolve", "lock", "locked", "turn", "reread", "begin", "enter", "save", "done"},
   op : {"none", "create", "touch", "update"},
   id : Id \cup {None},
   actor : User,
   changes : SUBSET Field,
   config : Config \cup {None},
   copy : Seq(Entry)]

AtStore == {"begin", "enter", "save"}

Types ==
  /\ backend \in {"file", "postgres"}
  /\ index \in Seq(Entry) /\ OneEntryEach(index)
  /\ mutex \in [Process -> Worker \cup {None}]
  /\ runLock \in [Id -> Server \cup {None}]
  /\ job \in [Worker -> Job]
  /\ \A w \in Worker : OneEntryEach(job[w].copy)
  /\ disturbed \subseteq Worker

\* What a job carries agrees with how far it is: an identifier that is its own
\* or was there before, an operation once it is about to reach the store, and
\* a configuration when it is going to write one.
JobFits(w) ==
  LET j == job[w]
  IN /\ j.pc # "done" => j.id \in Id
     /\ j.id \in Worker => j.id = w
     /\ j.op = "create" => j.pc \in AtStore /\ j.id = w /\ j.changes = {} /\ j.config \in Config
     /\ j.pc \in AtStore => j.op # "none"
     /\ j.pc \in {"enter", "save"} => backend = "file"
     /\ j.op = "touch" => j.changes = {}
     /\ j.op = "update" => j.changes # {}
     /\ j.op # "create" /\ j.config # None => j.changes # {} /\ j.pc \in AtStore \cup {"turn"}
     /\ j.pc \in {"lock", "locked"} => w \in Server
     /\ j.pc = "reread" => w \notin Server
     /\ w \in Server /\ j.pc = "turn" /\ j.changes # {} => j.config # None
     /\ w \notin Server /\ j.pc = "turn" => j.config = None
     /\ j.op = "update" /\ j.pc \in AtStore => j.config # None
     /\ j.pc = "reread" => j.op = "update"
     /\ j.pc \in {"resolve", "lock", "locked", "turn"} => j.op = "none"

Has(entries, id) == \E i \in 1..Len(entries) : entries[i].id = id

\* Nobody has met the session of a worker that has yet to create it.
Unmet(w) ==
  job[w].op = "create" =>
    ~Has(index, w) /\ \A v \in Worker : ~Has(job[v].copy, w)

\* A worker between its load and its rename has the mutex of its process.
HasMutex(w) == job[w].pc = "save" => mutex[ProcessOf(w)] = w

\* A request to the server has the run lock of its session from before it
\* reads the configuration until it is over.
HasRunLock(w) ==
  w \in Server /\ job[w].op # "create" /\ job[w].pc \in AtStore \cup {"locked", "turn"} =>
    runLock[job[w].id] = w

\* What a worker has read is what is there, unless it was overtaken.
CopyIsCurrent(w) == job[w].pc = "save" => job[w].copy = index

ConfigIsCurrent(w) ==
  job[w].op # "create" /\ job[w].config # None =>
    \A i \in Matches(index, job[w]) :
      job[w].config = With(index[i].config, job[w].changes, w)

IndexInv ==
  /\ Types
  /\ \A w \in Worker : JobFits(w) /\ Unmet(w) /\ HasMutex(w) /\ HasRunLock(w)
  /\ \A w \in Worker \ disturbed : CopyIsCurrent(w) /\ ConfigIsCurrent(w)

-----------------------------------------------------------------------------
(* Entries *)

\* A new entry under an identifier that none has.
LEMMA CreatedEntries ==
  ASSUME NEW entries \in Seq(Entry), OneEntryEach(entries), NEW j \in Job,
         j.id \in Id, j.config \in Config, ~Has(entries, j.id)
  PROVE  /\ Created(entries, j) \in Seq(Entry)
         /\ OneEntryEach(Created(entries, j))
         /\ Len(Created(entries, j)) = Len(entries) + 1
         /\ \A i \in 1..Len(entries) : Created(entries, j)[i] = entries[i]
         /\ Created(entries, j)[Len(entries) + 1] =
              [id |-> j.id, owner |-> j.actor, config |-> j.config]
<1> DEFINE e == [id |-> j.id, owner |-> j.actor, config |-> j.config]
           after == Append(entries, e)
<1>1. e \in Entry
  BY DEF Entry, Job
<1>2. /\ after \in Seq(Entry) /\ Len(after) = Len(entries) + 1 /\ Len(entries) \in Nat
      /\ \A i \in 1..Len(entries) : after[i] = entries[i]
      /\ after[Len(entries) + 1] = e
  BY <1>1
<1>3. e.id = j.id
  OBVIOUS
<1> HIDE DEF e, after
<1>4. OneEntryEach(after)
  <2> SUFFICES ASSUME NEW i \in 1..(Len(entries) + 1), NEW k \in 1..(Len(entries) + 1),
                      after[i].id = after[k].id
               PROVE  i = k
    BY <1>2 DEF OneEntryEach
  <2>1. i \in 1..Len(entries) \/ i = Len(entries) + 1
    BY <1>2
  <2>2. k \in 1..Len(entries) \/ k = Len(entries) + 1
    BY <1>2
  <2> QED
    BY <1>2, <1>3, <2>1, <2>2 DEF OneEntryEach, Has
<1> QED
  BY <1>2, <1>4 DEF Created, e, after

\* An update touches the entry of its session and keeps who it belongs to.
LEMMA UpdatedEntries ==
  ASSUME NEW entries \in Seq(Entry), OneEntryEach(entries), NEW j \in Job,
         j.op = "update" => j.config \in Config
  PROVE  /\ Updated(entries, j) \in Seq(Entry)
         /\ OneEntryEach(Updated(entries, j))
         /\ Len(Updated(entries, j)) = Len(entries)
         /\ \A i \in 1..Len(entries) :
              /\ Updated(entries, j)[i].id = entries[i].id
              /\ OwnerOf(Updated(entries, j)[i]) = OwnerOf(entries[i])
              /\ i \notin Matches(entries, j) => Updated(entries, j)[i] = entries[i]
              /\ i \in Matches(entries, j) =>
                   Updated(entries, j)[i].config =
                     IF j.op = "update" THEN j.config ELSE entries[i].config
<1> DEFINE new(i) == [id |-> j.id, owner |-> j.actor,
                      config |-> IF j.op = "update" THEN j.config ELSE entries[i].config]
           after == Updated(entries, j)
<1>1. Len(entries) \in Nat /\ \A i \in 1..Len(entries) : entries[i] \in Entry
  OBVIOUS
<1>2. ASSUME NEW i \in Matches(entries, j)
      PROVE  /\ i \in 1..Len(entries) /\ new(i) \in Entry /\ new(i).id = entries[i].id
             /\ OwnerOf(new(i)) = OwnerOf(entries[i])
             /\ new(i).config = IF j.op = "update" THEN j.config ELSE entries[i].config
  <2>1. i \in 1..Len(entries) /\ entries[i].id = j.id /\ OwnerOf(entries[i]) = j.actor
    BY DEF Matches
  <2>2. entries[i] \in Entry
    BY <1>1, <2>1
  <2>3. j.actor \in User /\ j.actor # None
    BY IndexAssumption DEF Job
  <2>4. new(i) \in Entry
    BY <2>1, <2>2, <2>3 DEF Entry
  <2>5. OwnerOf(new(i)) = j.actor
    BY <2>3 DEF OwnerOf
  <2> QED
    BY <2>1, <2>4, <2>5
<1>3. after = [i \in 1..Len(entries) |-> IF i \notin Matches(entries, j) THEN entries[i] ELSE new(i)]
  BY DEF Updated
<1> HIDE DEF new, after
<1>4. \A i \in 1..Len(entries) :
        after[i] = IF i \notin Matches(entries, j) THEN entries[i] ELSE new(i)
  BY <1>3
<1>5. \A i \in 1..Len(entries) : after[i] \in Entry
  BY <1>1, <1>2, <1>4
<1>6. after \in Seq(Entry) /\ Len(after) = Len(entries)
  BY <1>1, <1>3, <1>5
<1>7. \A i \in 1..Len(entries) :
        /\ after[i].id = entries[i].id
        /\ OwnerOf(after[i]) = OwnerOf(entries[i])
        /\ i \notin Matches(entries, j) => after[i] = entries[i]
        /\ i \in Matches(entries, j) =>
             after[i].config = IF j.op = "update" THEN j.config ELSE entries[i].config
  BY <1>2, <1>4
<1>8. OneEntryEach(after)
  BY <1>6, <1>7 DEF OneEntryEach
<1> QED
  BY <1>6, <1>7, <1>8 DEF after

\* The row of a session is that of its one entry.
LEMMA RowsFacts ==
  ASSUME NEW entries \in Seq(Entry), OneEntryEach(entries)
  PROVE  /\ DOMAIN RowsOf(entries) = {entries[i].id : i \in 1..Len(entries)}
         /\ \A i \in 1..Len(entries) : RowsOf(entries)[entries[i].id] = RowOf(entries[i])
<1>1. ASSUME NEW i \in 1..Len(entries)
      PROVE  RowsOf(entries)[entries[i].id] = RowOf(entries[i])
  <2> DEFINE k == CHOOSE k \in 1..Len(entries) : entries[k].id = entries[i].id
  <2>1. k \in 1..Len(entries) /\ entries[k].id = entries[i].id
    OBVIOUS
  <2>2. k = i
    BY <2>1 DEF OneEntryEach
  <2>3. RowsOf(entries)[entries[i].id] = RowOf(entries[k])
    BY DEF RowsOf
  <2> QED
    BY <2>2, <2>3
<1> QED
  BY <1>1 DEF RowsOf

\* Whoever a worker acts for is a user.
LEMMA ActorsTyped == \A w \in Worker : ActorsOf(w) \subseteq User
BY IndexAssumption DEF ActorsOf

\* An override leaves a configuration.
LEMMA WithTyped ==
  ASSUME NEW config \in Config, NEW fields, NEW w \in Worker
  PROVE  With(config, fields, w) \in Config
BY DEF With, Config

\* A request that is over has a job of the right type.
LEMMA EndedTyped == Ended \in Job
BY IndexAssumption DEF Ended, Job

-----------------------------------------------------------------------------
(* Initial states *)

\* What a creation starts with.
LEMMA CreationsTyped ==
  ASSUME NEW w \in Worker, NEW j \in Creations(w)
  PROVE  /\ j \in Job /\ j.pc = "begin" /\ j.op = "create" /\ j.id = w /\ j.copy = <<>>
         /\ j.changes = {} /\ j.config \in Config
<1>1. PICK actor \in ActorsOf(w), fields \in AtCreation :
        j = Creation(w, actor, fields)
  BY DEF Creations
<1>2. [f \in Field |-> Default] \in Config
  BY DEF Config
<1>3. With([f \in Field |-> Default], fields, w) \in Config /\ actor \in User /\ w \in Id
  BY <1>2, WithTyped, ActorsTyped DEF Id
<1>4. j = [pc |-> "begin", op |-> "create", id |-> w, actor |-> actor, changes |-> {},
           config |-> With([f \in Field |-> Default], fields, w), copy |-> <<>>]
  BY <1>1 DEF Creation, Ended
<1> DEFINE config == With([f \in Field |-> Default], fields, w)
<1> HIDE DEF config
<1>5. config \in Config
  BY <1>3 DEF config
<1>6. j = [pc |-> "begin", op |-> "create", id |-> w, actor |-> actor, changes |-> {},
           config |-> config, copy |-> <<>>]
  BY <1>4 DEF config
<1> QED
  BY <1>3, <1>5, <1>6 DEF Job

\* What a run starts with.
LEMMA RunsTyped ==
  ASSUME NEW w \in Worker, NEW j \in Runs(w)
  PROVE  /\ j \in Job /\ j.pc = "resolve" /\ j.op = "none" /\ j.id \in Id \ Worker
         /\ j.copy = <<>> /\ j.config = None
<1>1. PICK actor \in ActorsOf(w), id \in Id \ Worker, fields \in SUBSET Field :
        j = Run(actor, id, fields)
  BY IndexAssumption DEF Runs
<1>2. actor \in User
  BY ActorsTyped
<1>3. j = [pc |-> "resolve", op |-> "none", id |-> id, actor |-> actor, changes |-> fields,
           config |-> None, copy |-> <<>>]
  BY <1>1 DEF Run, Ended
<1> QED
  BY <1>2, <1>3 DEF Job

\* At first no request has read anything.
LEMMA IndexInit == Init => IndexInv
<1> SUFFICES ASSUME Init PROVE IndexInv
  OBVIOUS
<1>1. \A w \in Worker : job[w] \in Creations(w) \cup Runs(w)
  BY DEF Init
<1>2. \A w \in Worker :
        /\ job[w] \in Job /\ job[w].copy = <<>>
        /\ \/ /\ job[w].pc = "begin" /\ job[w].op = "create" /\ job[w].id = w
              /\ job[w].changes = {} /\ job[w].config \in Config
           \/ /\ job[w].pc = "resolve" /\ job[w].op = "none" /\ job[w].id \in Id \ Worker
              /\ job[w].config = None
  BY <1>1, CreationsTyped, RunsTyped
<1>3. job \in [Worker -> Job]
  <2>1. job = [w \in Worker |-> job[w]]
    BY DEF Init
  <2> QED
    BY <1>2, <2>1
<1>4. /\ index \in Seq(Entry) /\ OneEntryEach(index)
      /\ \A i \in 1..Len(index) : index[i].id \notin Worker
  <2>1. CASE index = Index0
    BY <2>1, IndexAssumption
  <2>2. CASE index = [i \in 1..Len(Index0) |-> [Index0[i] EXCEPT !.owner = OwnerOf(Index0[i])]]
    <3>1. Len(Index0) \in Nat /\ \A i \in 1..Len(Index0) : Index0[i] \in Entry
      BY IndexAssumption
    <3>2. \A i \in 1..Len(Index0) : index[i] \in Entry /\ index[i].id = Index0[i].id
      BY <2>2, <3>1, IndexAssumption DEF Entry, OwnerOf
    <3>3. index \in Seq(Entry) /\ Len(index) = Len(Index0)
      BY <2>2, <3>1, <3>2
    <3> QED
      BY <3>2, <3>3, IndexAssumption DEF OneEntryEach
  <2> QED
    BY <2>1, <2>2 DEF Init
<1>5. Types
  <2>1. \A w \in Worker : OneEntryEach(job[w].copy)
    BY <1>2 DEF OneEntryEach
  <2> QED
    BY <1>3, <1>4, <2>1 DEF Init, Types
<1>6. \A w \in Worker : JobFits(w)
  BY <1>2 DEF JobFits, AtStore, Id
<1>7. \A w \in Worker : Unmet(w) /\ HasMutex(w) /\ HasRunLock(w)
  BY <1>2, <1>4 DEF Unmet, Has, HasMutex, HasRunLock, AtStore
<1>8. \A w \in Worker \ disturbed : CopyIsCurrent(w) /\ ConfigIsCurrent(w)
  BY <1>2 DEF CopyIsCurrent, ConfigIsCurrent
<1> QED
  BY <1>5, <1>6, <1>7, <1>8 DEF IndexInv

-----------------------------------------------------------------------------
(* Steps that leave the index as it is *)

\* One worker moves and keeps what it knows; the others keep their locks.
LEMMA QuietStep ==
  ASSUME IndexInv, NEW w \in Worker, NEW j \in Job,
         UNCHANGED <<backend, index>>, job' = [job EXCEPT ![w] = j],
         disturbed' = disturbed \/ disturbed' = disturbed \ {w},
         j.copy \in {job[w].copy, index, <<>>},
         j.op = "create" => job[w].op = "create",
         mutex' \in [Process -> Worker \cup {None}],
         \A v \in Worker \ {w} : mutex[ProcessOf(v)] = v => mutex'[ProcessOf(v)] = v,
         runLock' \in [Id -> Server \cup {None}],
         \A id \in Id, v \in Worker \ {w} : runLock[id] = v => runLock'[id] = v,
         JobFits(w)', HasMutex(w)', HasRunLock(w)',
         w \notin disturbed' => CopyIsCurrent(w)' /\ ConfigIsCurrent(w)'
  PROVE  IndexInv'
<1>1. Types /\ job \in [Worker -> Job]
  BY DEF IndexInv, Types
<1>2. job' \in [Worker -> Job] /\ job'[w] = j /\ \A v \in Worker \ {w} : job'[v] = job[v]
  BY <1>1
<1>3. OneEntryEach(<<>>)
  BY DEF OneEntryEach
<1>4. Types'
  <2>1. \A v \in Worker : OneEntryEach(job'[v].copy)
    BY <1>1, <1>2, <1>3 DEF Types
  <2> QED
    BY <1>1, <1>2, <2>1 DEF Types
<1>5. ASSUME NEW v \in Worker \ {w}
      PROVE  JobFits(v)' /\ HasMutex(v)' /\ HasRunLock(v)'
  <2>1. job'[v] = job[v]
    BY <1>2
  <2>2. JobFits(v) /\ HasMutex(v) /\ HasRunLock(v)
    BY DEF IndexInv
  <2>3. JobFits(v)'
    BY <2>1, <2>2 DEF JobFits
  <2>4. HasMutex(v)'
    BY <2>1, <2>2 DEF HasMutex
  <2>5. HasRunLock(v)'
    BY <2>1, <2>2 DEF HasRunLock, JobFits, AtStore
  <2> QED
    BY <2>3, <2>4, <2>5
<1>6. ASSUME NEW v \in Worker
      PROVE  Unmet(v)'
  <2>1. job'[v].op = "create" => job[v].op = "create"
    BY <1>2
  <2>2. Unmet(v)
    BY DEF IndexInv
  <2>3. ~Has(<<>>, v)
    BY DEF Has
  <2>4. ASSUME job[v].op = "create", NEW u \in Worker
        PROVE  ~Has(job'[u].copy, v)
    BY <1>2, <2>2, <2>3, <2>4 DEF Unmet
  <2> QED
    BY <2>1, <2>2, <2>4 DEF Unmet
<1>7. ASSUME NEW v \in Worker \ {w}, v \notin disturbed'
      PROVE  CopyIsCurrent(v)' /\ ConfigIsCurrent(v)'
  <2>1. job'[v] = job[v] /\ CopyIsCurrent(v) /\ ConfigIsCurrent(v)
    BY <1>2, <1>7 DEF IndexInv
  <2> QED
    BY <2>1 DEF CopyIsCurrent, ConfigIsCurrent, Matches
<1> QED
  BY <1>4, <1>5, <1>6, <1>7 DEF IndexInv

\* A worker goes: it gives back what it holds.
LEMMA EndStep ==
  ASSUME IndexInv, NEW w \in Worker, End(w), disturbed' = disturbed \ {w},
         UNCHANGED <<backend, index>>,
         mutex' = mutex \/ mutex' = [mutex EXCEPT ![ProcessOf(w)] = None],
         mutex' # mutex => mutex[ProcessOf(w)] = w
  PROVE  IndexInv'
<1>1. Types /\ job \in [Worker -> Job] /\ None \notin Worker
  BY IndexAssumption DEF IndexInv, Types
<1>2. /\ Ended \in Job /\ Ended.copy = <<>> /\ Ended.pc = "done" /\ Ended.op = "none"
      /\ Ended.config = None /\ Ended.id = None
  BY EndedTyped DEF Ended
<1>3. job' = [job EXCEPT ![w] = Ended] /\ job'[w] = Ended
  BY <1>1 DEF End, Become
<1>4. /\ mutex' \in [Process -> Worker \cup {None}]
      /\ \A v \in Worker \ {w} : mutex[ProcessOf(v)] = v => mutex'[ProcessOf(v)] = v
  <2>1. CASE mutex' = mutex
    BY <1>1, <2>1 DEF Types
  <2>2. CASE mutex' # mutex
    <3>1. mutex' = [mutex EXCEPT ![ProcessOf(w)] = None] /\ mutex[ProcessOf(w)] = w
      BY <2>2
    <3>2. \A v \in Worker : ProcessOf(v) \in Process
      BY DEF ProcessOf, Process, Worker
    <3>3. \A v \in Worker \ {w} : mutex[ProcessOf(v)] = v => ProcessOf(v) # ProcessOf(w)
      BY <3>1
    <3> QED
      BY <1>1, <3>1, <3>2, <3>3 DEF Types
  <2> QED
    BY <2>1, <2>2
<1>5. /\ runLock' \in [Id -> Server \cup {None}]
      /\ \A id \in Id, v \in Worker \ {w} : runLock[id] = v => runLock'[id] = v
  BY <1>1 DEF End, Types
<1>6. JobFits(w)' /\ HasMutex(w)' /\ HasRunLock(w)' /\ CopyIsCurrent(w)' /\ ConfigIsCurrent(w)'
  BY <1>1, <1>2, <1>3, IndexAssumption
  DEF JobFits, HasMutex, HasRunLock, CopyIsCurrent, ConfigIsCurrent, AtStore
<1> QED
  BY <1>2, <1>3, <1>4, <1>5, <1>6, QuietStep

\* The steps of a worker before it reaches the store.
LEMMA ReadingStep ==
  ASSUME IndexInv, NEW w \in Worker,
         Resolve(w) \/ LockRun(w) \/ ResolveAgain(w) \/ FinishTurn(w) \/ Enter(w) \/ Load(w)
  PROVE  IndexInv'
<1>1. /\ Types /\ job \in [Worker -> Job] /\ job[w] \in Job /\ index \in Seq(Entry)
      /\ JobFits(w) /\ HasMutex(w) /\ HasRunLock(w)
      /\ w \notin disturbed => CopyIsCurrent(w) /\ ConfigIsCurrent(w)
      /\ None \notin Worker /\ None \notin Config
  BY IndexAssumption DEF IndexInv, Types
<1>2. CASE Resolve(w)
  <2> DEFINE j == [job[w] EXCEPT !.pc = IF w \in Server THEN "lock" ELSE "turn"]
  <2>1. /\ j \in Job /\ j.pc \in {"lock", "turn"} /\ (w \in Server <=> j.pc = "lock")
        /\ j.op = job[w].op /\ j.id = job[w].id /\ j.changes = job[w].changes
        /\ j.config = job[w].config /\ j.copy = job[w].copy
    BY <1>1 DEF Job
  <2>2. job' = [job EXCEPT ![w] = j] /\ job[w].pc = "resolve"
        /\ UNCHANGED <<backend, index, mutex, runLock, disturbed>>
    BY <1>2 DEF Resolve, Move, Become, At
  <2>3. job'[w] = j
    BY <1>1, <2>2
  <2> HIDE DEF j
  <2>4. job[w].config = None
    BY <1>1, <2>2 DEF JobFits, AtStore
  <2>5. JobFits(w)'
    BY <1>1, <2>1, <2>2, <2>3, <2>4 DEF JobFits, AtStore
  <2>6. HasMutex(w)' /\ HasRunLock(w)' /\ CopyIsCurrent(w)' /\ ConfigIsCurrent(w)'
    BY <2>1, <2>3, <2>4 DEF HasMutex, HasRunLock, CopyIsCurrent, ConfigIsCurrent, AtStore
  <2> QED
    BY <1>1, <2>1, <2>2, <2>5, <2>6, QuietStep DEF Types
<1>3. CASE LockRun(w)
  <2> DEFINE j == [job[w] EXCEPT !.pc = "locked"]
  <2>1. /\ j \in Job /\ j.pc = "locked"
        /\ j.op = job[w].op /\ j.id = job[w].id /\ j.changes = job[w].changes
        /\ j.config = job[w].config /\ j.copy = job[w].copy
    BY <1>1 DEF Job
  <2>2. job' = [job EXCEPT ![w] = j] /\ job[w].pc = "lock" /\ runLock[job[w].id] = None
        /\ runLock' = [runLock EXCEPT ![job[w].id] = w]
        /\ UNCHANGED <<backend, index, mutex, disturbed>>
    BY <1>3 DEF LockRun, Move, Become, At
  <2>3. job'[w] = j
    BY <1>1, <2>2
  <2> HIDE DEF j
  <2>4. JobFits(w)' /\ HasMutex(w)' /\ CopyIsCurrent(w)' /\ ConfigIsCurrent(w)'
    BY <1>1, <2>1, <2>2, <2>3 DEF JobFits, HasMutex, CopyIsCurrent, ConfigIsCurrent, AtStore
  <2>5. w \in Server /\ job[w].id \in Id
    BY <1>1, <2>2 DEF JobFits
  <2>6. /\ runLock' \in [Id -> Server \cup {None}] /\ runLock'[job[w].id] = w
        /\ \A id \in Id, v \in Worker \ {w} : runLock[id] = v => runLock'[id] = v
    BY <1>1, <2>2, <2>5 DEF Types
  <2>7. HasRunLock(w)'
    BY <2>1, <2>3, <2>6 DEF HasRunLock
  <2> QED
    BY <1>1, <2>1, <2>2, <2>4, <2>6, <2>7, QuietStep DEF Types
<1>4. CASE ResolveAgain(w)
  <2> DEFINE old == job[w]
             config == IF old.changes = {} THEN None ELSE With(ConfigAt(index, old), old.changes, w)
             next(to) == [old EXCEPT !.pc = to, !.config = config]
  <2>1. PICK from \in {"locked", "reread"}, to \in {"turn", "begin"} :
          /\ from = "locked" => to = "turn"
          /\ from = "reread" => to = "begin"
          /\ old.pc = from /\ Matches(index, old) # {}
          /\ job' = [job EXCEPT ![w] = next(to)]
          /\ UNCHANGED <<backend, index, mutex, runLock, disturbed>>
    BY <1>4 DEF ResolveAgain, ReadConfig, Become, At
  <2> DEFINE k == CHOOSE i \in Matches(index, old) : TRUE
  <2>2. k \in Matches(index, old)
    BY <2>1
  <2>3. /\ k \in 1..Len(index)
        /\ \A i \in Matches(index, old) : i = k
    BY <1>1, <2>2 DEF Matches, Types, OneEntryEach
  <2>4. ConfigAt(index, old) = index[k].config /\ index[k].config \in Config
    <3>1. ConfigAt(index, old) = index[k].config
      BY DEF ConfigAt
    <3>2. index[k] \in Entry
      BY <1>1, <2>3
    <3> QED
      BY <3>1, <3>2 DEF Entry
  <2>5. /\ config \in Config \cup {None} /\ (config # None <=> old.changes # {})
        /\ old.changes # {} => config = With(index[k].config, old.changes, w)
    BY <1>1, <2>4, WithTyped
  <2> HIDE DEF config, k
  <2> DEFINE j == next(to)
  <2>6. /\ j \in Job /\ j.pc = to /\ j.config = config
        /\ j.op = old.op /\ j.id = old.id /\ j.changes = old.changes /\ j.copy = old.copy
        /\ j.actor = old.actor
    BY <1>1, <2>5 DEF Job
  <2>7. job' = [job EXCEPT ![w] = j] /\ job'[w] = j
    BY <1>1, <2>1
  <2> HIDE DEF j
  <2>8. JobFits(w)' /\ HasMutex(w)' /\ HasRunLock(w)' /\ CopyIsCurrent(w)'
    BY <1>1, <2>1, <2>5, <2>6, <2>7 DEF JobFits, HasMutex, HasRunLock, CopyIsCurrent, AtStore
  <2>9. Matches(index, j) = Matches(index, old)
    BY <2>6 DEF Matches
  <2>10. ConfigIsCurrent(w)'
    BY <2>1, <2>3, <2>5, <2>6, <2>7, <2>9 DEF ConfigIsCurrent
  <2> QED
    BY <1>1, <2>1, <2>6, <2>7, <2>8, <2>10, QuietStep DEF Types, JobFits
<1>5. CASE FinishTurn(w)
  <2> DEFINE old == job[w]
             op == IF old.changes = {} THEN "touch" ELSE "update"
             pc == IF w \in Command /\ op = "update" THEN "reread" ELSE "begin"
             j == [old EXCEPT !.op = op, !.pc = pc]
  <2>1. /\ old.pc = "turn" /\ job' = [job EXCEPT ![w] = j]
        /\ UNCHANGED <<backend, index, mutex, runLock, disturbed>>
    BY <1>5 DEF FinishTurn, Become, At
  <2>2. /\ op \in {"touch", "update"} /\ pc \in {"reread", "begin"}
        /\ op = "touch" <=> old.changes = {}
        /\ pc = "reread" => w \notin Server /\ op = "update"
        /\ pc = "begin" /\ op = "update" => w \in Server
    BY IndexAssumption DEF Worker
  <2> HIDE DEF op, pc
  <2>3. /\ j \in Job /\ j.pc = pc /\ j.op = op /\ j.config = old.config
        /\ j.id = old.id /\ j.changes = old.changes /\ j.copy = old.copy /\ j.actor = old.actor
    BY <1>1, <2>2 DEF Job
  <2>4. job'[w] = j
    BY <1>1, <2>1
  <2> HIDE DEF j
  <2>5. JobFits(w)' /\ HasMutex(w)' /\ HasRunLock(w)' /\ CopyIsCurrent(w)'
    BY <1>1, <2>1, <2>2, <2>3, <2>4 DEF JobFits, HasMutex, HasRunLock, CopyIsCurrent, AtStore
  <2>6. Matches(index, j) = Matches(index, old)
    BY <2>3 DEF Matches
  <2>7. w \notin disturbed => ConfigIsCurrent(w)'
    BY <1>1, <2>1, <2>3, <2>4, <2>6 DEF ConfigIsCurrent, JobFits
  <2> QED
    BY <1>1, <2>1, <2>2, <2>3, <2>5, <2>7, QuietStep DEF Types
<1>6. CASE Enter(w)
  <2> DEFINE j == [job[w] EXCEPT !.pc = "enter"]
  <2>1. /\ j \in Job /\ j.pc = "enter" /\ j.actor = job[w].actor
        /\ j.op = job[w].op /\ j.id = job[w].id /\ j.changes = job[w].changes
        /\ j.config = job[w].config /\ j.copy = job[w].copy
    BY <1>1 DEF Job
  <2>2. job' = [job EXCEPT ![w] = j] /\ job[w].pc = "begin" /\ backend = "file"
        /\ UNCHANGED <<backend, index, mutex, runLock, disturbed>>
    BY <1>6 DEF Enter, Move, Become, At
  <2>3. job'[w] = j
    BY <1>1, <2>2
  <2> HIDE DEF j
  <2>4. JobFits(w)' /\ HasMutex(w)' /\ HasRunLock(w)' /\ CopyIsCurrent(w)'
    BY <1>1, <2>1, <2>2, <2>3 DEF JobFits, HasMutex, HasRunLock, CopyIsCurrent, AtStore
  <2>5. Matches(index, j) = Matches(index, job[w])
    BY <2>1 DEF Matches
  <2>6. w \notin disturbed => ConfigIsCurrent(w)'
    BY <1>1, <2>1, <2>2, <2>3, <2>5 DEF ConfigIsCurrent, JobFits
  <2> QED
    BY <1>1, <2>1, <2>2, <2>4, <2>6, QuietStep DEF Types
<1>7. CASE Load(w)
  <2> DEFINE j == [job[w] EXCEPT !.pc = "save", !.copy = index]
  <2>1. /\ j \in Job /\ j.pc = "save" /\ j.actor = job[w].actor
        /\ j.op = job[w].op /\ j.id = job[w].id /\ j.changes = job[w].changes
        /\ j.config = job[w].config /\ j.copy = index
    BY <1>1 DEF Job
  <2>2. job' = [job EXCEPT ![w] = j] /\ job[w].pc = "enter" /\ mutex[ProcessOf(w)] = None
        /\ mutex' = [mutex EXCEPT ![ProcessOf(w)] = w]
        /\ UNCHANGED <<backend, index, runLock, disturbed>>
    BY <1>7 DEF Load, Become, At, Available
  <2>3. job'[w] = j
    BY <1>1, <2>2
  <2> HIDE DEF j
  <2>4. \A v \in Worker : ProcessOf(v) \in Process
    BY DEF ProcessOf, Process, Worker
  <2>5. /\ mutex' \in [Process -> Worker \cup {None}] /\ mutex'[ProcessOf(w)] = w
        /\ \A v \in Worker \ {w} : mutex[ProcessOf(v)] = v => mutex'[ProcessOf(v)] = v
    BY <1>1, <2>2, <2>4 DEF Types
  <2>6. JobFits(w)' /\ HasMutex(w)' /\ HasRunLock(w)' /\ CopyIsCurrent(w)'
    BY <1>1, <2>1, <2>2, <2>3, <2>5 DEF JobFits, HasMutex, HasRunLock, CopyIsCurrent, AtStore
  <2>7. Matches(index, j) = Matches(index, job[w])
    BY <2>1 DEF Matches
  <2>8. w \notin disturbed => ConfigIsCurrent(w)'
    BY <1>1, <2>1, <2>2, <2>3, <2>7 DEF ConfigIsCurrent, JobFits
  <2> QED
    BY <1>1, <2>1, <2>2, <2>5, <2>6, <2>8, QuietStep DEF Types
<1> QED
  BY <1>2, <1>3, <1>4, <1>5, <1>6, <1>7

\* A worker that finds no session, gives up or fails to save.
LEMMA LeavingStep ==
  ASSUME IndexInv, NEW w \in Worker, NotFound(w) \/ GiveUp(w) \/ SaveFails(w)
  PROVE  IndexInv'
<1>1. HasMutex(w)
  BY DEF IndexInv
<1>2. CASE NotFound(w) \/ GiveUp(w)
  BY <1>2, EndStep DEF NotFound, GiveUp
<1>3. CASE SaveFails(w)
  BY <1>1, <1>3, EndStep DEF SaveFails, HasMutex, At
<1> QED
  BY <1>2, <1>3

-----------------------------------------------------------------------------
(* Steps that write the index *)

\* What the store writes: one entry for each session, those that were there
\* and the one that is created.
LEMMA AppliedEntries ==
  ASSUME NEW entries \in Seq(Entry), OneEntryEach(entries), NEW j \in Job, j.id \in Id,
         j.op \in {"create", "update"} => j.config \in Config,
         j.op = "create" => ~Has(entries, j.id)
  PROVE  /\ Applied(entries, j) \in Seq(Entry)
         /\ OneEntryEach(Applied(entries, j))
         /\ \A id : Has(Applied(entries, j), id) => Has(entries, id) \/ (j.op = "create" /\ id = j.id)
         /\ \A i \in 1..Len(Applied(entries, j)) :
              \/ i \in 1..Len(entries) /\ Applied(entries, j)[i] = entries[i]
              \/ Applied(entries, j)[i].id = j.id
<1>1. CASE j.op = "create"
  <2>1. Applied(entries, j) = Created(entries, j) /\ j.config \in Config /\ ~Has(entries, j.id)
    BY <1>1 DEF Applied
  <2>2. /\ Created(entries, j) \in Seq(Entry)
        /\ OneEntryEach(Created(entries, j))
        /\ Len(Created(entries, j)) = Len(entries) + 1
        /\ \A i \in 1..Len(entries) : Created(entries, j)[i] = entries[i]
        /\ Created(entries, j)[Len(entries) + 1].id = j.id
    <3> DEFINE e == [id |-> j.id, owner |-> j.actor, config |-> j.config]
    <3>1. e.id = j.id
      OBVIOUS
    <3> HIDE DEF e
    <3>2. /\ Created(entries, j) \in Seq(Entry)
          /\ OneEntryEach(Created(entries, j))
          /\ Len(Created(entries, j)) = Len(entries) + 1
          /\ \A i \in 1..Len(entries) : Created(entries, j)[i] = entries[i]
          /\ Created(entries, j)[Len(entries) + 1] = e
      BY <2>1, CreatedEntries DEF e
    <3> QED
      BY <3>1, <3>2
  <2>3. \A i \in 1..(Len(entries) + 1) : i \in 1..Len(entries) \/ i = Len(entries) + 1
    OBVIOUS
  <2> QED
    BY <1>1, <2>1, <2>2, <2>3 DEF Has
<1>2. CASE j.op # "create"
  <2>1. Applied(entries, j) = Updated(entries, j)
    BY <1>2 DEF Applied
  <2>2. /\ Updated(entries, j) \in Seq(Entry)
        /\ OneEntryEach(Updated(entries, j))
        /\ Len(Updated(entries, j)) = Len(entries)
        /\ \A i \in 1..Len(entries) :
              /\ Updated(entries, j)[i].id = entries[i].id
              /\ i \notin Matches(entries, j) => Updated(entries, j)[i] = entries[i]
    BY UpdatedEntries
  <2>3. \A i \in Matches(entries, j) : i \in 1..Len(entries) /\ entries[i].id = j.id
    BY DEF Matches
  <2> QED
    BY <2>1, <2>2, <2>3 DEF Has
<1> QED
  BY <1>1, <1>2

\* An entry is found again where the write did not touch its session.
LEMMA ElsewhereUnchanged ==
  ASSUME NEW entries \in Seq(Entry), OneEntryEach(entries), NEW j \in Job, j.id \in Id,
         j.op \in {"create", "update"} => j.config \in Config,
         j.op = "create" => ~Has(entries, j.id),
         NEW other \in Job, other.id # j.id,
         NEW i \in Matches(Applied(entries, j), other)
  PROVE  i \in Matches(entries, other) /\ Applied(entries, j)[i] = entries[i]
<1>1. i \in 1..Len(Applied(entries, j)) /\ Applied(entries, j)[i].id = other.id
      /\ OwnerOf(Applied(entries, j)[i]) = other.actor
  BY DEF Matches
<1>2. i \in 1..Len(entries) /\ Applied(entries, j)[i] = entries[i]
  BY <1>1, AppliedEntries
<1> QED
  BY <1>1, <1>2 DEF Matches

\* The job of a worker that has written: over, or a command's prompt.
Following(w, j) ==
  /\ j \in Job /\ j.pc \in {"done", "turn"} /\ j.op = "none" /\ j.config = None
  /\ j.copy = <<>> /\ j.changes = {}
  /\ j.pc = "turn" => w \notin Server /\ j.id = w
  /\ j.pc = "done" => j.id = None

\* A request goes on to its next access, and takes no lock from another.
LEMMA ProceedFacts ==
  ASSUME IndexInv, NEW w \in Worker, Proceed(w), job[w].pc \in AtStore
  PROVE  \E j : /\ Following(w, j) /\ job' = [job EXCEPT ![w] = j]
                /\ runLock' \in [Id -> Server \cup {None}]
                /\ \A id \in Id, v \in Worker \ {w} : runLock[id] = v => runLock'[id] = v
<1>1. Types /\ JobFits(w)
  BY DEF IndexInv
<1>2. /\ Ended \in Job /\ Ended.copy = <<>> /\ Ended.pc = "done" /\ Ended.op = "none"
      /\ Ended.config = None /\ Ended.id = None /\ Ended.changes = {}
  BY EndedTyped DEF Ended
<1>3. CASE w \in Command /\ job[w].op = "create"
  <2> DEFINE j == [Ended EXCEPT !.pc = "turn", !.id = job[w].id]
  <2>1. job' = [job EXCEPT ![w] = j] /\ runLock' = runLock
    BY <1>3 DEF Proceed, Become
  <2>2. job[w].id = w /\ w \in Id /\ w \notin Server
    BY <1>1, <1>3, IndexAssumption DEF JobFits, Id
  <2>3. Following(w, j)
    BY <1>2, <2>2 DEF Following, Job
  <2> QED
    BY <1>1, <2>1, <2>3 DEF Types
<1>4. CASE ~(w \in Command /\ job[w].op = "create")
  <2>1. End(w)
    BY <1>4 DEF Proceed
  <2>2. job' = [job EXCEPT ![w] = Ended]
        /\ runLock' = [id \in Id |-> IF runLock[id] = w THEN None ELSE runLock[id]]
    BY <2>1 DEF End, Become
  <2>3. Following(w, Ended)
    BY <1>2 DEF Following
  <2>4. /\ runLock' \in [Id -> Server \cup {None}]
        /\ \A id \in Id, v \in Worker \ {w} : runLock[id] = v => runLock'[id] = v
    BY <1>1, <2>2 DEF Types
  <2> QED
    BY <2>2, <2>3, <2>4
<1> QED
  BY <1>3, <1>4

\* Workers of one process are requests of the server.
LEMMA OneProcess ==
  ASSUME NEW v \in Worker, NEW w \in Worker, v # w, ProcessOf(v) = ProcessOf(w)
  PROVE  v \in Server /\ w \in Server
BY IndexAssumption DEF ProcessOf, Worker

\* Two requests to one server that are about to write are not about one
\* session: both have its run lock, or one is yet to create it.
LEMMA OneWriterEach ==
  ASSUME IndexInv, NEW v \in Server, NEW w \in Server, v # w,
         job[w].pc \in AtStore, job[v].op # "create",
         job[v].pc \in AtStore \cup {"turn"}
  PROVE  job[v].id # job[w].id
<1>1. /\ JobFits(v) /\ JobFits(w) /\ HasRunLock(v) /\ HasRunLock(w)
      /\ v \in Worker /\ w \in Worker
  BY DEF IndexInv, Worker
<1>2. runLock[job[v].id] = v
  BY <1>1 DEF HasRunLock
<1>3. CASE job[w].op = "create"
  BY <1>1, <1>3 DEF JobFits
<1>4. CASE job[w].op # "create"
  BY <1>1, <1>2, <1>4 DEF HasRunLock
<1> QED
  BY <1>3, <1>4

\* The index becomes what a worker makes of the entries it has read.
LEMMA WriteStep ==
  ASSUME IndexInv, NEW w \in Worker, job[w].pc \in AtStore,
         NEW entries \in Seq(Entry), OneEntryEach(entries),
         \A v \in Worker : job[v].op = "create" => ~Has(entries, v),
         w \notin disturbed => entries = index,
         index' = Applied(entries, job[w]),
         Proceed(w), Disturbs(w), UNCHANGED backend,
         mutex' \in [Process -> Worker \cup {None}],
         \A v \in Worker \ {w} : mutex[ProcessOf(v)] = v => mutex'[ProcessOf(v)] = v,
         \A v \in Worker \ {w} : job[v].pc = "save" => ProcessOf(v) # ProcessOf(w)
  PROVE  IndexInv'
<1>1. /\ Types /\ JobFits(w) /\ job \in [Worker -> Job] /\ job[w] \in Job /\ job[w].id \in Id
  BY DEF IndexInv, Types, JobFits, AtStore
<1>2. PICK j : /\ Following(w, j) /\ job' = [job EXCEPT ![w] = j]
               /\ runLock' \in [Id -> Server \cup {None}]
               /\ \A id \in Id, v \in Worker \ {w} : runLock[id] = v => runLock'[id] = v
  BY ProceedFacts
<1>3. /\ j \in Job /\ job' \in [Worker -> Job] /\ job'[w] = j
      /\ \A v \in Worker \ {w} : job'[v] = job[v]
  BY <1>1, <1>2 DEF Following
<1>4. /\ job[w].op \in {"create", "update"} => job[w].config \in Config
      /\ job[w].op = "create" => ~Has(entries, job[w].id)
  BY <1>1 DEF JobFits, Job, AtStore
<1>5. /\ index' \in Seq(Entry) /\ OneEntryEach(index')
      /\ \A id : Has(index', id) =>
           Has(entries, id) \/ (job[w].op = "create" /\ id = job[w].id)
  BY <1>1, <1>4, AppliedEntries
<1>6. disturbed' \subseteq Worker
  BY <1>1 DEF Disturbs, Types
<1>7. Types'
  <2>1. \A v \in Worker : OneEntryEach(job'[v].copy)
    BY <1>1, <1>2, <1>3 DEF Types, Following, OneEntryEach
  <2> QED
    BY <1>1, <1>2, <1>3, <1>5, <1>6, <2>1 DEF Types
<1>8. JobFits(w)' /\ HasMutex(w)' /\ HasRunLock(w)' /\ CopyIsCurrent(w)' /\ ConfigIsCurrent(w)'
  <2>1. None \notin Worker /\ w \in Id
    BY IndexAssumption DEF Id
  <2>2. JobFits(w)'
    BY <1>2, <1>3, <2>1 DEF Following, JobFits, AtStore
  <2> QED
    BY <1>2, <1>3, <2>2
    DEF Following, HasMutex, HasRunLock, CopyIsCurrent, ConfigIsCurrent, AtStore
<1>9. ASSUME NEW v \in Worker \ {w}
      PROVE  JobFits(v)' /\ HasMutex(v)' /\ HasRunLock(v)'
  <2>1. job'[v] = job[v] /\ JobFits(v) /\ HasMutex(v) /\ HasRunLock(v)
    BY <1>3 DEF IndexInv
  <2>2. JobFits(v)' /\ HasMutex(v)'
    BY <2>1 DEF JobFits, HasMutex
  <2>3. HasRunLock(v)'
    BY <1>2, <2>1 DEF HasRunLock, JobFits, AtStore
  <2> QED
    BY <2>2, <2>3
<1>10. ASSUME NEW v \in Worker
       PROVE  Unmet(v)'
  <2>1. SUFFICES ASSUME job'[v].op = "create" PROVE Unmet(v)'
    BY DEF Unmet
  <2>2. v # w /\ job[v].op = "create"
    BY <1>2, <1>3, <2>1 DEF Following
  <2>3. Unmet(v) /\ ~Has(<<>>, v)
    BY DEF IndexInv, Has
  <2>4. v # job[w].id
    BY <1>1, <2>2 DEF JobFits
  <2>5. ~Has(index', v)
    BY <1>5, <2>2, <2>4
  <2>6. \A u \in Worker : ~Has(job'[u].copy, v)
    BY <1>2, <1>3, <2>2, <2>3 DEF Unmet, Following
  <2> QED
    BY <2>5, <2>6 DEF Unmet
<1>11. ASSUME NEW v \in Worker \ {w}, v \notin disturbed'
       PROVE  CopyIsCurrent(v)' /\ ConfigIsCurrent(v)'
  <2>1. /\ job'[v] = job[v] /\ JobFits(v) /\ v \notin disturbed
        /\ CopyIsCurrent(v) /\ ConfigIsCurrent(v)
    BY <1>3, <1>11 DEF IndexInv, Disturbs
  <2>2. HasRead(v) => ProcessOf(v) = ProcessOf(w) /\ w \notin disturbed
    BY <1>11 DEF Disturbs
  <2>3. CopyIsCurrent(v)'
    BY <2>1, <2>2 DEF CopyIsCurrent, HasRead
  <2>4. SUFFICES ASSUME job[v].op # "create", job[v].config # None PROVE ConfigIsCurrent(v)'
    BY <2>1, <2>3 DEF ConfigIsCurrent
  <2>5. job[v].changes # {} /\ job[v].pc \in AtStore \cup {"turn"}
    BY <2>1, <2>4 DEF JobFits
  <2>6. ProcessOf(v) = ProcessOf(w) /\ entries = index
    BY <2>2, <2>4, <2>5 DEF HasRead
  <2>7. job[v].id # job[w].id
    BY <2>4, <2>5, <2>6, OneProcess, OneWriterEach
  <2>8. job[v] \in Job
    BY <1>1
  <2>9. \A i \in Matches(index', job[v]) : i \in Matches(index, job[v]) /\ index'[i] = index[i]
    BY <1>1, <1>4, <2>6, <2>7, <2>8, ElsewhereUnchanged
  <2> QED
    BY <2>1, <2>4, <2>9 DEF ConfigIsCurrent
<1> QED
  BY <1>7, <1>8, <1>9, <1>10, <1>11 DEF IndexInv

\* A save of either store keeps the invariant.
LEMMA StoreStep ==
  ASSUME IndexInv, NEW w \in Worker, Save(w) \/ Execute(w)
  PROVE  IndexInv'
<1>1. Types /\ JobFits(w) /\ HasMutex(w) /\ \A v \in Worker : JobFits(v) /\ HasMutex(v) /\ Unmet(v)
  BY DEF IndexInv
<1>2. CASE Save(w)
  <2>1. /\ job[w].pc = "save" /\ index' = Applied(job[w].copy, job[w])
        /\ mutex' = [mutex EXCEPT ![ProcessOf(w)] = None]
        /\ Proceed(w) /\ Disturbs(w) /\ UNCHANGED backend
    BY <1>2 DEF Save, At
  <2>2. job[w].copy \in Seq(Entry) /\ OneEntryEach(job[w].copy)
    BY <1>1 DEF Types, Job
  <2>3. mutex[ProcessOf(w)] = w
    BY <1>1, <2>1 DEF HasMutex
  <2>4. \A v \in Worker \ {w} : job[v].pc = "save" => ProcessOf(v) # ProcessOf(w)
    BY <1>1, <2>3 DEF HasMutex
  <2>5. \A v \in Worker : ProcessOf(v) \in Process
    BY DEF ProcessOf, Process, Worker
  <2>6. /\ mutex' \in [Process -> Worker \cup {None}]
        /\ \A v \in Worker \ {w} : mutex[ProcessOf(v)] = v => mutex'[ProcessOf(v)] = v
    BY <1>1, <2>1, <2>3, <2>5 DEF Types
  <2>7. w \notin disturbed => job[w].copy = index
    BY <2>1 DEF IndexInv, CopyIsCurrent
  <2>8. \A v \in Worker : job[v].op = "create" => ~Has(job[w].copy, v)
    BY <1>1 DEF Unmet
  <2> QED
    BY <2>1, <2>2, <2>4, <2>6, <2>7, <2>8, WriteStep DEF AtStore
<1>3. CASE Execute(w)
  <2>1. /\ job[w].pc = "begin" /\ backend = "postgres" /\ index' = Applied(index, job[w])
        /\ Proceed(w) /\ Disturbs(w) /\ UNCHANGED <<backend, mutex>>
    BY <1>3 DEF Execute, At
  <2>2. \A v \in Worker : job[v].pc # "save"
    BY <1>1, <2>1 DEF JobFits
  <2>3. index \in Seq(Entry) /\ OneEntryEach(index) /\ mutex \in [Process -> Worker \cup {None}]
    BY <1>1 DEF Types
  <2>4. \A v \in Worker : job[v].op = "create" => ~Has(index, v)
    BY <1>1 DEF Unmet
  <2> QED
    BY <2>1, <2>2, <2>3, <2>4, WriteStep DEF AtStore
<1> QED
  BY <1>2, <1>3

\* The invariant holds throughout.
LEMMA IndexInvariant == Spec => []IndexInv
<1>1. ASSUME IndexInv, [Next]_vars PROVE IndexInv'
  <2>1. CASE UNCHANGED vars
    BY <1>1, <2>1
    DEF vars, IndexInv, Types, JobFits, Unmet, Has, HasMutex, HasRunLock, CopyIsCurrent,
        ConfigIsCurrent, Matches
  <2>2. CASE Next
    BY <1>1, <2>2, ReadingStep, LeavingStep, StoreStep DEF Next, Step
  <2> QED
    BY <1>1, <2>1, <2>2
<1> QED
  BY IndexInit, <1>1, PTL DEF Spec

-----------------------------------------------------------------------------
(* The refinement *)

\* A new entry is a new row.
LEMMA CreatedRows ==
  ASSUME NEW entries \in Seq(Entry), OneEntryEach(entries), NEW j \in Job,
         j.id \in Id, j.config \in Config, ~Has(entries, j.id)
  PROVE  /\ j.id \notin DOMAIN RowsOf(entries)
         /\ RowsOf(Created(entries, j)) =
              [id \in DOMAIN RowsOf(entries) \cup {j.id} |->
                 IF id = j.id THEN [owner |-> j.actor, config |-> j.config]
                 ELSE RowsOf(entries)[id]]
<1> DEFINE after == Created(entries, j)
           e == [id |-> j.id, owner |-> j.actor, config |-> j.config]
           n == Len(entries) + 1
<1>1. /\ after \in Seq(Entry) /\ OneEntryEach(after) /\ Len(after) = n
      /\ \A i \in 1..Len(entries) : after[i] = entries[i]
      /\ after[n] = e
  BY CreatedEntries
<1>2. RowOf(e) = [owner |-> j.actor, config |-> j.config] /\ e.id = j.id
  BY IndexAssumption DEF RowOf, OwnerOf, Job
<1> HIDE DEF after, e
<1>3. /\ DOMAIN RowsOf(entries) = {entries[i].id : i \in 1..Len(entries)}
      /\ \A i \in 1..Len(entries) : RowsOf(entries)[entries[i].id] = RowOf(entries[i])
  BY RowsFacts
<1>4. /\ DOMAIN RowsOf(after) = {after[i].id : i \in 1..n}
      /\ \A i \in 1..n : RowsOf(after)[after[i].id] = RowOf(after[i])
  BY <1>1, RowsFacts
<1>5. j.id \notin DOMAIN RowsOf(entries)
  BY <1>3 DEF Has
<1>6. \A i \in 1..n : i \in 1..Len(entries) \/ i = n
  OBVIOUS
<1>7. n \in 1..n /\ \A i \in 1..Len(entries) : i \in 1..n
  OBVIOUS
<1> HIDE DEF n
<1>8. DOMAIN RowsOf(after) = DOMAIN RowsOf(entries) \cup {j.id}
  <2>1. ASSUME NEW id \in DOMAIN RowsOf(after)
        PROVE  id \in DOMAIN RowsOf(entries) \cup {j.id}
    <3>1. PICK i \in 1..n : id = after[i].id
      BY <1>4
    <3>2. CASE i \in 1..Len(entries)
      BY <1>1, <1>3, <3>1, <3>2
    <3>3. CASE i = n
      BY <1>1, <1>2, <3>1, <3>3
    <3> QED
      BY <1>6, <3>2, <3>3
  <2>2. \A i \in 1..Len(entries) : entries[i].id \in DOMAIN RowsOf(after)
    BY <1>1, <1>4, <1>7
  <2>3. j.id \in DOMAIN RowsOf(after)
    BY <1>1, <1>2, <1>4, <1>7
  <2> QED
    BY <1>3, <2>1, <2>2, <2>3
<1>9. RowsOf(after)[j.id] = [owner |-> j.actor, config |-> j.config]
  BY <1>1, <1>2, <1>4, <1>7
<1>10. ASSUME NEW id \in DOMAIN RowsOf(entries)
       PROVE  RowsOf(after)[id] = RowsOf(entries)[id]
  <2>1. PICK i \in 1..Len(entries) : entries[i].id = id
    BY <1>3
  <2> QED
    BY <1>1, <1>3, <1>4, <1>7, <2>1
<1>11. RowsOf(after) = [id \in DOMAIN RowsOf(after) |-> RowsOf(after)[id]]
  BY DEF RowsOf
<1>12. RowsOf(after) =
         [id \in DOMAIN RowsOf(entries) \cup {j.id} |->
            IF id = j.id THEN [owner |-> j.actor, config |-> j.config] ELSE RowsOf(entries)[id]]
  BY <1>5, <1>8, <1>9, <1>10, <1>11
<1> QED
  BY <1>5, <1>12 DEF after

\* An update changes one row: in what the request names, or in nothing.
LEMMA UpdatedRows ==
  ASSUME NEW entries \in Seq(Entry), OneEntryEach(entries), NEW j \in Job, NEW w \in Worker,
         j.op \in {"touch", "update"}, j.op = "touch" => j.changes = {},
         j.op = "update" => j.config \in Config,
         NEW k \in Matches(entries, j),
         j.op = "update" => j.config = With(entries[k].config, j.changes, w)
  PROVE  /\ j.id \in DOMAIN RowsOf(entries)
         /\ RowsOf(entries)[j.id].owner = j.actor
         /\ RowsOf(Updated(entries, j)) =
              [RowsOf(entries) EXCEPT ![j.id].config =
                 [f \in Field |-> IF f \in j.changes THEN w ELSE @[f]]]
<1> DEFINE after == Updated(entries, j)
           row == RowsOf(entries)[j.id]
           new == [f \in Field |-> IF f \in j.changes THEN w ELSE row.config[f]]
<1>1. /\ after \in Seq(Entry) /\ OneEntryEach(after) /\ Len(after) = Len(entries)
      /\ \A i \in 1..Len(entries) :
           /\ after[i].id = entries[i].id
           /\ OwnerOf(after[i]) = OwnerOf(entries[i])
           /\ i \notin Matches(entries, j) => after[i] = entries[i]
           /\ i \in Matches(entries, j) =>
                after[i].config = IF j.op = "update" THEN j.config ELSE entries[i].config
  BY UpdatedEntries
<1>2. k \in 1..Len(entries) /\ entries[k].id = j.id /\ OwnerOf(entries[k]) = j.actor
      /\ entries[k] \in Entry
  BY DEF Matches
<1> HIDE DEF after
<1>3. /\ DOMAIN RowsOf(entries) = {entries[i].id : i \in 1..Len(entries)}
      /\ \A i \in 1..Len(entries) : RowsOf(entries)[entries[i].id] = RowOf(entries[i])
  BY RowsFacts
<1>4. /\ DOMAIN RowsOf(after) = {after[i].id : i \in 1..Len(entries)}
      /\ \A i \in 1..Len(entries) : RowsOf(after)[after[i].id] = RowOf(after[i])
  BY <1>1, RowsFacts
<1>5. /\ j.id \in DOMAIN RowsOf(entries) /\ row = RowOf(entries[k])
      /\ row.owner = j.actor /\ row.config = entries[k].config
      /\ row = [owner |-> j.actor, config |-> entries[k].config]
  BY <1>2, <1>3 DEF RowOf
<1>6. DOMAIN RowsOf(after) = DOMAIN RowsOf(entries)
  <2>1. \A i \in 1..Len(entries) : after[i].id = entries[i].id
    BY <1>1
  <2>2. {after[i].id : i \in 1..Len(entries)} = {entries[i].id : i \in 1..Len(entries)}
    BY ONLY <2>1
  <2> QED
    BY <1>3, <1>4, <2>2
<1>7. after[k].config = new
  <2>1. CASE j.op = "update"
    BY <1>1, <1>2, <1>5, <2>1 DEF With
  <2>2. CASE j.op = "touch"
    <3>1. new = [f \in Field |-> entries[k].config[f]]
      BY <1>5, <2>2
    <3>2. entries[k].config \in [Field -> {Default} \cup Worker]
      BY <1>2 DEF Entry, Config
    <3>3. entries[k].config = new
      BY <3>1, <3>2
    <3> QED
      BY <1>1, <1>2, <2>2, <3>3
  <2> QED
    BY <2>1, <2>2
<1> HIDE DEF new, row
<1>8. RowsOf(after)[j.id] = [owner |-> j.actor, config |-> new]
  <2>1. RowsOf(after)[j.id] = RowOf(after[k])
    BY <1>1, <1>2, <1>4
  <2>2. OwnerOf(after[k]) = j.actor
    BY <1>1, <1>2
  <2> QED
    BY <1>7, <2>1, <2>2 DEF RowOf
<1>9. ASSUME NEW id \in DOMAIN RowsOf(entries), id # j.id
      PROVE  RowsOf(after)[id] = RowsOf(entries)[id]
  <2>1. PICK i \in 1..Len(entries) : entries[i].id = id
    BY <1>3
  <2>2. i \notin Matches(entries, j)
    BY <1>9, <2>1 DEF Matches
  <2>3. after[i] = entries[i] /\ after[i].id = id
    BY <1>1, <2>1, <2>2
  <2>4. RowsOf(after)[id] = RowOf(entries[i])
    BY <1>4, <2>3
  <2> QED
    BY <1>3, <2>1, <2>4
<1>10. /\ RowsOf(after) = [id \in DOMAIN RowsOf(after) |-> RowsOf(after)[id]]
       /\ RowsOf(entries) = [id \in DOMAIN RowsOf(entries) |-> RowsOf(entries)[id]]
  BY DEF RowsOf
<1>11. [row EXCEPT !.config = new] = [owner |-> j.actor, config |-> new]
  BY <1>5
<1>12. RowsOf(after) = [RowsOf(entries) EXCEPT ![j.id] = [row EXCEPT !.config = new]]
  BY <1>5, <1>6, <1>8, <1>9, <1>10, <1>11
<1> QED
  BY <1>5, <1>12 DEF after, new, row

\* What an undisturbed worker writes is what its request asked for.
LEMMA WriteIsAsked ==
  ASSUME IndexInv, NEW w \in Worker, w \notin disturbed, job[w].pc \in AtStore,
         CanApply(index, job[w]), index' = Applied(index, job[w])
  PROVE  Asked(w)
<1> DEFINE j == job[w]
<1>1. /\ Types /\ JobFits(w) /\ Unmet(w) /\ ConfigIsCurrent(w)
      /\ index \in Seq(Entry) /\ OneEntryEach(index) /\ j \in Job /\ j.id \in Id
  BY DEF IndexInv, Types, JobFits, AtStore
<1>2. /\ j.op \in {"create", "touch", "update"}
      /\ j.op \in {"create", "update"} => j.config \in Config
      /\ j.op = "touch" => j.changes = {}
  BY <1>1 DEF JobFits, Job, AtStore
<1>3. CASE j.op = "create"
  <2>1. j.id = w /\ ~Has(index, j.id)
    BY <1>1, <1>3 DEF JobFits, Unmet
  <2>2. [owner |-> j.actor, config |-> j.config] \in [owner : User, config : Config]
    BY <1>1, <1>2, <1>3 DEF Job
  <2>3. /\ j.id \notin DOMAIN RowsOf(index)
        /\ RowsOf(index') =
              [id \in DOMAIN RowsOf(index) \cup {j.id} |->
                 IF id = j.id THEN [owner |-> j.actor, config |-> j.config]
                 ELSE RowsOf(index)[id]]
    BY <1>1, <1>2, <1>3, <2>1, CreatedRows DEF Applied
  <2> QED
    BY <1>3, <2>2, <2>3 DEF Asked, Store!Create, Store!Row, Rows, Config
<1>4. CASE j.op # "create"
  <2>1. PICK k \in Matches(index, j) : TRUE
    BY <1>4 DEF CanApply
  <2>2. j.op = "update" => j.config # None
    BY <1>1 DEF JobFits
  <2>3. j.op = "update" => j.config = With(index[k].config, j.changes, w)
    BY <1>1, <1>4, <2>2 DEF ConfigIsCurrent
  <2>4. /\ j.id \in DOMAIN RowsOf(index)
        /\ RowsOf(index)[j.id].owner = j.actor
        /\ RowsOf(index') =
              [RowsOf(index) EXCEPT ![j.id].config =
                 [f \in Field |-> IF f \in j.changes THEN w ELSE @[f]]]
    <3>1. index' = Updated(index, j)
      BY <1>4 DEF Applied
    <3>2. j.op \in {"touch", "update"}
      BY <1>2, <1>4
    <3> HIDE DEF j
    <3> QED
      BY <1>1, <1>2, <2>3, <3>1, <3>2, UpdatedRows
  <2> QED
    BY <1>2, <1>4, <2>4 DEF Asked, Store!Override, Rows
<1> QED
  BY <1>3, <1>4

\* Every step is the abstract step of some request, the step of a worker that
\* was overtaken, or none.
LEMMA StepIsAsked ==
  ASSUME IndexInv, [Next]_vars
  PROVE  [\E w \in Worker : Asked(w) \/ Overtaken(w)]_Rows
<1>1. CASE UNCHANGED index
  BY <1>1 DEF Rows
<1>2. ASSUME NEW w \in Worker, Save(w) \/ Execute(w)
      PROVE  Asked(w) \/ Overtaken(w)
  <2>1. Types /\ job \in [Worker -> Job]
    BY DEF IndexInv, Types
  <2>2. CASE w \notin disturbed
    <3>1. CASE Save(w)
      <4>1. job[w].pc = "save" /\ job[w].copy = index
        BY <2>2, <3>1 DEF Save, At, IndexInv, CopyIsCurrent
      <4> QED
        BY <2>2, <3>1, <4>1, WriteIsAsked DEF Save, AtStore
    <3>2. CASE Execute(w)
      BY <2>2, <3>2, WriteIsAsked DEF Execute, At, AtStore
    <3> QED
      BY <1>2, <3>1, <3>2
  <2>3. CASE w \in disturbed
    <3>1. job[w].pc \in AtStore /\ Proceed(w)
      BY <1>2 DEF Save, Execute, At, AtStore
    <3>2. PICK j : Following(w, j) /\ job' = [job EXCEPT ![w] = j]
      BY <3>1, ProceedFacts
    <3>3. job'[w] = j
      BY <2>1, <3>2
    <3> QED
      BY <2>3, <3>1, <3>2, <3>3 DEF Overtaken, Following, AtStore
  <2> QED
    BY <2>2, <2>3
<1>3. CASE \E w \in Worker : Save(w) \/ Execute(w)
  BY <1>2, <1>3
<1>4. CASE Next /\ ~\E w \in Worker : Save(w) \/ Execute(w)
  <2>1. UNCHANGED index
    BY <1>4
    DEF Next, Step, Resolve, LockRun, ResolveAgain, ReadConfig, FinishTurn, NotFound, Enter, Load,
        SaveFails, GiveUp
  <2> QED
    BY <1>1, <2>1
<1> QED
  BY <1>1, <1>3, <1>4 DEF vars

\* Both stores implement SessionMetadata: every change of the metadata is the
\* one that some request of its user asked for, whole and to nothing else,
\* unless another process saved in between.  The mutex of the Manager and the
\* run lock of the server make load and save one step, for any number of
\* requests, commands and sessions (manager.go L212 and L243, session.go L432).
THEOREM StoresImplementMetadata == Spec => ImplementsStore
<1>1. IndexInv => TypeOK
  <2> SUFFICES ASSUME IndexInv PROVE TypeOK
    OBVIOUS
  <2>1. Types
    BY DEF IndexInv
  <2>2. ASSUME NEW w \in Worker
        PROVE  /\ job[w].pc \in {"resolve", "lock", "locked", "turn", "reread",
                                 "begin", "enter", "save", "done"}
               /\ job[w].op \in {"none", "create", "touch", "update"}
               /\ job[w].config \in Config \cup {None}
    <3>1. job[w] \in Job
      BY <2>1 DEF Types
    <3> QED
      BY <3>1 DEF Job
  <2> QED
    BY <2>1, <2>2 DEF TypeOK, Types
<1>2. IndexInv /\ [Next]_vars => [\E w \in Worker : Asked(w) \/ Overtaken(w)]_Rows
  BY StepIsAsked
<1> QED
  BY IndexInvariant, <1>1, <1>2, PTL DEF Spec, ImplementsStore

=============================================================================
