---------------------------- MODULE SessionIndex -----------------------------
(***************************************************************************)
(* The metadata of the managed sessions and the requests that change it:   *)
(* the requests of one server (internal/application/service/session.go)    *)
(* and the commands of the command line (cmd/cli/main.go), each of which   *)
(* is a process of its own.  Two stores implement the same interface.  The *)
(* file store (internal/session/manager.go) loads the whole index file,    *)
(* changes its copy and renames a new file over the old one, under a mutex *)
(* of the process.  The PostgreSQL store (internal/storage/postgres/       *)
(* store.go) runs one statement on one row.                                *)
(*                                                                         *)
(* Titles and times are left out, and so is the "current" pointer of the   *)
(* index, which nothing reads.                                             *)
(***************************************************************************)
EXTENDS Naturals, Sequences, FiniteSets

CONSTANTS
  Server,        \* the requests of the server
  Command,       \* the commands of the command line
  User, Local,   \* the users, and the one the command line acts for
  Field,         \* the preferences of a session
  ByRequest,     \* those a request to the server may override
  AtCreation,    \* a bound: the sets of preferences given at creation
  Default,       \* the value of a preference nobody has chosen
  Index0,        \* the entries found at the start
  None           \* no owner, no holder, no configuration

Worker == Server \cup Command

\* A session created by w is named after w: newSessionID never repeats.
Id == {Index0[i].id : i \in 1..Len(Index0)} \cup Worker

Config == [Field -> {Default} \cup Worker]

Entry == [id : Id, owner : User \cup {None}, config : Config]

OneEntryEach(entries) ==
  \A i, k \in 1..Len(entries) : entries[i].id = entries[k].id => i = k

ASSUME IndexAssumption ==
  /\ Server \cap Command = {}
  /\ "server" \notin Command
  /\ Local \in User
  /\ ByRequest \subseteq Field
  /\ AtCreation \subseteq SUBSET Field
  /\ None \notin User \cup Worker \cup Config
  /\ Default \notin Worker
  /\ Index0 \in Seq(Entry)
  /\ OneEntryEach(Index0)
  /\ \A i \in 1..Len(Index0) : Index0[i].id \notin Worker

VARIABLES
  backend,     \* which store is used: "file" or "postgres"
  index,       \* the entries: id, owner, config
  mutex,       \* who holds the mutex of each process's Manager
  runLock,     \* who holds the server's run lock of each session
  job,         \* what each worker is doing
  disturbed    \* history: workers overtaken by another process, between their
               \* read and their save

vars == <<backend, index, mutex, runLock, job, disturbed>>

Process == {"server"} \cup Command
ProcessOf(w) == IF w \in Server THEN "server" ELSE w

With(config, fields, w) == [f \in Field |-> IF f \in fields THEN w ELSE config[f]]

\* Entries from before owners were kept have none, and belong to Local.
OwnerOf(entry) == IF entry.owner = None THEN Local ELSE entry.owner

\* The positions of the session that a job is about, for the user it acts for.
Matches(entries, j) ==
  {i \in 1..Len(entries) : entries[i].id = j.id /\ OwnerOf(entries[i]) = j.actor}

ConfigAt(entries, j) == entries[CHOOSE i \in Matches(entries, j) : TRUE].config

Created(entries, j) ==
  Append(entries, [id |-> j.id, owner |-> j.actor, config |-> j.config])

\* The entries after Touch or UpdateConfig, which writes the whole
\* configuration.
Updated(entries, j) ==
  [i \in 1..Len(entries) |->
     IF i \notin Matches(entries, j) THEN entries[i]
     ELSE [id |-> j.id, owner |-> j.actor,
           config |-> IF j.op = "update" THEN j.config ELSE entries[i].config]]

Applied(entries, j) ==
  IF j.op = "create" THEN Created(entries, j) ELSE Updated(entries, j)

CanApply(entries, j) == j.op = "create" \/ Matches(entries, j) # {}

Ended == [pc |-> "done", op |-> "none", id |-> None, actor |-> Local,
         changes |-> {}, config |-> None, copy |-> <<>>]

ActorsOf(w) == IF w \in Server THEN User ELSE {Local}

\* A request to create a session: the preferences it does not give have their
\* defaults (defaultSessionConfig, newCLIManagedSessionConfig).
Creation(w, actor, fields) ==
  [Ended EXCEPT !.pc = "begin", !.op = "create", !.id = w, !.actor = actor,
                !.config = With([f \in Field |-> Default], fields, w)]

Creations(w) == {Creation(w, actor, fields) : actor \in ActorsOf(w), fields \in AtCreation}

\* A request to run a prompt on a session, with preferences to use from now
\* on; the user may not own the session.
Run(actor, id, fields) ==
  [Ended EXCEPT !.pc = "resolve", !.id = id, !.actor = actor, !.changes = fields]

Runs(w) ==
  {Run(actor, id, fields) :
      actor \in ActorsOf(w), id \in Id \ Worker,
      fields \in SUBSET (IF w \in Server THEN ByRequest ELSE Field)}

Init ==
  /\ backend \in {"file", "postgres"}
  /\ index = IF backend = "file" THEN Index0
             ELSE [i \in 1..Len(Index0) |-> [Index0[i] EXCEPT !.owner = OwnerOf(Index0[i])]]
  /\ mutex = [p \in Process |-> None]
  /\ runLock = [id \in Id |-> None]
  /\ job \in [Worker -> UNION {Creations(w) \cup Runs(w) : w \in Worker}]
  /\ \A w \in Worker : job[w] \in Creations(w) \cup Runs(w)
  /\ disturbed = {}

At(w, pc) == job[w].pc = pc
Become(w, j) == job' = [job EXCEPT ![w] = j]
Move(w, from, to) == At(w, from) /\ Become(w, [job[w] EXCEPT !.pc = to])

\* The worker's part is over; the deferred unlock of the server runs.
End(w) ==
  /\ Become(w, Ended)
  /\ runLock' = [id \in Id |-> IF runLock[id] = w THEN None ELSE runLock[id]]

-----------------------------------------------------------------------------
(* The requests *)

\* Resolve reads the index without the mutex: it sees one file or the next.
\* The command line goes on to its turn, the server to the run lock.
Resolve(w) ==
  /\ Matches(index, job[w]) # {}
  /\ Move(w, "resolve", IF w \in Server THEN "lock" ELSE "turn")
  /\ UNCHANGED <<backend, index, mutex, runLock, disturbed>>

\* lockSessionRun.
LockRun(w) ==
  /\ Move(w, "lock", "locked")
  /\ runLock[job[w].id] = None
  /\ runLock' = [runLock EXCEPT ![job[w].id] = w]
  /\ UNCHANGED <<backend, index, mutex, disturbed>>

\* The configuration that UpdateConfig will write, if the request changes any:
\* what is stored now, with the changes.  The server reads it before the turn,
\* under the run lock; the command line after it (touchManagedSession).
ReadConfig(w, from, to) ==
  LET j == job[w]
  IN /\ At(w, from)
     /\ Matches(index, j) # {}
     /\ Become(w, [j EXCEPT !.pc = to,
          !.config = IF j.changes = {} THEN None ELSE With(ConfigAt(index, j), j.changes, w)])
     /\ UNCHANGED <<backend, index, mutex, runLock, disturbed>>

ResolveAgain(w) == ReadConfig(w, "locked", "turn") \/ ReadConfig(w, "reread", "begin")

\* The turn ends well; what is left is to record it (persistRunSuccess,
\* touchManagedSession).  A session that the command line just created is
\* recorded with Touch: its options are in it already.
FinishTurn(w) ==
  LET j == job[w]
      op == IF j.changes = {} THEN "touch" ELSE "update"
  IN /\ At(w, "turn")
     /\ Become(w, [j EXCEPT !.op = op,
          !.pc = IF w \in Command /\ op = "update" THEN "reread" ELSE "begin"])
     /\ UNCHANGED <<backend, index, mutex, runLock, disturbed>>

\* Resolve, or the statement on the row, finds no session of this user.
NotFound(w) ==
  /\ \/ job[w].pc \in {"resolve", "locked", "reread"}
     \/ At(w, "begin") /\ backend = "postgres" /\ job[w].op # "create"
  /\ Matches(index, job[w]) = {}
  /\ End(w)
  /\ disturbed' = disturbed \ {w}
  /\ UNCHANGED <<backend, index, mutex>>

\* The context is done, the configuration does not load, the turn fails, or
\* the store refuses before it has done anything.
GiveUp(w) ==
  /\ job[w].pc \in {"resolve", "lock", "locked", "turn", "reread", "begin"}
  /\ End(w)
  /\ disturbed' = disturbed \ {w}
  /\ UNCHANGED <<backend, index, mutex>>

-----------------------------------------------------------------------------
(* The store *)

\* Mutant of Available: the Manager has no mutex.
AvailableAlways(w) == TRUE

Available(w) == mutex[ProcessOf(w)] = None

\* The file store looks at the context and then waits for the mutex, however
\* long that takes.
Enter(w) ==
  /\ backend = "file"
  /\ Move(w, "begin", "enter")
  /\ UNCHANGED <<backend, index, mutex, runLock, disturbed>>

\* The worker gets the mutex and loads the index.
Load(w) ==
  /\ At(w, "enter")
  /\ Available(w)
  /\ mutex' = [mutex EXCEPT ![ProcessOf(w)] = w]
  /\ Become(w, [job[w] EXCEPT !.pc = "save", !.copy = index])
  /\ UNCHANGED <<backend, index, runLock, disturbed>>

\* What follows a successful operation: a command that created its session
\* runs its prompt.
Proceed(w) ==
  IF w \in Command /\ job[w].op = "create"
    THEN /\ Become(w, [Ended EXCEPT !.pc = "turn", !.id = job[w].id])
         /\ UNCHANGED runLock
    ELSE End(w)

\* A worker has read something that it is going to save.
HasRead(w) ==
  \/ job[w].pc = "save"
  \/ job[w].config # None /\ job[w].changes # {}

\* Workers of other processes that have read what w now replaces, and of any
\* process when w itself is about to undo another process's save.
Disturbs(w) ==
  disturbed' = (disturbed \ {w}) \cup
    {v \in Worker : HasRead(v) /\ (ProcessOf(v) # ProcessOf(w) \/ w \in disturbed) /\ v # w}

\* The new index file is renamed over the old one and the mutex given back.
Save(w) ==
  /\ At(w, "save")
  /\ CanApply(job[w].copy, job[w])
  /\ index' = Applied(job[w].copy, job[w])
  /\ mutex' = [mutex EXCEPT ![ProcessOf(w)] = None]
  /\ Proceed(w)
  /\ Disturbs(w)
  /\ UNCHANGED backend

\* Mutant of SaveFails: the mutex stays with a worker that has gone.
SaveFailsHolding(w) ==
  /\ At(w, "save")
  /\ End(w)
  /\ disturbed' = disturbed \ {w}
  /\ UNCHANGED <<backend, index, mutex>>

\* The index does not load, the session is not in it, or the new file cannot
\* be written or renamed; the old one stays.
SaveFails(w) ==
  /\ At(w, "save")
  /\ mutex' = [mutex EXCEPT ![ProcessOf(w)] = None]
  /\ End(w)
  /\ disturbed' = disturbed \ {w}
  /\ UNCHANGED <<backend, index>>

\* One statement on the row; it fails when it finds none (NotFound).
Execute(w) ==
  /\ backend = "postgres"
  /\ At(w, "begin")
  /\ CanApply(index, job[w])
  /\ index' = Applied(index, job[w])
  /\ Proceed(w)
  /\ Disturbs(w)
  /\ UNCHANGED <<backend, mutex>>

-----------------------------------------------------------------------------
(* Behaviours *)

Step(w) ==
  \/ Resolve(w) \/ LockRun(w) \/ ResolveAgain(w) \/ FinishTurn(w) \/ NotFound(w)
  \/ Enter(w) \/ Load(w) \/ Save(w) \/ SaveFails(w) \/ Execute(w)

Next == \E w \in Worker : Step(w) \/ GiveUp(w)

Spec == Init /\ [][Next]_vars

\* Every goroutine and process runs, and every turn ends.  Nothing has to give
\* up.
FairSpec == Spec /\ \A w \in Worker : WF_vars(Step(w))

-----------------------------------------------------------------------------
(* Properties *)

\* The type of every variable, with one entry for each session.
TypeOK ==
  /\ backend \in {"file", "postgres"}
  /\ index \in Seq(Entry) /\ OneEntryEach(index)
  /\ mutex \in [Process -> Worker \cup {None}]
  /\ runLock \in [Id -> Server \cup {None}]
  /\ \A w \in Worker :
       /\ job[w].pc \in {"resolve", "lock", "locked", "turn", "reread",
                         "begin", "enter", "save", "done"}
       /\ job[w].op \in {"none", "create", "touch", "update"}
       /\ job[w].config \in Config \cup {None}
  /\ disturbed \subseteq Worker

\* The index as the abstract store sees it.
RowOf(entry) == [owner |-> OwnerOf(entry), config |-> entry.config]

RowsOf(entries) ==
  [id \in {entries[i].id : i \in 1..Len(entries)} |->
     RowOf(entries[CHOOSE i \in 1..Len(entries) : entries[i].id = id])]

Rows == RowsOf(index)

Store == INSTANCE SessionMetadata WITH rows <- Rows, Value <- {Default} \cup Worker

\* The abstract step that a worker's request stands for: it reaches the
\* metadata only of a session of its user, and only what the request names.
Asked(w) ==
  LET j == job[w]
  IN \/ j.op = "create" /\ Store!Create(j.id, [owner |-> j.actor, config |-> j.config])
     \/ /\ j.op \in {"touch", "update"}
        /\ j.id \in DOMAIN Rows
        /\ Rows[j.id].owner = j.actor
        /\ Store!Override(j.id, j.changes, w)

\* A worker that another process has overtaken goes on.
Overtaken(w) == w \in disturbed /\ job'[w] # job[w]

\* Every change of the metadata is the one that some request asked for, whole
\* and to nothing else, unless another process saved in between: the mutex and
\* the run lock make load and save one step within a process (manager.go L212
\* and L243, session.go L432), and nothing does between processes.  The types
\* of the variables, with one entry for each session, are part of it.
ImplementsStore == []TypeOK /\ [][\E w \in Worker : Asked(w) \/ Overtaken(w)]_Rows

\* Every request and every command ends, whichever step of it fails.
EveryRequestEnds == <>(\A w \in Worker : At(w, "done"))

=============================================================================
