------------------------------- MODULE RunSetup -------------------------------
(***************************************************************************)
(* From a request to the runtime that serves it: which provider a request  *)
(* asks for, what the session remembers of it, and what the providers file *)
(* says at the moments it is read.  The file is edited by hand while the   *)
(* server runs, and is read again for every decision: to check the         *)
(* provider of a session, to build the runtime (configured.go), to create  *)
(* a session, for the diagnostics (application/service/session.go), and by *)
(* the command line (cmd/cli/main.go).                                     *)
(*                                                                         *)
(* One session is looked at, and one request at a time: what concurrent    *)
(* requests do to its metadata is in SessionIndex.                         *)
(***************************************************************************)
CONSTANTS
  Names,        \* provider names as people write them, "" among them
  Trim,         \* strings.TrimSpace on Names
  Files,        \* contents the providers file may have
  ServiceNames  \* what the server may be started with as --provider

Types == {"fake", "openai_compatible", "other"}

\* complete: base_url, model and api_key_env are not blank.  key: the variable
\* api_key_env names is set.
Providers == [type : Types, complete : BOOLEAN, key : BOOLEAN]

NoSession == "no session"
NoRuntime == "no runtime"

\* The YAML reader lower-cases keys and leaves values alone: a provider is
\* found under names as the keys are written only.
ASSUME SetupAssumption ==
  /\ "" \in Names /\ NoSession \notin Names /\ NoRuntime \notin Names
  /\ ServiceNames \subseteq Names
  /\ Trim \in [Names -> Names] /\ Trim[""] = ""
  /\ \A name \in Names : Trim[Trim[name]] = Trim[name]
  /\ \A f \in Files :
       /\ f.readable \in BOOLEAN
       /\ f.default \in Names
       /\ DOMAIN f.providers \subseteq {name \in Names \ {""} : Trim[name] = name}
       /\ \A name \in DOMAIN f.providers : f.providers[name] \in Providers

VARIABLES
  file,      \* the providers file
  service,   \* --provider of the server
  stored,    \* the provider in the session's metadata, or NoSession
  request,   \* the request being served
  diagnosed  \* the last diagnosis, while the file stays as it was

vars == <<file, service, stored, request, diagnosed>>

-----------------------------------------------------------------------------
(* The file *)

\* config.Load: one incomplete provider makes the whole file invalid.
Loadable(f) ==
  /\ f.readable
  /\ \A name \in DOMAIN f.providers :
       f.providers[name].type = "openai_compatible" => f.providers[name].complete

Default(name, f) == IF name = "" THEN f.default ELSE name

Configured(name, f) == name \in DOMAIN f.providers

\* NewConfiguredRuntime: the provider is in the file and of a type that is
\* registered.  A missing key is no error here.
Buildable(name, f) ==
  /\ Loadable(f)
  /\ Configured(Default(name, f), f)
  /\ f.providers[Default(name, f)].type \in {"fake", "openai_compatible"}

\* Mutant of Diagnosis: a type nobody registered needs no key either.
DiagnosisByKey(name, f) ==
  IF ~(Loadable(f) /\ Configured(Default(name, f), f)) THEN "error"
  ELSE LET provider == f.providers[Default(name, f)]
       IN  IF provider.type # "openai_compatible" \/ provider.key THEN "ready" ELSE "not ready"

\* CurrentProviderDiagnostics.
Diagnosis(name, f) ==
  IF ~(Loadable(f) /\ Configured(Default(name, f), f)) THEN "error"
  ELSE LET provider == f.providers[Default(name, f)]
       IN  IF \/ provider.type = "fake"
              \/ provider.type = "openai_compatible" /\ provider.key
           THEN "ready" ELSE "not ready"

-----------------------------------------------------------------------------
(* Requests *)

Operations == {"run", "stream", "once", "new", "resume"}

\* provider: what the request resolves to.  runs: what its runtime was built
\* with.  intact: the file is as it was when the request came.
Idle == [op |-> "none", name |-> "", at |-> "idle", provider |-> "",
         runs |-> NoRuntime, intact |-> TRUE, answer |-> "none"]

Init ==
  /\ file \in Files
  /\ service \in ServiceNames
  /\ stored = NoSession
  /\ request = Idle
  /\ diagnosed = "none"

\* Somebody edits the file.
EditFile ==
  /\ file' \in Files \ {file}
  /\ request' = [request EXCEPT !.intact = request.at = "idle"]
  /\ diagnosed' = "none"
  /\ UNCHANGED <<service, stored>>

Diagnose ==
  /\ diagnosed' = Diagnosis(service, file)
  /\ UNCHANGED <<file, service, stored, request>>

First(a, b) == IF a # "" THEN a ELSE b

\* POST /sessions: the provider of a new session is not looked up.  The file is
\* read when neither the request nor the server names one.
Create ==
  /\ request.at = "idle"
  /\ \E name \in Names :
       LET said == First(Trim[name], Trim[service])
       IN  /\ said = "" => Loadable(file)
           /\ stored' = First(said, Trim[file.default])
  /\ UNCHANGED <<file, service, request, diagnosed>>

\* A run is asked for, of the server or of the command line; sessions are
\* resumed that exist.
Ask ==
  /\ request.at = "idle"
  /\ \E op \in Operations, name \in Names :
       /\ op \in {"run", "stream", "resume"} => stored # NoSession
       /\ request' = [Idle EXCEPT !.op = op, !.name = name, !.at = "resolve"]
  /\ UNCHANGED <<file, service, stored, diagnosed>>

Resolved(provider) == request' = [request EXCEPT !.provider = provider, !.at = "build"]
Answer(answer) == request' = [request EXCEPT !.at = "done", !.answer = answer]

\* The request names a provider of its own.
Override(name) == Trim[name] # ""

\* Mutant of Wanted: what the session has stored comes first.
WantedStoredFirst(name) == First(stored, First(Trim[name], Trim[service]))

\* resolveRunConfig: the request, the session, the server, in this order.
Wanted(name) == First(Trim[name], First(stored, Trim[service]))

\* ensureProviderConfigured.  Of a session's stored provider every failure is
\* put down to the choice of provider, an unreadable file as well.
ResolveRun ==
  /\ request.at = "resolve" /\ request.op \in {"run", "stream"}
  /\ LET provider == Wanted(request.name)
     IN  IF provider = "" \/ (Loadable(file) /\ Configured(provider, file))
           THEN Resolved(provider)
         ELSE IF Loadable(file) \/ (stored # "" /\ ~Override(request.name))
           THEN Answer("choose another provider")
         ELSE Answer("no runtime")
  /\ UNCHANGED <<file, service, stored, diagnosed>>

\* newCLISessionWithStore for --resume: only a stored provider is checked.
ResolveResume ==
  /\ request.at = "resolve" /\ request.op = "resume"
  /\ IF Override(request.name) THEN Resolved(Trim[request.name])
     ELSE IF stored = "" THEN Resolved(stored)
     ELSE IF ~Loadable(file) THEN Answer("no runtime")
     ELSE IF Configured(stored, file) THEN Resolved(stored)
     ELSE Answer("choose another provider")
  /\ UNCHANGED <<file, service, stored, diagnosed>>

\* newCLIManagedSessionConfig for --new-session: a default is taken from the
\* file and pinned.
ResolveNew ==
  /\ request.at = "resolve" /\ request.op = "new"
  /\ IF Override(request.name) THEN Resolved(Trim[request.name])
     ELSE IF Loadable(file) THEN Resolved(Trim[file.default])
     ELSE Answer("no runtime")
  /\ UNCHANGED <<file, service, stored, diagnosed>>

\* A command without a managed session passes the name on as it is.
ResolveOnce ==
  /\ request.at = "resolve" /\ request.op = "once"
  /\ Resolved(request.name)
  /\ UNCHANGED <<file, service, stored, diagnosed>>

\* NewConfiguredRuntime reads the file again.
Build ==
  /\ request.at = "build"
  /\ IF Buildable(request.provider, file)
       THEN request' = [request EXCEPT
              !.runs = Default(request.provider, file),
              !.at = IF request.op = "new" THEN "create" ELSE "run"]
       ELSE Answer("no runtime")
  /\ UNCHANGED <<file, service, stored, diagnosed>>

\* The command line creates its session once its runtime is built.
CreateManaged ==
  /\ request.at = "create"
  /\ \/ stored' = request.provider /\ request' = [request EXCEPT !.at = "run"]
     \/ Answer("failed") /\ UNCHANGED stored
  /\ UNCHANGED <<file, service, diagnosed>>

\* The turn completes, or not.
Turn ==
  /\ request.at = "run"
  /\ \/ request' = [request EXCEPT !.at = "record"]
     \/ Answer("failed")
  /\ UNCHANGED <<file, service, stored, diagnosed>>

\* Mutant of Records: every completed run writes its provider back.
RecordsAlways == request.op \in {"run", "stream", "resume"}

\* A completed run that named a provider makes it the session's.
Records == request.op \in {"run", "stream", "resume"} /\ Override(request.name)

\* persistRunSuccess and touchManagedSession; the metadata store may fail.
Record ==
  /\ request.at = "record"
  /\ \/ /\ stored' = IF Records THEN request.provider ELSE stored
        /\ Answer("ok")
     \/ Answer("failed") /\ UNCHANGED stored
  /\ UNCHANGED <<file, service, diagnosed>>

Return ==
  /\ request.at = "done"
  /\ request' = Idle
  /\ UNCHANGED <<file, service, stored, diagnosed>>

Next ==
  \/ EditFile \/ Diagnose \/ Create \/ Ask
  \/ ResolveRun \/ ResolveResume \/ ResolveNew \/ ResolveOnce
  \/ Build \/ CreateManaged \/ Turn \/ Record \/ Return

Spec == Init /\ [][Next]_vars

-----------------------------------------------------------------------------
(* Properties *)

\* The type of every variable.
TypeOK ==
  /\ file \in Files
  /\ service \in ServiceNames
  /\ stored \in Names \cup {NoSession}
  /\ request \in
       [op : Operations \cup {"none"},
        name : Names,
        at : {"idle", "resolve", "build", "create", "run", "record", "done"},
        provider : Names,
        runs : Names \cup {NoRuntime},
        intact : BOOLEAN,
        answer : {"none", "choose another provider", "no runtime", "failed", "ok"}]
  /\ diagnosed \in {"none", "error", "not ready", "ready"}

\* The provider of a session changes only by a completed run that named it and
\* ran on it, however often the file, its default and the server's choice
\* change in between; and the command line leaves no session behind for which
\* it could not build a runtime (resolveRunConfig L330-339, persistRunSuccess
\* L371-378, cli/main.go L280-301 and L375-400).
ProviderFollowsRuns ==
  [][stored' # stored =>
       \/ request.at = "idle"
       \/ request.at = "create" /\ request.runs # NoRuntime
       \/ request.at = "record" /\ Trim[request.name] = request.runs /\ stored' = request.runs]_vars

Refused == request.answer \in {"choose another provider", "no runtime"}

\* A request whose provider is the one the server was asked about.
LeftToService ==
  /\ request.op \in {"run", "stream"}
  /\ Trim[request.name] = ""
  /\ stored \in {"", Trim[Default(service, file)]}

\* While the file stays as it was, a server that says its provider is ready
\* serves every run that leaves the choice to it, of a session created before
\* or after: the diagnostics and the two readings of a run agree, though each
\* has its own rules for names and types (L212-262, L324-369, configured.go).
\* The types of the variables are part of it.
ReadyMeansRunnable ==
  /\ TypeOK
  /\ diagnosed = "ready" /\ request.intact /\ LeftToService => ~Refused

\* A session can always be run by naming a provider that the file has,
\* whatever has become of its own; after the run the session has the named one
\* (L330-351; the message of L350 promises it).
RescuedByName ==
  /\ request.at = "done" /\ request.intact
  /\ request.op \in {"run", "stream", "resume"}
  /\ Override(request.name) /\ Buildable(Trim[request.name], file)
  => /\ ~Refused
     /\ request.answer = "ok" => stored = Trim[request.name]

=============================================================================
