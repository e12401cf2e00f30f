------------------------------ MODULE InputProofs ------------------------------
(***************************************************************************)
(* What the program makes of its inputs, for every value of the constants. *)
(* Startup: what is said by flag is what is opened.  RunSetup: the         *)
(* readings of the providers file agree where nobody edits it in between,  *)
(* and a session follows the runs that name a provider.  ModelOutput: what *)
(* is checked is what runs, and what is taken for memory candidates is the *)
(* whole response.  ProviderStream: an answer is what was streamed.        *)
(* The four share nothing but the lemmas on sets and sequences.            *)
(***************************************************************************)
EXTENDS Startup, RunSetup, ModelOutput, ProviderStream, FiniteSetTheorems,
        SequenceTheorems, TLAPS

-----------------------------------------------------------------------------
(* Startup: the inductive invariant *)

Typed ==
  /\ flags \in Flags /\ app \in AppConfigs
  /\ step \in {"parse", "validate", "open", "running", "refused"}
  /\ opened \in [store : Stores \cup {"none"}, dsn : {"", "flag", "app"}]

\* A DSN has one of two origins, and a flag for it is never put aside.
DsnHasOrigin ==
  /\ opened.dsn = "flag" <=> flags.dsn = "flag"
  /\ opened.dsn = "app" =>
       flags.dsn = Unset /\ app.given /\ app.complete /\ app.env

\* What stands between the steps.
Settled ==
  /\ step = "validate" =>
       /\ flags.store # Unset => opened.store = flags.store
       /\ DsnHasOrigin
  /\ Reached =>
       /\ opened.store = "file" \/ (opened.store = "postgres" /\ opened.dsn # "")
       /\ DsnHasOrigin

StartupInv == Typed /\ Settled /\ StartsAsTold

-----------------------------------------------------------------------------
(* The lemmas, by the step of the code *)

\* Flags that leave no question open make the environment needless.
LEMMA SufficientFlagsNeedNoEnvironment ==
  ASSUME FlagsSuffice
  PROVE  ~NeedsEnvironment
BY StartupAssumption DEF FlagsSuffice, NeedsEnvironment, Stores

\* A value that a flag stands for.
LEMMA GivenFacts ==
  ASSUME Typed
  PROVE  /\ flags.store \in Stores \cup {Unset} /\ flags.dsn \in {"", "flag", Unset}
         /\ app.store \in Stores
         /\ "" # Unset /\ "flag" # Unset
BY StartupAssumption DEF Typed, Flags, AppConfigs, Stores

\* At first nothing is settled.
LEMMA StartupBegins == StartupInit => StartupInv
<1> SUFFICES ASSUME StartupInit PROVE StartupInv
  OBVIOUS
<1>1. step = "parse" /\ flags \in Flags /\ app \in AppConfigs
  BY DEF StartupInit
<1>2. opened \in [store : Stores \cup {"none"}, dsn : {"", "flag", "app"}]
  BY DEF StartupInit, None
<1> QED
  BY <1>1, <1>2 DEF StartupInv, Typed, Settled, StartsAsTold, Reached

\* parseServerOptions without an app config, and parseCLIOptions.
LEMMA FlagsStep == StartupInv /\ TakeFlags => StartupInv'
<1> SUFFICES ASSUME StartupInv, TakeFlags PROVE StartupInv'
  OBVIOUS
<1>1. UNCHANGED <<flags, app>> /\ step' = "validate"
      /\ opened' = [store |-> Given(flags.store, "file"), dsn |-> Given(flags.dsn, "")]
  BY DEF TakeFlags, Settle
<1>2. Typed'
  BY <1>1, GivenFacts DEF StartupInv, Typed, Given, Stores
<1>3. Settled'
  BY <1>1, GivenFacts DEF StartupInv, Settled, DsnHasOrigin, Reached, Given
<1>4. StartsAsTold'
  BY <1>1 DEF StartsAsTold, Reached, FlagsSuffice
<1> QED
  BY <1>2, <1>3, <1>4 DEF StartupInv

\* loadServerAppConfig and applyAppConfigDefaults.
LEMMA AppConfigStep == StartupInv /\ TakeAppConfig => StartupInv'
<1> SUFFICES ASSUME StartupInv, TakeAppConfig PROVE StartupInv'
  OBVIOUS
<1>1. UNCHANGED <<flags, app>> /\ app.given /\ step = "parse"
  BY DEF TakeAppConfig
<1>2. CASE AppIsValid
  <2>1. step' = "validate"
        /\ opened' = [store |-> Given(flags.store, IF app.store = "" THEN "file" ELSE app.store),
                      dsn |-> Given(flags.dsn, AppDSN)]
    BY <1>2 DEF TakeAppConfig, Settle
  <2>2. Typed'
    BY <1>1, <2>1, GivenFacts DEF StartupInv, Typed, Given, Stores, AppDSN
  <2>3. AppDSN = "app" => app.complete /\ app.env
    BY <1>2 DEF AppDSN, AppIsValid
  <2>4. AppDSN \in {"", "app"}
    BY DEF AppDSN
  <2>5. Settled'
    BY <1>1, <2>1, <2>3, <2>4, GivenFacts DEF StartupInv, Settled, DsnHasOrigin, Reached, Given
  <2>6. StartsAsTold'
    BY <2>1 DEF StartsAsTold, Reached
  <2> QED
    BY <2>2, <2>5, <2>6 DEF StartupInv
<1>3. CASE ~AppIsValid
  <2>1. step' = "refused" /\ UNCHANGED opened
    BY <1>3 DEF TakeAppConfig, Refuse
  <2>2. Typed' /\ Settled'
    BY <1>1, <2>1 DEF StartupInv, Typed, Settled, Reached
  <2>3. ~(FlagsSuffice /\ app.readable)
    BY <1>3, SufficientFlagsNeedNoEnvironment DEF AppIsValid
  <2>4. StartsAsTold'
    BY <1>1, <2>1, <2>3 DEF StartsAsTold, Reached, FlagsSuffice
  <2> QED
    BY <2>2, <2>4 DEF StartupInv
<1> QED
  BY <1>2, <1>3

\* validateServerOptions and validateCLIOptions.
LEMMA ValidateStep == StartupInv /\ Validate => StartupInv'
<1> SUFFICES ASSUME StartupInv, Validate PROVE StartupInv'
  OBVIOUS
<1> DEFINE store == IF opened.store = "" THEN "file" ELSE opened.store
           good == store = "file" \/ (store = "postgres" /\ opened.dsn # "")
<1>1. UNCHANGED <<flags, app>> /\ step = "validate"
  BY DEF Validate
<1>2. (flags.store # Unset => opened.store = flags.store) /\ DsnHasOrigin
  BY <1>1 DEF StartupInv, Settled
<1>3. opened.store \in Stores \cup {"none"} /\ opened.dsn \in {"", "flag", "app"}
  BY DEF StartupInv, Typed
<1>4. CASE good
  <2>1. step' = "open" /\ opened' = [opened EXCEPT !.store = store]
    BY <1>4 DEF Validate
  <2>2. opened'.store = store /\ opened'.dsn = opened.dsn
    BY <2>1 DEF StartupInv, Typed
  <2>3. Typed'
    BY <1>1, <2>1, <1>3 DEF StartupInv, Typed, Stores
  <2>4. Settled'
    BY <1>1, <1>2, <1>4, <2>1, <2>2 DEF Settled, Reached, DsnHasOrigin
  <2>5. StartsAsTold'
    BY <1>1, <1>2, <1>3, <1>4, <2>1, <2>2, GivenFacts
    DEF StartsAsTold, Reached, DsnHasOrigin, StartupInv
  <2> QED
    BY <2>3, <2>4, <2>5 DEF StartupInv
<1>5. CASE ~good
  <2>1. step' = "refused" /\ UNCHANGED opened
    BY <1>5 DEF Validate, Refuse
  <2>2. Typed' /\ Settled'
    BY <1>1, <2>1 DEF StartupInv, Typed, Settled, Reached
  <2>3. ~FlagsSuffice
    BY <1>2, <1>5, GivenFacts, StartupAssumption DEF FlagsSuffice, DsnHasOrigin, StartupInv, Stores
  <2>4. StartsAsTold'
    BY <1>1, <2>1, <2>3 DEF StartsAsTold, Reached, FlagsSuffice
  <2> QED
    BY <2>2, <2>4 DEF StartupInv
<1> QED
  BY <1>4, <1>5

\* openServerSessionStore and openCLISessionStore.
LEMMA OpenStep == StartupInv /\ Open => StartupInv'
<1> SUFFICES ASSUME StartupInv, Open PROVE StartupInv'
  OBVIOUS
<1>1. UNCHANGED <<flags, app, opened>> /\ step = "open"
      /\ (step' = "running" \/ (step' = "refused" /\ opened.store = "postgres"))
  BY DEF Open, Refuse
<1> QED
  BY <1>1 DEF StartupInv, Typed, Settled, StartsAsTold, Reached, DsnHasOrigin, FlagsSuffice

\* While another component moves, startup rests.
LEMMA StartupUnchanged == StartupInv /\ UNCHANGED startupVars => StartupInv'
BY DEF StartupInv, startupVars, Typed, Settled, StartsAsTold, Reached, DsnHasOrigin, FlagsSuffice

\* What startup has settled holds throughout.
LEMMA StartupInvariant == StartupSpec => []StartupInv
<1>1. StartupInv /\ [StartupNext]_startupVars => StartupInv'
  BY FlagsStep, AppConfigStep, ValidateStep, OpenStep, StartupUnchanged DEF StartupNext
<1> QED
  BY StartupBegins, <1>1, PTL DEF StartupSpec

-----------------------------------------------------------------------------
(* The theorem *)

\* What is said by flag is what is opened, needless settings stop nothing, and
\* PostgreSQL is opened with a whole DSN only (server/main.go L84-200, config.go
\* L101-182).
THEOREM StartedAsTold == StartupSpec => []StartsAsTold
<1>1. StartupInv => StartsAsTold
  BY DEF StartupInv
<1> QED
  BY StartupInvariant, <1>1, PTL

-----------------------------------------------------------------------------
(* RunSetup: the inductive invariant *)

Ready == Diagnosis(service, file) = "ready"

OfSession == request.op \in {"run", "stream", "resume"}
Built == request.at \in {"create", "run", "record"}

\* Only a request that is over has an answer, only the command line creates a
\* session on the way, and a request for a session has one.
RequestShape ==
  /\ request.at = "idle" => request.op = "none"
  /\ request.at # "done" => request.answer = "none"
  /\ request.at = "create" => request.op = "new"
  /\ OfSession => stored # NoSession

\* A request that names a provider is resolved to it, and runs on it.
NamedIsResolved ==
  /\ (request.at = "build" \/ Built) /\ OfSession /\ Override(request.name) =>
       request.provider = Trim[request.name]
  /\ Built =>
       /\ request.runs # NoRuntime
       /\ request.provider # "" => request.runs = request.provider

\* What is ready to run is still so when the runtime is built from it.
ReadyIsKept ==
  /\ diagnosed = "ready" => Ready
  /\ request.at = "build" /\ request.intact /\ LeftToService /\ Ready =>
       Buildable(request.provider, file)
  /\ request.at = "done" /\ request.intact /\ LeftToService /\ Ready => ~Refused

SetupInv == TypeOK /\ RequestShape /\ NamedIsResolved /\ ReadyIsKept /\ RescuedByName

-----------------------------------------------------------------------------
(* Names and files *)

\* Trimmed names are names, and trimming them again changes nothing.
LEMMA TrimFacts ==
  ASSUME NEW name \in Names
  PROVE  Trim[name] \in Names /\ Trim[Trim[name]] = Trim[name]
BY SetupAssumption

\* What the code takes for a name, it finds or fails to find in the file as it
\* is: a provider that is found is not blank and has no blanks around it.
LEMMA ConfiguredFacts ==
  ASSUME NEW f \in Files, NEW name, Configured(name, f)
  PROVE  name \in Names /\ name # "" /\ Trim[name] = name
BY SetupAssumption DEF Configured

\* The names the requests are resolved to.
LEMMA NamesTyped ==
  ASSUME TypeOK
  PROVE  /\ file.default \in Names /\ service \in Names
         /\ \A name \in Names : Default(name, file) \in Names
         /\ stored # NoSession => \A name \in Names : Wanted(name) \in Names
<1>1. file.default \in Names /\ service \in Names
  BY SetupAssumption DEF TypeOK
<1>2. \A name \in Names : Default(name, file) \in Names
  BY <1>1 DEF Default
<1>3. ASSUME stored # NoSession, NEW name \in Names PROVE Wanted(name) \in Names
  BY <1>1, <1>3, TrimFacts DEF Wanted, First, TypeOK
<1> QED BY <1>1, <1>2, <1>3

\* A provider that is ready can be built, under each name that stands for it.
LEMMA ReadyIsBuildable ==
  ASSUME TypeOK, Ready
  PROVE  /\ Loadable(file)
         /\ Configured(Default(service, file), file)
         /\ Buildable(service, file)
BY DEF Ready, Diagnosis, Buildable

\* A name that a request gives of its own is the one it wants.
LEMMA OverrideIsWanted ==
  ASSUME NEW name \in Names, Override(name)
  PROVE  Wanted(name) = Trim[name] /\ Default(Trim[name], file) = Trim[name]
BY DEF Override, Wanted, First, Default

\* A request that leaves the choice to a server that is ready gets a provider
\* that can be built.
LEMMA LeftToReady ==
  ASSUME TypeOK, LeftToService, Ready
  PROVE  LET provider == Wanted(request.name)
         IN  /\ provider = "" \/ (Loadable(file) /\ Configured(provider, file))
             /\ Buildable(provider, file)
<1> DEFINE d == Default(service, file)
<1>0. file \in Files /\ service \in Names /\ Trim[""] = ""
  BY SetupAssumption DEF TypeOK
<1>1. Loadable(file) /\ Configured(d, file) /\ Buildable(service, file)
  BY ReadyIsBuildable
<1>2. d # "" /\ Trim[d] = d
  BY <1>0, <1>1, ConfiguredFacts
<1>3. Wanted(request.name) = First(stored, Trim[service])
  BY DEF LeftToService, Wanted, First
<1>4. CASE stored = "" /\ service # ""
  <2>1. d = service
    BY <1>4 DEF Default
  <2> QED BY <1>1, <1>2, <1>3, <1>4, <2>1 DEF First
<1>5. CASE stored = "" /\ service = ""
  BY <1>0, <1>1, <1>3, <1>5 DEF First
<1>6. CASE stored = d
  <2>1. Buildable(d, file)
    BY <1>1, <1>2 DEF Buildable, Default
  <2> QED BY <1>1, <1>2, <1>3, <1>6, <2>1 DEF First
<1>7. stored = "" \/ stored = d
  BY <1>2 DEF LeftToService
<1> QED BY <1>4, <1>5, <1>6, <1>7

-----------------------------------------------------------------------------
(* The steps *)

\* In the first state no request has come.
LEMMA SetupInit == Init => SetupInv
<1> SUFFICES ASSUME Init PROVE SetupInv
  OBVIOUS
<1>1. TypeOK
  BY SetupAssumption DEF Init, Idle, TypeOK, Operations
<1>2. RequestShape /\ NamedIsResolved /\ ReadyIsKept /\ RescuedByName
  BY DEF Init, Idle, RequestShape, NamedIsResolved, ReadyIsKept, RescuedByName,
         OfSession, Built, LeftToService
<1> QED BY <1>1, <1>2 DEF SetupInv

\* The environment: edits, diagnoses, new sessions, requests that come and go.
LEMMA EnvironmentStep ==
  ASSUME SetupInv, EditFile \/ Diagnose \/ Create \/ Ask \/ Return
  PROVE  SetupInv'
<1> USE DEF SetupInv, OfSession, Built
<1>1. CASE EditFile
  <2>1. TypeOK'
    BY <1>1 DEF EditFile, TypeOK
  <2>2. RequestShape' /\ NamedIsResolved'
    BY <1>1 DEF EditFile, TypeOK, RequestShape, NamedIsResolved, Override
  <2>3. ReadyIsKept' /\ RescuedByName'
    BY <1>1 DEF EditFile, TypeOK, RequestShape, ReadyIsKept, RescuedByName, LeftToService
  <2> QED BY <2>1, <2>2, <2>3
<1>2. CASE Diagnose
  <2>1. TypeOK'
    BY <1>2 DEF Diagnose, Diagnosis, TypeOK
  <2>2. ReadyIsKept'
    BY <1>2 DEF Diagnose, ReadyIsKept, Ready, LeftToService, Refused
  <2>3. RequestShape' /\ NamedIsResolved' /\ RescuedByName'
    BY <1>2 DEF Diagnose, RequestShape, NamedIsResolved, RescuedByName, Override, Refused
  <2> QED BY <2>1, <2>2, <2>3
<1>3. CASE Create
  <2>1. TypeOK' /\ stored' \in Names
    BY <1>3, NamesTyped, TrimFacts DEF Create, First, TypeOK
  <2>2. RequestShape' /\ NamedIsResolved' /\ ReadyIsKept' /\ RescuedByName'
    BY <1>3, <2>1, SetupAssumption
       DEF Create, RequestShape, NamedIsResolved, ReadyIsKept, Ready, RescuedByName, LeftToService, Override
  <2> QED BY <2>1, <2>2
<1>4. CASE Ask
  <2> PICK op \in Operations, name \in Names :
             request' = [op |-> op, name |-> name, at |-> "resolve", provider |-> "",
                         runs |-> NoRuntime, intact |-> TRUE, answer |-> "none"]
    BY <1>4 DEF Ask, Idle
  <2>1. TypeOK'
    BY <1>4, SetupAssumption DEF Ask, TypeOK
  <2>2. RequestShape' /\ NamedIsResolved' /\ ReadyIsKept' /\ RescuedByName'
    BY <1>4 DEF Ask, Idle, RequestShape, NamedIsResolved, ReadyIsKept, Ready, RescuedByName
  <2> QED BY <2>1, <2>2
<1>5. CASE Return
  <2>1. TypeOK'
    BY <1>5, SetupAssumption DEF Return, Idle, TypeOK
  <2>2. RequestShape' /\ NamedIsResolved' /\ ReadyIsKept' /\ RescuedByName'
    BY <1>5 DEF Return, Idle, RequestShape, NamedIsResolved, ReadyIsKept, Ready, RescuedByName
  <2> QED BY <2>1, <2>2
<1> QED BY <1>1, <1>2, <1>3, <1>4, <1>5

\* Resolving leaves the session and the file alone.
LEMMA ResolveStep ==
  ASSUME SetupInv, ResolveRun \/ ResolveResume \/ ResolveNew \/ ResolveOnce
  PROVE  SetupInv'
<1> USE DEF SetupInv
<1> DEFINE name == request.name
<1>0. /\ name \in Names /\ Trim[name] \in Names /\ "" \in Names
      /\ UNCHANGED <<file, service, stored, diagnosed>>
  BY TrimFacts, SetupAssumption DEF TypeOK, ResolveRun, ResolveResume, ResolveNew, ResolveOnce
<1>1. ASSUME NEW provider \in Names, Resolved(provider), request.at = "resolve",
             OfSession /\ Override(name) => provider = Trim[name],
             request.intact /\ LeftToService /\ Ready => Buildable(provider, file)
      PROVE  SetupInv'
  <2>1. TypeOK'
    BY <1>0, <1>1 DEF Resolved, TypeOK
  <2>2. RequestShape' /\ NamedIsResolved'
    BY <1>0, <1>1 DEF Resolved, TypeOK, RequestShape, NamedIsResolved, OfSession, Built, Override
  <2>3. ReadyIsKept'
    BY <1>0, <1>1 DEF Resolved, TypeOK, ReadyIsKept, Ready, LeftToService
  <2>4. RescuedByName'
    BY <1>0, <1>1 DEF Resolved, TypeOK, RescuedByName
  <2> QED BY <2>1, <2>2, <2>3, <2>4
<1>2. ASSUME NEW said \in {"choose another provider", "no runtime"}, Answer(said),
             request.at = "resolve",
             ~(OfSession /\ Override(name) /\ Buildable(Trim[name], file)),
             ~(LeftToService /\ Ready)
      PROVE  SetupInv'
  <2>1. TypeOK'
    BY <1>0, <1>2 DEF Answer, TypeOK
  <2>2. RequestShape' /\ NamedIsResolved'
    BY <1>0, <1>2 DEF Answer, TypeOK, RequestShape, NamedIsResolved, OfSession, Built
  <2>3. ReadyIsKept'
    BY <1>0, <1>2 DEF Answer, TypeOK, ReadyIsKept, Ready, LeftToService
  <2>4. RescuedByName'
    BY <1>0, <1>2 DEF Answer, TypeOK, RescuedByName, OfSession, Override
  <2> QED BY <2>1, <2>2, <2>3, <2>4
<1>3. ASSUME Override(name), Buildable(Trim[name], file)
      PROVE  Loadable(file) /\ Configured(Trim[name], file)
  BY <1>0, <1>3, OverrideIsWanted DEF Buildable
<1>4. CASE ResolveRun
  <2> DEFINE provider == Wanted(name)
  <2>1. provider \in Names
    BY <1>0, <1>4, NamesTyped DEF ResolveRun, RequestShape, OfSession
  <2>2. Override(name) => provider = Trim[name]
    BY <1>0, OverrideIsWanted
  <2>3. provider # "" => Override(name) \/ ~Override(name)
    OBVIOUS
  <2>4. CASE provider = "" \/ (Loadable(file) /\ Configured(provider, file))
    <3>1. Resolved(provider)
      BY <1>4, <2>4 DEF ResolveRun
    <3> QED BY <1>1, <1>4, <2>1, <2>2, <3>1, LeftToReady DEF ResolveRun
  <2>5. CASE ~(provider = "" \/ (Loadable(file) /\ Configured(provider, file)))
    <3>1. Answer("choose another provider") \/ Answer("no runtime")
      BY <1>4, <2>5 DEF ResolveRun
    <3> QED BY <1>2, <1>3, <1>4, <2>2, <2>5, <3>1, LeftToReady DEF ResolveRun
  <2> QED BY <2>4, <2>5
<1>5. CASE ResolveResume
  <2>1. request.op = "resume" /\ request.at = "resolve" /\ ~LeftToService
    BY <1>5 DEF ResolveResume, LeftToService
  <2>2. CASE Override(name)
    BY <1>0, <1>1, <1>5, <2>1, <2>2 DEF ResolveResume
  <2>3. CASE ~Override(name)
    <3>1. stored \in Names
      BY <2>1 DEF TypeOK, RequestShape, OfSession
    <3>2. Resolved(stored) \/ Answer("no runtime") \/ Answer("choose another provider")
      BY <1>5, <2>3 DEF ResolveResume
    <3> QED BY <1>1, <1>2, <2>1, <2>3, <3>1, <3>2
  <2> QED BY <2>2, <2>3
<1>6. CASE ResolveNew
  <2>1. request.at = "resolve" /\ ~OfSession /\ ~LeftToService
    BY <1>6 DEF ResolveNew, OfSession, LeftToService
  <2>2. Trim[file.default] \in Names
    BY NamesTyped, TrimFacts
  <2>3. Resolved(Trim[name]) \/ Resolved(Trim[file.default]) \/ Answer("no runtime")
    BY <1>6 DEF ResolveNew
  <2> QED BY <1>0, <1>1, <1>2, <2>1, <2>2, <2>3
<1>7. CASE ResolveOnce
  <2>1. request.at = "resolve" /\ ~OfSession /\ ~LeftToService /\ Resolved(name)
    BY <1>7 DEF ResolveOnce, OfSession, LeftToService
  <2> QED BY <1>0, <1>1, <2>1
<1> QED BY <1>4, <1>5, <1>6, <1>7

\* Building the runtime reads the file once more.
LEMMA BuildStep ==
  ASSUME SetupInv, Build
  PROVE  SetupInv'
<1> USE DEF SetupInv, OfSession, Built
<1> DEFINE provider == request.provider
<1>0. /\ request.at = "build" /\ provider \in Names /\ request.name \in Names
      /\ UNCHANGED <<file, service, stored, diagnosed>>
  BY DEF Build, TypeOK
<1>1. CASE Buildable(provider, file)
  <2>1. /\ Default(provider, file) \in Names
        /\ provider # "" => Default(provider, file) = provider
        /\ Default(provider, file) # NoRuntime
    BY <1>0, NamesTyped, SetupAssumption DEF Default
  <2>2. request' = [request EXCEPT
                      !.runs = Default(provider, file),
                      !.at = IF request.op = "new" THEN "create" ELSE "run"]
    BY <1>1 DEF Build
  <2>3. TypeOK'
    BY <1>0, <2>1, <2>2 DEF TypeOK
  <2>4. RequestShape' /\ NamedIsResolved'
    BY <1>0, <2>1, <2>2 DEF TypeOK, RequestShape, NamedIsResolved, Override
  <2>5. ReadyIsKept' /\ RescuedByName'
    BY <1>0, <2>2 DEF TypeOK, ReadyIsKept, Ready, RescuedByName
  <2> QED BY <2>3, <2>4, <2>5
<1>2. CASE ~Buildable(provider, file)
  <2>1. request' = [request EXCEPT !.at = "done", !.answer = "no runtime"]
    BY <1>2 DEF Build, Answer
  <2>2. TypeOK'
    BY <1>0, <2>1 DEF TypeOK
  <2>3. RequestShape' /\ NamedIsResolved'
    BY <1>0, <2>1 DEF TypeOK, RequestShape, NamedIsResolved
  <2>4. ReadyIsKept'
    BY <1>0, <1>2, <2>1 DEF TypeOK, ReadyIsKept, Ready, LeftToService
  <2>5. RescuedByName'
    BY <1>0, <1>2, <2>1 DEF TypeOK, NamedIsResolved, RescuedByName, Override
  <2> QED BY <2>2, <2>3, <2>4, <2>5
<1> QED BY <1>1, <1>2

\* The run and what is stored after it.
LEMMA RunStep ==
  ASSUME SetupInv, CreateManaged \/ Turn \/ Record
  PROVE  SetupInv'
<1> USE DEF SetupInv, OfSession, Built
<1>0. /\ Built /\ request.provider \in Names /\ request.name \in Names
      /\ UNCHANGED <<file, service, diagnosed>>
      /\ stored' \in {stored, request.provider}
      /\ stored' \in Names \cup {NoSession} /\ (stored # NoSession => stored' # NoSession)
  BY SetupAssumption DEF TypeOK, CreateManaged, Turn, Record
<1>1. CASE request' = [request EXCEPT !.at = "run"] /\ request.op = "new"
  <2>1. TypeOK'
    BY <1>0, <1>1 DEF TypeOK
  <2>2. RequestShape' /\ NamedIsResolved' /\ ReadyIsKept' /\ RescuedByName'
    BY <1>0, <1>1 DEF TypeOK, RequestShape, NamedIsResolved, ReadyIsKept, Ready, RescuedByName
  <2> QED BY <2>1, <2>2
<1>2. CASE request' = [request EXCEPT !.at = "record"] /\ request.at = "run" /\ UNCHANGED stored
  <2>1. TypeOK'
    BY <1>0, <1>2 DEF TypeOK
  <2>2. RequestShape' /\ NamedIsResolved' /\ ReadyIsKept' /\ RescuedByName'
    BY <1>0, <1>2
       DEF TypeOK, RequestShape, NamedIsResolved, Override, ReadyIsKept, Ready, RescuedByName
  <2> QED BY <2>1, <2>2
<1>3. ASSUME NEW said \in {"failed", "ok"},
             request' = [request EXCEPT !.at = "done", !.answer = said],
             said = "ok" /\ OfSession /\ Override(request.name) =>
               stored' = Trim[request.name]
      PROVE  SetupInv'
  <2>1. TypeOK'
    BY <1>0, <1>3 DEF TypeOK
  <2>2. RequestShape' /\ NamedIsResolved'
    BY <1>0, <1>3 DEF TypeOK, RequestShape, NamedIsResolved
  <2>3. ReadyIsKept' /\ RescuedByName'
    BY <1>0, <1>3 DEF TypeOK, ReadyIsKept, Ready, RescuedByName, Refused, Override
  <2> QED BY <2>1, <2>2, <2>3
<1>4. CASE CreateManaged
  BY <1>1, <1>3, <1>4 DEF CreateManaged, Answer, RequestShape
<1>5. CASE Turn
  BY <1>2, <1>3, <1>5 DEF Turn, Answer
<1>6. CASE Record
  <2>1. request.at = "record"
    BY <1>6 DEF Record
  <2>2. CASE stored' = (IF Records THEN request.provider ELSE stored) /\ Answer("ok")
    <3>1. OfSession /\ Override(request.name) => stored' = Trim[request.name]
      BY <2>1, <2>2 DEF Records, NamedIsResolved
    <3> QED BY <1>3, <2>2, <3>1 DEF Answer
  <2>3. CASE Answer("failed")
    BY <1>3, <2>3 DEF Answer
  <2> QED BY <1>6, <2>2, <2>3 DEF Record
<1> QED BY <1>4, <1>5, <1>6

-----------------------------------------------------------------------------
(* The theorems *)

\* The invariant holds of every behaviour.
LEMMA SetupInvariant == Spec => []SetupInv
<1>1. SetupInv /\ [Next]_vars => SetupInv'
  <2> SUFFICES ASSUME SetupInv, [Next]_vars PROVE SetupInv'
    OBVIOUS
  <2>1. CASE EditFile \/ Diagnose \/ Create \/ Ask \/ Return
    BY <2>1, EnvironmentStep
  <2>2. CASE ResolveRun \/ ResolveResume \/ ResolveNew \/ ResolveOnce
    BY <2>2, ResolveStep
  <2>3. CASE Build
    BY <2>3, BuildStep
  <2>4. CASE CreateManaged \/ Turn \/ Record
    BY <2>4, RunStep
  <2>5. CASE UNCHANGED vars
    <3>1. TypeOK'
      BY <2>5 DEF vars, SetupInv, TypeOK
    <3>2. RequestShape' /\ NamedIsResolved'
      BY <2>5 DEF vars, SetupInv, RequestShape, NamedIsResolved, OfSession, Built, Override
    <3>3. ReadyIsKept'
      BY <2>5 DEF vars, SetupInv, ReadyIsKept, Ready, LeftToService, Refused
    <3>4. RescuedByName'
      BY <2>5 DEF vars, SetupInv, RescuedByName, Override, Refused
    <3> QED BY <3>1, <3>2, <3>3, <3>4 DEF SetupInv
  <2> QED BY <2>1, <2>2, <2>3, <2>4, <2>5 DEF Next
<1> QED BY <1>1, SetupInit, PTL DEF Spec

\* While the file stays as it was, a server that reports its provider as ready
\* refuses no run that leaves the choice to it, whatever the names and types in
\* the file, and the variables keep their types (CurrentProviderDiagnostics,
\* resolveRunConfig, NewConfiguredRuntime).
THEOREM ReadyRuns == Spec => []ReadyMeansRunnable
<1>1. SetupInv => ReadyMeansRunnable
  BY DEF SetupInv, RequestShape, ReadyIsKept, ReadyMeansRunnable, Refused
<1> QED BY <1>1, SetupInvariant, PTL

\* Naming a provider that the file has always gets a session running again, and
\* makes the provider the session's (resolveRunConfig L330-351).
THEOREM NamingRescues == Spec => []RescuedByName
<1>1. SetupInv => RescuedByName
  BY DEF SetupInv
<1> QED BY <1>1, SetupInvariant, PTL

\* The provider of a session changes only by its creation and by completed runs
\* that named it and ran on it (persistRunSuccess, touchManagedSession).
THEOREM SessionFollowsRuns == Spec => ProviderFollowsRuns
<1> DEFINE Follows ==
      stored' # stored =>
        \/ request.at = "idle"
        \/ request.at = "create" /\ request.runs # NoRuntime
        \/ request.at = "record" /\ Trim[request.name] = request.runs /\ stored' = request.runs
<1>1. SetupInv /\ [Next]_vars => [Follows]_vars
  <2> SUFFICES ASSUME SetupInv, Next, stored' # stored PROVE Follows
    BY DEF vars
  <2>1. Create \/ CreateManaged \/ Record
    BY DEF Next, EditFile, Diagnose, Ask, ResolveRun, ResolveResume, ResolveNew, ResolveOnce,
           Build, Turn, Return
  <2>2. CASE Create
    BY <2>2 DEF Create
  <2>3. CASE CreateManaged
    BY <2>3 DEF CreateManaged, SetupInv, NamedIsResolved, Built
  <2>4. CASE Record
    <3>1. Records /\ request.at = "record" /\ stored' = request.provider
      BY <2>4 DEF Record
    <3>2. OfSession /\ Override(request.name)
      BY <3>1 DEF Records, OfSession
    <3> QED BY <3>1, <3>2 DEF SetupInv, NamedIsResolved, Built, Override
  <2> QED BY <2>1, <2>2, <2>3, <2>4
<1> QED BY <1>1, SetupInvariant, PTL DEF Spec, ProviderFollowsRuns

-----------------------------------------------------------------------------
(* ModelOutput *)

\* A set of natural numbers has a least element.
LEMMA FirstNumber ==
  ASSUME NEW T \in SUBSET Nat, T # {}
  PROVE  \E x \in T : \A y \in T : x <= y
<1> DEFINE D == {0..x : x \in T}
<1>1. D \subseteq FiniteSubsetsOf(Nat) /\ D # {}
  <2>1. ASSUME NEW x \in T PROVE 0..x \subseteq Nat /\ IsFiniteSet(0..x)
    BY FS_Interval
  <2> QED BY <2>1 DEF FiniteSubsetsOf
<1>2. PICK d \in D : \A e \in D : ~(<<e, d>> \in StrictSubsetOrdering(Nat))
  <2> HIDE DEF D
  <2> QED BY <1>1, FS_StrictSubsetOrderingWellFounded, WFMin
<1>3. PICK x \in T : d = 0..x
  BY <1>2
<1>4. ASSUME NEW y \in T, y < x PROVE FALSE
  <2>1. 0..y \subseteq 0..x /\ x \in 0..x /\ x \notin 0..y
    BY <1>4
  <2>2. 0..y \in SUBSET Nat /\ 0..x \in SUBSET Nat /\ 0..y \in D
    OBVIOUS
  <2>3. <<0..y, 0..x>> \in StrictSubsetOrdering(Nat)
    BY <2>1, <2>2 DEF StrictSubsetOrdering
  <2> QED BY <1>2, <1>3, <2>2, <2>3
<1> QED BY <1>4

\* A set of numbers up to n has a greatest element, which Max is.
LEMMA MaxIs ==
  ASSUME NEW n \in Nat, NEW T \in SUBSET (1..n), T # {}
  PROVE  Max(T) \in T /\ \A y \in T : y <= Max(T)
<1> DEFINE D == {n - x : x \in T}
<1>1. D \in SUBSET Nat /\ D # {}
  <2>1. ASSUME NEW x \in T PROVE n - x \in Nat
    <3>1. x \in 1..n
      OBVIOUS
    <3> QED BY <3>1
  <2> QED BY <2>1
<1>2. PICK d \in D : \A e \in D : d <= e
  <2> HIDE DEF D
  <2> QED BY <1>1, FirstNumber
<1>3. PICK m \in T : d = n - m
  OBVIOUS
<1>4. ASSUME NEW y \in T PROVE m >= y
  <2>1. n - y \in D /\ y \in Nat /\ m \in Nat
    OBVIOUS
  <2>2. n - m <= n - y
    BY <1>2, <1>3, <2>1
  <2> QED BY <2>1, <2>2
<1>5. Max(T) = CHOOSE x \in T : \A y \in T : x >= y
  BY DEF Max
<1>6. Max(T) \in T /\ \A y \in T : Max(T) >= y
  BY <1>4, <1>5
<1>7. T \subseteq Nat
  OBVIOUS
<1> QED BY <1>6, <1>7

-----------------------------------------------------------------------------
(* The check of arguments *)

\* The levels of a value, down to the k-th, with the schemas they are checked by.
Levels(f, first, k) ==
  /\ f = [n \in 0..k |-> f[n]]
  /\ f[0] = first
  /\ \A n \in 1..k : f[n] = Below(f[n - 1])

LEMMA LevelsExist ==
  ASSUME NEW first, NEW depth \in Nat
  PROVE  \E f : Levels(f, first, depth)
<1> DEFINE Good(k) == \E f : Levels(f, first, k)
           T == {k \in 0..depth : ~Good(k)}
<1>1. Good(0)
  <2> DEFINE f == [n \in 0..0 |-> first]
  <2>1. f = [n \in 0..0 |-> f[n]] /\ f[0] = first /\ 1..0 = {}
    OBVIOUS
  <2> HIDE DEF f
  <2> QED BY <2>1 DEF Levels
<1>2. ASSUME NEW k \in 1..depth, Good(k - 1) PROVE Good(k)
  <2>1. PICK f : Levels(f, first, k - 1)
    BY <1>2
  <2>2. k \in Nat /\ k - 1 \in 0..(k - 1)
    OBVIOUS
  <2> DEFINE h == [n \in 0..k |-> IF n = k THEN Below(f[k - 1]) ELSE f[n]]
  <2>3. h = [n \in 0..k |-> h[n]] /\ h[k] = Below(f[k - 1])
    BY <2>2
  <2>4. \A n \in 0..(k - 1) : h[n] = f[n]
    BY <2>2
  <2>5. f[0] = first /\ \A n \in 1..(k - 1) : f[n] = Below(f[n - 1])
    BY <2>1 DEF Levels
  <2> HIDE DEF h
  <2>6. h[0] = first
    BY <2>2, <2>4, <2>5
  <2>7. ASSUME NEW n \in 1..k PROVE h[n] = Below(h[n - 1])
    <3>1. n - 1 \in 0..(k - 1)
      BY <2>2
    <3>2. CASE n = k
      BY <2>3, <2>4, <3>1, <3>2
    <3>3. CASE n \in 1..(k - 1)
      <4>1. n \in 0..(k - 1)
        BY <3>3
      <4> QED BY <2>4, <2>5, <3>1, <3>3, <4>1
    <3> QED BY <2>2, <3>2, <3>3
  <2> QED BY <2>3, <2>6, <2>7 DEF Levels
<1>3. T = {}
  <2> SUFFICES ASSUME T # {} PROVE FALSE
    OBVIOUS
  <2>1. T \in SUBSET Nat
    OBVIOUS
  <2>2. PICK x \in T : \A y \in T : x <= y
    <3> HIDE DEF T
    <3> QED BY <2>1, FirstNumber
  <2>3. x \in 1..depth
    <3>1. x # 0
      BY <1>1
    <3> QED BY <3>1
  <2>4. x - 1 \in 0..depth /\ ~(x <= x - 1)
    BY <2>3
  <2>5. Good(x - 1)
    <3> HIDE DEF Good
    <3> QED BY <2>2, <2>4
  <2> HIDE DEF Good
  <2> QED BY <1>2, <2>3, <2>5
<1>4. depth \in 0..depth /\ (depth \notin T => Good(depth))
  <2> HIDE DEF Good
  <2> QED OBVIOUS
<1> QED BY <1>3, <1>4

\* A value that conforms is accepted, and so are its properties.
LEMMA ConformingIsAccepted ==
  ASSUME NEW schema, NEW lists, NEW value, Conforms(schema, lists, value)
  PROVE  /\ Accepts(schema, lists, value)
         /\ \A p \in Properties(schema, value) : Accepts(p[1], lists, p[2])
<1> DEFINE first == {<<schema, value>>}
           Eq(f) == f = [n \in 0..Depth |-> IF n = 0 THEN first ELSE Below(f[n - 1])]
           level == CHOOSE f : Eq(f)
<1>0. Depth \in Nat /\ 0 \in 0..Depth /\ 1 \in 0..Depth /\ 1 - 1 = 0 /\ 1 # 0
  <2>1. Depth \in Nat \ {0}
    BY OutputAssumption
  <2> QED BY <2>1
<1>1. PICK g : Levels(g, first, Depth)
  <2> HIDE DEF first
  <2> QED BY <1>0, LevelsExist
<1>2. Eq(g)
  <2> HIDE DEF first
  <2> DEFINE h == [n \in 0..Depth |-> IF n = 0 THEN first ELSE Below(g[n - 1])]
  <2>1. g = [n \in 0..Depth |-> g[n]]
    BY <1>1 DEF Levels
  <2>2. \A n \in 0..Depth : g[n] = h[n]
    <3>1. ASSUME NEW n \in 0..Depth, n # 0 PROVE n \in 1..Depth
      BY <3>1, <1>0
    <3> QED BY <1>1, <3>1 DEF Levels
  <2> QED BY <2>1, <2>2
<1>3. Eq(level)
  <2> HIDE DEF Eq
  <2> QED BY <1>2
<1>4. \A n \in 0..Depth : \A p \in level[n] : Accepts(p[1], lists, p[2])
  <2>1. Parts(schema, value) = UNION {level[n] : n \in 0..Depth}
    BY DEF Parts
  <2> HIDE DEF level
  <2> QED BY <2>1 DEF Conforms
<1> HIDE DEF level
<1>5. level[0] = first /\ level[1] = Below(first)
  <2> HIDE DEF first
  <2>1. \A n \in 0..Depth : level[n] = IF n = 0 THEN first ELSE Below(level[n - 1])
    BY <1>3
  <2> QED BY <1>0, <2>1
<1>6. Below(first) = Properties(schema, value)
  BY DEF Below
<1>7. <<schema, value>> \in level[0] /\ \A p \in Properties(schema, value) : p \in level[1]
  BY <1>5, <1>6
<1>8. Accepts(<<schema, value>>[1], lists, <<schema, value>>[2])
  BY <1>0, <1>4, <1>7
<1> QED BY <1>0, <1>4, <1>7, <1>8

-----------------------------------------------------------------------------
(* The tool of a call *)

\* The call names a tool of the run.
IsAllowed == \E tool \in Allowed(declared) : tool.name = call.name

\* The run has its tools.
HasTools == declared \in Declarations /\ ValidSet(declared)

\* The i-th tool, and no other, has the name.
NamesOne(i) ==
  /\ i \in 1..Len(declared)
  /\ \A j \in 1..Len(declared) : Strip[declared[j].name] = call.name <=> j = i

\* A tool as the run keeps it.
LEMMA ClonedFacts ==
  ASSUME NEW tool
  PROVE  /\ Cloned(tool).name = Strip[tool.name]
         /\ Cloned(tool).parameters = tool.parameters
         /\ Cloned(tool).lists = "json"
BY DEF Cloned, Encoded

\* A name that is allowed is that of one tool of the run.
LEMMA ToolIsOne ==
  ASSUME HasTools, IsAllowed
  PROVE  \E i : NamesOne(i) /\ Tool = Cloned(declared[i])
<1>1. Tool \in Allowed(declared) /\ Tool.name = call.name
  BY DEF IsAllowed, Tool
<1>2. PICK i \in 1..Len(declared) : Tool = Cloned(declared[i])
  BY <1>1 DEF Allowed
<1>3. Strip[declared[i].name] = call.name
  BY <1>1, <1>2, ClonedFacts
<1>4. ASSUME NEW j \in 1..Len(declared), Strip[declared[j].name] = call.name PROVE j = i
  <2>1. ASSUME NEW a \in 1..Len(declared), NEW b \in 1..Len(declared), a < b
        PROVE  Strip[declared[a].name] # Strip[declared[b].name]
    <3>1. a \in 1..(b - 1)
      BY <2>1
    <3>2. Cloned(declared[a]).name # Cloned(declared[b]).name
      BY <3>1 DEF HasTools, ValidSet
    <3> QED BY <3>2, ClonedFacts
  <2>2. i < j \/ j < i \/ i = j
    OBVIOUS
  <2> QED BY <1>3, <1>4, <2>1, <2>2
<1> QED BY <1>2, <1>3, <1>4 DEF NamesOne

\* Arguments that were checked are right, for the schema as it was declared.
LEMMA CheckedIsRight ==
  ASSUME NEW tool, tool.lists = "json", NEW text, ValidArguments(tool, text)
  PROVE  /\ Len(text) = 1
         /\ \A p \in Parts(tool.parameters, text[1]) : RightFor(p[1], p[2])
<1>1. Len(text) = 1 /\ Conforms(tool.parameters, "json", text[1])
  BY DEF ValidArguments
<1>2. ASSUME NEW schema, NEW value, Accepts(schema, "json", value) PROVE RightFor(schema, value)
  BY <1>2 DEF Accepts, RightFor, MatchesType
<1> QED BY <1>1, <1>2 DEF Conforms

-----------------------------------------------------------------------------
(* The operands of the calculator *)

\* Where an object has a key.
At(object, key) == {k \in 1..Len(object.pairs) : object.pairs[k].key = key}

\* Where it has a value for a field of the calculator.
For(object, field) ==
  {k \in 1..Len(object.pairs) : Fold[object.pairs[k].key] = field /\ object.pairs[k].value.type # "null"}

\* The schema of the calculator takes no null.
LEMMA FieldsHaveValues ==
  ASSUME NEW object, Conforms(CalculatorSchema, "json", object),
         NEW field \in CalculatorFields, field \in Keys(object)
  PROVE  Decoded(object, field).type # "null"
<1>1. /\ CalculatorSchema.type = "object"
      /\ CalculatorSchema.properties = [f \in CalculatorFields |->
           IF f = "op" THEN [AnySchema EXCEPT !.type = "string", !.enum = CalculatorOps]
           ELSE [AnySchema EXCEPT !.type = "number"]]
  BY DEF CalculatorSchema, AnySchema
<1>2. object.type = "object"
  BY <1>1, ConformingIsAccepted DEF Accepts, MatchesType
<1> DEFINE schema == CalculatorSchema.properties[field]
<1>3. schema.type \in {"string", "number"}
  <2>1. CASE field = "op"
    <3>1. schema = [AnySchema EXCEPT !.type = "string", !.enum = CalculatorOps]
      BY <1>1, <2>1
    <3> HIDE DEF schema
    <3> QED BY <3>1 DEF AnySchema
  <2>2. CASE field # "op"
    <3>1. schema = [AnySchema EXCEPT !.type = "number"]
      BY <1>1, <2>2
    <3> HIDE DEF schema
    <3> QED BY <3>1 DEF AnySchema
  <2> QED BY <2>1, <2>2
<1>4. <<schema, Decoded(object, field)>> \in Properties(CalculatorSchema, object)
  BY <1>1, <1>2 DEF Properties
<1>5. Accepts(schema, "json", Decoded(object, field))
  BY <1>4, ConformingIsAccepted
<1> HIDE DEF schema
<1> QED BY <1>3, <1>5 DEF Accepts, MatchesType

\* Where no key differs only in case, the calculator's operand is the checked one.
LEMMA OperandIsChecked ==
  ASSUME NEW object, Len(object.pairs) \in Nat, Conforms(CalculatorSchema, "json", object),
         NEW field \in CalculatorFields, field \in Keys(object), KeysLike(object, field) = {field}
  PROVE  Operands(object)[field] = Decoded(object, field).text
<1> DEFINE A == At(object, field)
           F == For(object, field)
<1>1. A \in SUBSET (1..Len(object.pairs)) /\ A # {}
  BY DEF At, Keys
<1>2. Max(A) \in A /\ \A k \in A : k <= Max(A)
  <2> HIDE DEF A
  <2> QED BY <1>1, MaxIs
<1>3. Decoded(object, field) = object.pairs[Max(A)].value
  <2>1. A = {k \in 1..Len(object.pairs) : object.pairs[k].key \in {field}}
    BY DEF At
  <2> HIDE DEF A
  <2> QED BY <2>1 DEF Decoded, ValueOf
<1>4. object.pairs[Max(A)].value.type # "null"
  BY <1>3, FieldsHaveValues
<1>5. Max(A) \in F
  <2>1. Fold[field] = field
    BY OutputAssumption
  <2>2. Max(A) \in 1..Len(object.pairs) /\ object.pairs[Max(A)].key = field
    BY <1>2 DEF At
  <2> QED BY <1>4, <2>1, <2>2 DEF For
<1>6. F \subseteq A
  <2> SUFFICES ASSUME NEW k \in F PROVE k \in A
    OBVIOUS
  <2>1. object.pairs[k].key \in KeysLike(object, field) /\ k \in 1..Len(object.pairs)
    BY DEF For, KeysLike, Keys
  <2> QED BY <2>1 DEF At
<1>7. F \in SUBSET (1..Len(object.pairs))
  BY DEF For
<1>8. Max(F) \in F /\ \A k \in F : k <= Max(F)
  <2> HIDE DEF F
  <2> QED BY <1>5, <1>7, MaxIs
<1>9. Max(F) = Max(A)
  <2>1. Max(F) <= Max(A) /\ Max(A) <= Max(F) /\ Max(F) \in Nat /\ Max(A) \in Nat
    <3> HIDE DEF A, F
    <3>1. Max(F) \in A /\ Max(A) \in F
      BY <1>5, <1>6, <1>8
    <3>2. Max(F) \in 1..Len(object.pairs) /\ Max(A) \in 1..Len(object.pairs)
      BY <1>7, <3>1, <1>1
    <3> QED BY <1>2, <1>8, <3>1, <3>2
  <2> QED BY <2>1
<1>10. Operands(object)[field] = object.pairs[Max(F)].value.text
  BY DEF Operands, For
<1> QED BY <1>3, <1>9, <1>10

-----------------------------------------------------------------------------
(* Calls and extractions: the inductive invariant *)

\* A call that passed the checks of execute, for the tools of its run.
Passed ==
  /\ HasTools /\ IsAllowed
  /\ call.arguments \in Arguments
  /\ ValidArguments(Tool, call.arguments)

\* What a call has behind it.
CallInv ==
  /\ at = "declare" => declared \in Declarations
  /\ at \in {"ready", "check"} => HasTools
  /\ at = "check" => call.arguments \in Arguments
  /\ at # "done" => result.kind = "none"
  /\ Executed => Passed

\* What the calculator computed with.
CalculatedWithOperands ==
  at = "done" /\ result.kind = "success" /\ call.name = Calculator.name =>
    CanCalculate(call.arguments[1]) /\ result.used = Operands(call.arguments[1])

\* The response that is decoded.
ResponseInv == at = "decode" => response \in Responses

OutputInv == CallInv /\ CalculatedWithOperands /\ ResponseInv /\ CandidatesAreTheWholeResponse

LEMMA OutputBegins == OutputInit => OutputInv
<1> SUFFICES ASSUME OutputInit PROVE OutputInv
  OBVIOUS
<1>1. (at = "declare" /\ declared \in Declarations) \/ at = "extract"
  BY DEF OutputInit, InitCall, InitExtraction
<1>2. result.kind = "none"
  BY DEF OutputInit, InitCall, InitExtraction, NoResult
<1> QED BY <1>1, <1>2 DEF OutputInv, CallInv, Executed, CalculatedWithOperands, ResponseInv,
             CandidatesAreTheWholeResponse

\* What does not depend on where the call is stays with the tools and the call.
LEMMA PassedStays ==
  ASSUME Passed, UNCHANGED <<declared, call>>
  PROVE  Passed'
BY DEF Passed, HasTools, IsAllowed, Tool

\* newGovernedToolSet, and what the model calls.
LEMMA ToolsStep == OutputInv /\ (BuildTools \/ ModelCalls) => OutputInv'
<1> SUFFICES ASSUME OutputInv, BuildTools \/ ModelCalls PROVE OutputInv'
  OBVIOUS
<1>1. CASE BuildTools /\ ValidSet(declared)
  <2>1. at' = "ready" /\ UNCHANGED <<declared, call, response, result>> /\ result.kind = "none"
    BY <1>1 DEF BuildTools, OutputInv, CallInv
  <2>2. HasTools'
    BY <1>1, <2>1 DEF BuildTools, OutputInv, CallInv, HasTools
  <2> QED BY <2>1, <2>2 DEF OutputInv, CallInv, Executed, CalculatedWithOperands, ResponseInv,
                 CandidatesAreTheWholeResponse
<1>2. CASE BuildTools /\ ~ValidSet(declared)
  <2>1. at' = "done" /\ result' = [kind |-> "run fails"]
    BY <1>2 DEF BuildTools, End
  <2>2. result'.kind = "run fails"
    BY <2>1
  <2> QED BY <2>1, <2>2 DEF OutputInv, CallInv, Executed, CalculatedWithOperands, ResponseInv,
                 CandidatesAreTheWholeResponse
<1>3. CASE ModelCalls
  <2>1. at = "ready" /\ at' = "check" /\ UNCHANGED <<declared, response, result>>
    BY <1>3 DEF ModelCalls
  <2>2. call'.arguments \in Arguments
    BY <1>3 DEF ModelCalls
  <2>3. HasTools' /\ result'.kind = "none"
    BY <2>1 DEF OutputInv, CallInv, HasTools
  <2> QED BY <2>1, <2>2, <2>3 DEF OutputInv, CallInv, Executed, CalculatedWithOperands,
                 ResponseInv, CandidatesAreTheWholeResponse
<1> QED BY <1>1, <1>2, <1>3

\* execute, up to the executor.
LEMMA CheckStep == OutputInv /\ Check => OutputInv'
<1> SUFFICES ASSUME OutputInv, Check PROVE OutputInv'
  OBVIOUS
<1>1. at = "check" /\ HasTools /\ call.arguments \in Arguments /\ result.kind = "none"
      /\ UNCHANGED <<declared, call, response>>
  BY DEF OutputInv, CallInv, Check
<1>2. CASE at' = "execute"
  <2>1. IsAllowed /\ ValidArguments(Tool, call.arguments) /\ UNCHANGED result
    BY <1>2 DEF Check, End, IsAllowed
  <2>2. Passed
    BY <1>1, <2>1 DEF Passed
  <2>3. Passed'
    BY <1>1, <2>2, PassedStays
  <2> QED BY <1>1, <1>2, <2>1, <2>3 DEF OutputInv, CallInv, Executed, CalculatedWithOperands,
                 ResponseInv, CandidatesAreTheWholeResponse
<1>3. CASE at' = "done"
  <2>0. \/ result' = [kind |-> "denied"] \/ result' = [kind |-> "skipped"]
        \/ result' = [kind |-> "invalid arguments"]
    BY <1>3 DEF Check, End
  <2>1. result'.kind \in {"denied", "skipped", "invalid arguments"}
    <3>1. ASSUME NEW kind, result' = [kind |-> kind] PROVE result'.kind = kind
      BY <3>1
    <3> QED BY <2>0, <3>1
  <2> QED BY <1>3, <2>1 DEF OutputInv, CallInv, Executed, CalculatedWithOperands, ResponseInv,
                 CandidatesAreTheWholeResponse
<1> QED BY <1>2, <1>3 DEF Check, End

\* The executor.
LEMMA ExecuteStep == OutputInv /\ Execute => OutputInv'
<1> SUFFICES ASSUME OutputInv, Execute PROVE OutputInv'
  OBVIOUS
<1>1. at = "execute" /\ at' = "done" /\ Passed /\ UNCHANGED <<declared, call, response>>
  BY DEF OutputInv, CallInv, Executed, Execute, End
<1>2. Passed'
  BY <1>1, PassedStays
<1>3. result'.kind \in {"success", "error"}
  BY DEF Execute, End
<1>4. CalculatedWithOperands'
  <2> SUFFICES ASSUME result'.kind = "success", call.name = Calculator.name
               PROVE  CanCalculate(call.arguments[1]) /\ result'.used = Operands(call.arguments[1])
    BY <1>1 DEF CalculatedWithOperands
  <2>1. CASE CanCalculate(call.arguments[1])
    BY <2>1 DEF Execute, End
  <2>2. CASE ~CanCalculate(call.arguments[1])
    <3>1. result' = [kind |-> "error"]
      BY <2>2 DEF Execute, End
    <3> QED BY <3>1
  <2> QED BY <2>1, <2>2
<1> QED BY <1>1, <1>2, <1>3, <1>4 DEF OutputInv, CallInv, Executed, ResponseInv,
             CandidatesAreTheWholeResponse

\* The sequences in a response have lengths.
HasLengths(envelope) ==
  /\ Len(envelope.pairs) \in Nat
  /\ \A p \in 1..Len(envelope.pairs) :
       /\ Len(Items(envelope, p)) \in Nat
       /\ \A i \in 1..Len(Items(envelope, p)) : Len(Items(envelope, p)[i].pairs) \in Nat

\* What a response says in a field, by where it stands.
LEMMA SaidIs ==
  ASSUME NEW envelope, NEW i, NEW field, NEW text
  PROVE  text \in Said(envelope, i, field) <=>
           \E p \in Lists(envelope) :
             /\ i <= Len(Items(envelope, p))
             /\ \E q \in TextsFor(Items(envelope, p)[i], field) :
                  text = Items(envelope, p)[i].pairs[q].value.text
<1> DEFINE from == {p \in Lists(envelope) : i <= Len(Items(envelope, p))}
           where(p) == TextsFor(Items(envelope, p)[i], field)
           says(p, q) == Items(envelope, p)[i].pairs[q].value.text
           places == UNION {{p} \X where(p) : p \in from}
<1>1. Said(envelope, i, field) = {says(w[1], w[2]) : w \in places}
  BY DEF Said
<1>2. ASSUME NEW p \in from, NEW q \in where(p)
      PROVE  <<p, q>> \in places /\ <<p, q>>[1] = p /\ <<p, q>>[2] = q
  <2> HIDE DEF from, where
  <2> QED OBVIOUS
<1>3. ASSUME NEW w \in places PROVE w[1] \in from /\ w[2] \in where(w[1])
  <2> HIDE DEF from, where
  <2> QED OBVIOUS
<1>4. text \in Said(envelope, i, field) <=> \E p \in from : \E q \in where(p) : text = says(p, q)
  <2> HIDE DEF from, where, says, places
  <2>1. ASSUME NEW w \in places, text = says(w[1], w[2])
        PROVE  \E p \in from : \E q \in where(p) : text = says(p, q)
    BY <1>3, <2>1
  <2>2. ASSUME NEW p \in from, NEW q \in where(p), text = says(p, q)
        PROVE  \E w \in places : text = says(w[1], w[2])
    BY <1>2, <2>2
  <2> QED BY <1>1, <2>1, <2>2
<1> QED BY <1>4

\* A text that is read was said, in a list that may be asked for it.
LEMMA ReadWasSaid ==
  ASSUME NEW envelope, HasLengths(envelope), NEW i \in Nat \ {0}, NEW field
  PROVE  FieldText(envelope, i, field) = "" \/ FieldText(envelope, i, field) \in Said(envelope, i, field)
<1> DEFINE P == ListsFor(envelope, i, field)
           p == Max(P)
           item == Items(envelope, p)[i]
           Q == TextsFor(item, field)
<1> SUFFICES ASSUME P # {} PROVE FieldText(envelope, i, field) \in Said(envelope, i, field)
  BY DEF FieldText
<1>1. P \subseteq Lists(envelope) /\ Lists(envelope) \subseteq 1..Len(envelope.pairs)
  BY DEF ListsFor, Lists
<1>2. p \in P
  <2> HIDE DEF P
  <2> QED BY <1>1, MaxIs DEF HasLengths
<1>3. p \in Lists(envelope) /\ i <= Len(Items(envelope, p)) /\ Q # {}
  <2> HIDE DEF p
  <2> QED BY <1>2 DEF ListsFor
<1>4. Len(item.pairs) \in Nat
  <2>1. p \in 1..Len(envelope.pairs)
    BY <1>1, <1>3
  <2> HIDE DEF p
  <2>2. Len(Items(envelope, p)) \in Nat
    BY <2>1 DEF HasLengths
  <2>3. i \in 1..Len(Items(envelope, p))
    BY <1>3, <2>2
  <2> QED BY <2>1, <2>3 DEF HasLengths
<1>5. Max(Q) \in Q
  <2>1. Q \subseteq 1..Len(item.pairs)
    BY DEF TextsFor
  <2> HIDE DEF Q, item
  <2> QED BY <1>3, <1>4, <2>1, MaxIs
<1>6. FieldText(envelope, i, field) = item.pairs[Max(Q)].value.text
  BY DEF FieldText
<1> HIDE DEF p
<1> QED BY <1>3, <1>5, <1>6, SaidIs

\* Where no field is written twice, what was said is what is read.
LEMMA SaidIsRead ==
  ASSUME NEW envelope, HasLengths(envelope), WrittenOnce(envelope),
         NEW i \in Nat \ {0}, NEW field \in CandidateFields, NEW text \in Said(envelope, i, field)
  PROVE  FieldText(envelope, i, field) = text
<1>1. PICK p \in Lists(envelope) :
        /\ i <= Len(Items(envelope, p))
        /\ \E q \in TextsFor(Items(envelope, p)[i], field) :
             text = Items(envelope, p)[i].pairs[q].value.text
  BY SaidIs
<1>2. PICK q \in TextsFor(Items(envelope, p)[i], field) :
        text = Items(envelope, p)[i].pairs[q].value.text
  BY <1>1
<1>3. Lists(envelope) = {p} /\ p \in 1..Len(envelope.pairs)
  BY DEF WrittenOnce, Lists
<1>4. Len(Items(envelope, p)) \in Nat
  BY <1>3 DEF HasLengths
<1>5. i \in 1..Len(Items(envelope, p)) /\ Items(envelope, p) # <<>>
  <2>1. i \in 1..Len(Items(envelope, p))
    BY <1>1, <1>4
  <2>2. Items(envelope, p) = <<>> => Len(Items(envelope, p)) = 0
    OBVIOUS
  <2> QED BY <2>1, <2>2
<1>6. TextsFor(Items(envelope, p)[i], field) = {q}
  <2>1. \A a, b \in TextsFor(Items(envelope, p)[i], field) : a = b
    BY <1>5 DEF WrittenOnce
  <2> QED BY <2>1
<1>7. ListsFor(envelope, i, field) = {p}
  BY <1>1, <1>2, <1>3, <1>5 DEF ListsFor
<1>8. Max({p}) = p
  BY <1>3, MaxIs DEF HasLengths
<1>9. Max({q}) = q
  <2>1. q \in 1..Len(Items(envelope, p)[i].pairs)
    BY DEF TextsFor
  <2>2. Len(Items(envelope, p)[i].pairs) \in Nat
    BY <1>3, <1>5 DEF HasLengths
  <2>3. PICK n \in Nat : q \in 1..n
    BY <2>1, <2>2
  <2>4. {q} \in SUBSET (1..n) /\ {q} # {}
    BY <2>3
  <2>5. Max({q}) \in {q}
    BY <2>4, MaxIs
  <2> QED BY <2>5
<1> QED BY <1>2, <1>6, <1>7, <1>8, <1>9 DEF FieldText

\* There is a list with as many items as there are candidates.
LEMMA CountIs ==
  ASSUME NEW envelope, HasLengths(envelope)
  PROVE  /\ Count(envelope) \in Nat
         /\ Count(envelope) # 0 =>
              \E p \in Lists(envelope) : Count(envelope) = Len(Items(envelope, p))
         /\ WrittenOnce(envelope) =>
              \A p \in Lists(envelope) : Count(envelope) = Len(Items(envelope, p))
<1>1. CASE Lists(envelope) = {}
  BY <1>1 DEF Count
<1>2. CASE Lists(envelope) # {}
  <2> DEFINE p == Max(Lists(envelope))
  <2>1. Lists(envelope) \in SUBSET (1..Len(envelope.pairs)) /\ Len(envelope.pairs) \in Nat
    BY DEF Lists, HasLengths
  <2>2. p \in Lists(envelope)
    BY <1>2, <2>1, MaxIs
  <2>3. Count(envelope) = Len(Items(envelope, p))
    BY <1>2 DEF Count
  <2> HIDE DEF p
  <2>4. Len(Items(envelope, p)) \in Nat
    BY <2>1, <2>2 DEF HasLengths
  <2> QED BY <2>2, <2>3, <2>4 DEF WrittenOnce
<1> QED BY <1>1, <1>2

\* The i-th candidate, field by field.
LEMMA CandidateFacts ==
  ASSUME NEW envelope, NEW i \in 1..Count(envelope)
  PROVE  /\ Candidates(envelope)[i].scope = "the extractor's"
         /\ \A field \in CandidateFields :
              Candidates(envelope)[i][field] = Trimmed(field, FieldText(envelope, i, field))
<1> DEFINE one == [field \in CandidateFields \cup {"scope"} |->
                     IF field = "scope" THEN "the extractor's"
                     ELSE Trimmed(field, FieldText(envelope, i, field))]
<1>1. Candidates(envelope)[i] = one
  BY DEF Candidates
<1>2. "scope" \notin CandidateFields
  BY DEF CandidateFields
<1> QED BY <1>1, <1>2

\* A candidate that is valid is complete as it is.
LEMMA ValidIsComplete ==
  ASSUME NEW candidate, ValidCandidate(candidate)
  PROVE  Complete(candidate)
<1>1. Strip[""] = ""
  BY OutputAssumption
<1>2. candidate["key"] = candidate.key /\ candidate["source"] = candidate.source
      /\ candidate["provenance"] = candidate.provenance
  OBVIOUS
<1> QED BY <1>1, <1>2 DEF ValidCandidate, Complete

\* What decodeMemoryCandidates returns.
LEMMA DecodedAreWhole ==
  ASSUME NEW text \in Responses, WholeResponse(text),
         NEW envelope, envelope = text[1],
         NEW candidates, candidates = Candidates(envelope),
         \A i \in 1..Count(envelope) : ValidCandidate(candidates[i])
  PROVE  /\ Len(text) = 1 /\ Len(candidates) <= Limit
         /\ AreTrue(candidates, envelope)
         /\ WrittenOnce(envelope) => AreAll(candidates, envelope)
<1>2. Len(text) = 1 /\ Count(envelope) <= Limit
  BY DEF WholeResponse
<1>3. HasLengths(envelope)
  <2>1. 1 \in 1..Len(text)
    BY <1>2
  <2> QED BY <2>1, ResponseAssumption DEF HasLengths, Items
<1>4. Count(envelope) \in Nat
  BY <1>3, CountIs
<1>6. Len(candidates) = Count(envelope)
  <2>1. \A f : \A n \in Nat : Len([i \in 1..n |-> f[i]]) = n
    OBVIOUS
  <2>2. candidates = [i \in 1..Count(envelope) |-> candidates[i]]
    BY DEF Candidates
  <2> QED BY <1>4, <2>1, <2>2
<1>7. ASSUME NEW i \in 1..Len(candidates)
      PROVE  /\ i \in Nat \ {0} /\ i \in 1..Count(envelope)
             /\ candidates[i].scope = "the extractor's"
             /\ \A field \in CandidateFields :
                  candidates[i][field] = Trimmed(field, FieldText(envelope, i, field))
  <2>1. i \in Nat \ {0} /\ i \in 1..Count(envelope)
    BY <1>4, <1>6
  <2> QED BY <2>1, CandidateFacts
<1>8. ASSUME NEW i \in 1..Len(candidates)
      PROVE  /\ Complete(candidates[i])
             /\ \E p \in Lists(envelope) : i <= Len(Items(envelope, p))
  <2>1. Complete(candidates[i])
    BY <1>6, ValidIsComplete
  <2>2. PICK p \in Lists(envelope) : Count(envelope) = Len(Items(envelope, p))
    BY <1>3, <1>4, <1>6, CountIs
  <2> QED BY <1>4, <1>6, <2>1, <2>2
<1>9. ASSUME NEW i \in 1..Len(candidates), NEW field \in CandidateFields
      PROVE  \/ candidates[i][field] = ""
             \/ \E said \in Said(envelope, i, field) :
                  candidates[i][field] = Trimmed(field, said)
  <2>1. candidates[i][field] = Trimmed(field, FieldText(envelope, i, field))
    BY <1>7
  <2>2. Trimmed(field, "") = ""
    BY OutputAssumption DEF Trimmed
  <2> QED BY <1>3, <1>7, <2>1, <2>2, ReadWasSaid
<1>10. ASSUME WrittenOnce(envelope), NEW i \in 1..Len(candidates), NEW field \in CandidateFields,
              NEW said \in Said(envelope, i, field)
       PROVE  candidates[i][field] = Trimmed(field, said)
  BY <1>3, <1>7, <1>10, SaidIsRead
<1>11. WrittenOnce(envelope) => \A p \in Lists(envelope) : Len(candidates) = Len(Items(envelope, p))
  BY <1>3, <1>6, CountIs
<1>12. Len(candidates) <= Limit
  BY <1>2, <1>6
<1>13. AreTrue(candidates, envelope)
  BY <1>7, <1>8, <1>9 DEF AreTrue
<1>14. WrittenOnce(envelope) => AreAll(candidates, envelope)
  BY <1>10, <1>11 DEF AreAll
<1> QED BY <1>2, <1>12, <1>13, <1>14

\* collectMemoryExtractionResponse and decodeMemoryCandidates.
LEMMA ExtractionStep == OutputInv /\ ExtractionNext => OutputInv'
<1> SUFFICES ASSUME OutputInv, ExtractionNext PROVE OutputInv'
  OBVIOUS
<1>1. CASE ExtractionFails
  <2>1. at' = "done" /\ result' = [kind |-> "no candidates"]
    BY <1>1 DEF ExtractionFails, End
  <2>2. result'.kind = "no candidates"
    BY <2>1
  <2> QED BY <2>1, <2>2 DEF OutputInv, CallInv, Executed, CalculatedWithOperands, ResponseInv,
                 CandidatesAreTheWholeResponse
<1>2. CASE Answers
  <2>1. at = "extract" /\ at' = "decode" /\ response' \in Responses /\ UNCHANGED result
    BY <1>2 DEF Answers
  <2>2. result'.kind = "none"
    BY <2>1 DEF OutputInv, CallInv
  <2> QED BY <2>1, <2>2 DEF OutputInv, CallInv, Executed, CalculatedWithOperands, ResponseInv,
                 CandidatesAreTheWholeResponse
<1>3. CASE Decode
  <2>1. at = "decode" /\ at' = "done" /\ response \in Responses /\ UNCHANGED response
    BY <1>3 DEF Decode, End, OutputInv, ResponseInv
  <2> DEFINE kept == Candidates(response[1])
             good == WholeResponse(response) /\ \A i \in 1..Count(response[1]) : ValidCandidate(kept[i])
  <2>0. \/ good /\ result' = [kind |-> "candidates", candidates |-> kept]
        \/ result' = [kind |-> "no candidates"]
    BY <1>3 DEF Decode, End
  <2>2. result'.kind \in {"candidates", "no candidates"}
    <3> HIDE DEF kept, good
    <3>1. ASSUME result' = [kind |-> "no candidates"] PROVE result'.kind = "no candidates"
      BY <3>1
    <3>2. ASSUME result' = [kind |-> "candidates", candidates |-> kept]
          PROVE  result'.kind = "candidates"
      BY <3>2
    <3> QED BY <2>0, <3>1, <3>2
  <2>3. CandidatesAreTheWholeResponse'
    <3>1. CASE result' = [kind |-> "no candidates"]
      <4>1. result'.kind = "no candidates"
        BY <3>1
      <4> QED BY <4>1 DEF CandidatesAreTheWholeResponse
    <3>2. CASE good /\ result' = [kind |-> "candidates", candidates |-> kept]
      <4>1. result'.candidates = kept
        <5> HIDE DEF kept
        <5> QED BY <3>2
      <4>2. /\ Len(response) = 1 /\ Len(kept) <= Limit
            /\ AreTrue(kept, response[1])
            /\ WrittenOnce(response[1]) => AreAll(kept, response[1])
        BY <2>1, <3>2, DecodedAreWhole
      <4> HIDE DEF kept
      <4>3. response' = response
        BY <2>1
      <4> QED BY <4>1, <4>2, <4>3 DEF CandidatesAreTheWholeResponse
    <3> QED BY <2>0, <3>1, <3>2
  <2> QED BY <2>1, <2>2, <2>3 DEF OutputInv, CallInv, Executed, CalculatedWithOperands,
                 ResponseInv
<1> QED BY <1>1, <1>2, <1>3 DEF ExtractionNext

LEMMA OutputInvariant == OutputSpec => []OutputInv
<1>1. OutputInv /\ [OutputNext]_outputVars => OutputInv'
  <2> SUFFICES ASSUME OutputInv, [OutputNext]_outputVars PROVE OutputInv'
    OBVIOUS
  <2>1. CASE UNCHANGED outputVars
    <3>1. UNCHANGED <<at, declared, call, response, result>>
      BY <2>1 DEF outputVars
    <3>2. Passed => Passed'
      BY <3>1, PassedStays
    <3>3. CallInv'
      BY <3>1, <3>2 DEF OutputInv, CallInv, Executed, HasTools
    <3> QED BY <3>1, <3>3 DEF OutputInv, CalculatedWithOperands, ResponseInv,
                   CandidatesAreTheWholeResponse
  <2> QED BY <2>1, ToolsStep, CheckStep, ExecuteStep, ExtractionStep DEF OutputNext, CallNext
<1> QED BY <1>1, OutputBegins, PTL DEF OutputSpec

-----------------------------------------------------------------------------
(* What follows *)

\* Only conforming calls reach an executor.
LEMMA PassedConforms == CallInv => OnlyConformingCallsRun
<1> SUFFICES ASSUME CallInv, Executed
             PROVE  /\ \E i : NamesOne(i)
                    /\ Len(call.arguments) = 1
                    /\ \A p \in Parts(Tool.parameters, call.arguments[1]) : RightFor(p[1], p[2])
  BY DEF OnlyConformingCallsRun, NamesOne
<1>1. HasTools /\ IsAllowed /\ ValidArguments(Tool, call.arguments)
  BY DEF CallInv, Passed
<1>2. PICK i : NamesOne(i) /\ Tool = Cloned(declared[i])
  BY <1>1, ToolIsOne
<1>3. Tool.lists = "json"
  BY <1>2, ClonedFacts
<1>4. PICK tool : tool = Tool
  OBVIOUS
<1> QED BY <1>1, <1>2, <1>3, <1>4, CheckedIsRight

\* The calculator computes with what was checked.
LEMMA OperandsAreChecked ==
  ASSUME CallInv, CalculatedWithOperands
  PROVE  ComputesWhatWasSaid
<1> SUFFICES ASSUME at = "done", result.kind = "success", call.name = Calculator.name
             PROVE  /\ \A field \in CalculatorFields :
                         /\ field \in Keys(call.arguments[1])
                         /\ \/ result.used[field] = Decoded(call.arguments[1], field).text
                            \/ KeysLike(call.arguments[1], field) # {field}
                    /\ result.used["op"] \in CalculatorOps
                    /\ result.used["op"] = "div" => result.used["b"] # "0"
  BY DEF ComputesWhatWasSaid
<1>1. PICK object : object = call.arguments[1]
  OBVIOUS
<1>2. CanCalculate(object) /\ result.used = Operands(object)
  BY <1>1 DEF CalculatedWithOperands
<1>3. HasTools /\ IsAllowed /\ call.arguments \in Arguments /\ ValidArguments(Tool, call.arguments)
  BY DEF CallInv, Executed, Passed
<1>4. PICK i : NamesOne(i) /\ Tool = Cloned(declared[i])
  BY <1>3, ToolIsOne
<1>5. Tool.lists = "json" /\ Tool.parameters = CalculatorSchema
  <2>1. declared[i].parameters = CalculatorSchema
    BY <1>3, <1>4, OutputAssumption DEF NamesOne, HasTools
  <2> QED BY <1>4, <2>1, ClonedFacts
<1>6. Len(call.arguments) = 1 /\ Conforms(CalculatorSchema, "json", object)
  BY <1>1, <1>3, <1>5 DEF ValidArguments
<1>7. Len(object.pairs) \in Nat
  <2>1. 1 \in 1..Len(call.arguments)
    BY <1>6
  <2> QED BY <1>1, <1>3, <2>1, OutputAssumption
<1>8. \A field \in CalculatorFields : field \in Keys(object)
  BY <1>2 DEF CanCalculate
<1>9. ASSUME NEW field \in CalculatorFields, KeysLike(object, field) = {field}
      PROVE  Operands(object)[field] = Decoded(object, field).text
  BY <1>6, <1>7, <1>8, <1>9, OperandIsChecked
<1>10. /\ Operands(object)["op"] \in CalculatorOps
       /\ ~(Operands(object)["op"] = "div" /\ Operands(object)["b"] = "0")
  BY <1>2 DEF CanCalculate
<1> QED BY <1>1, <1>2, <1>8, <1>9, <1>10

\* What an executor runs with is what was checked: one tool of the run, with
\* arguments that its schema allows, types, lists and closed objects at every
\* depth, and for the calculator the very values (execute, Calculator.Call).
THEOREM CheckedRuns == OutputSpec => []CheckedIsWhatRuns
<1>1. OutputInv => CheckedIsWhatRuns
  BY PassedConforms, OperandsAreChecked DEF OutputInv, CheckedIsWhatRuns
<1> QED BY <1>1, OutputInvariant, PTL

\* Candidates come of a response that is right as a whole: each is complete and
\* says nothing that its item does not, and where no field is written twice
\* they are all the items, in order, with all their texts
\* (decodeMemoryCandidates, validateMemoryCandidates).
THEOREM CandidatesAreWhole == OutputSpec => []CandidatesAreTheWholeResponse
<1>1. OutputInv => CandidatesAreTheWholeResponse
  BY DEF OutputInv
<1> QED BY <1>1, OutputInvariant, PTL

-----------------------------------------------------------------------------
(* ProviderStream: sequences put together *)

\* g puts the first m of seqs together, one after the other.
Flattens(g, m, seqs, T) ==
  /\ g \in [1..m -> Seq(T)]
  /\ \A i \in 1..m : g[i] = IF i = 1 THEN seqs[i] ELSE g[i - 1] \o seqs[i]

\* The sequences of a sequence, up to each of them, put together.
LEMMA FlatExists ==
  ASSUME NEW T, NEW n \in Nat, NEW seqs, \A k \in 1..n : seqs[k] \in Seq(T), NEW m \in 1..n
  PROVE  \E g : Flattens(g, m, seqs, T)
<1> DEFINE Good(k) == \E g : Flattens(g, k, seqs, T)
           Bad == {k \in 1..n : ~Good(k)}
<1>1. n >= 1 => Good(1)
  <2> SUFFICES ASSUME n >= 1 PROVE Good(1)
    OBVIOUS
  <2> DEFINE g == [i \in 1..1 |-> seqs[1]]
  <2>1. seqs[1] \in Seq(T)
    OBVIOUS
  <2>2. g \in [1..1 -> Seq(T)] /\ \A i \in 1..1 : i = 1 /\ g[i] = seqs[i]
    BY <2>1
  <2> HIDE DEF g
  <2>3. Flattens(g, 1, seqs, T)
    BY <2>2 DEF Flattens
  <2> QED BY <2>3
<1>2. ASSUME NEW k \in 2..n, Good(k - 1) PROVE Good(k)
  <2>0. PICK g : Flattens(g, k - 1, seqs, T)
    BY <1>2
  <2>1. /\ g \in [1..(k - 1) -> Seq(T)]
        /\ \A i \in 1..(k - 1) : g[i] = IF i = 1 THEN seqs[i] ELSE g[i - 1] \o seqs[i]
    BY <2>0 DEF Flattens
  <2>2. k \in 1..n /\ k - 1 \in 1..(k - 1) /\ k # 1 /\ k \in Nat
    OBVIOUS
  <2>3. g[k - 1] \o seqs[k] \in Seq(T)
    <3>1. g[k - 1] \in Seq(T) /\ seqs[k] \in Seq(T)
      BY <2>1, <2>2
    <3> QED BY <3>1, ConcatProperties
  <2> DEFINE h == [i \in 1..k |-> IF i = k THEN g[k - 1] \o seqs[k] ELSE g[i]]
  <2>4. \A i \in 1..k : i = k \/ i \in 1..(k - 1)
    BY <2>2
  <2>5. h \in [1..k -> Seq(T)]
    BY <2>1, <2>3, <2>4
  <2>9. k \in 1..k /\ \A i \in 1..(k - 1) : i \in 1..k /\ i # k
    BY <2>2
  <2>6. h[k] = g[k - 1] \o seqs[k]
    BY <2>9
  <2>7. \A i \in 1..(k - 1) : h[i] = g[i]
    BY <2>9
  <2> HIDE DEF h
  <2>8. ASSUME NEW i \in 1..k
        PROVE  h[i] = IF i = 1 THEN seqs[i] ELSE h[i - 1] \o seqs[i]
    <3>1. CASE i = k
      BY <2>2, <2>6, <2>7, <3>1
    <3>2. CASE i \in 1..(k - 1)
      <4>1. h[i] = g[i] /\ (i # 1 => i - 1 \in 1..(k - 1))
        BY <2>7, <3>2
      <4>2. i # 1 => h[i - 1] = g[i - 1]
        BY <2>7, <4>1
      <4>3. g[i] = IF i = 1 THEN seqs[i] ELSE g[i - 1] \o seqs[i]
        BY <2>1, <3>2
      <4> QED BY <4>1, <4>2, <4>3
    <3> QED BY <2>4, <3>1, <3>2
  <2>10. Flattens(h, k, seqs, T)
    BY <2>5, <2>8 DEF Flattens
  <2> QED BY <2>10
<1>3. Bad = {}
  <2> SUFFICES ASSUME Bad # {} PROVE FALSE
    OBVIOUS
  <2>1. Bad \in SUBSET Nat
    OBVIOUS
  <2>2. PICK x \in Bad : \A y \in Bad : x <= y
    <3> HIDE DEF Bad
    <3> QED BY <2>1, FirstNumber
  <2>3. x \in 1..n /\ ~Good(x)
    <3> HIDE DEF Good
    <3> QED OBVIOUS
  <2> HIDE DEF Good
  <2>4. x \in 2..n
    <3>1. x # 1
      BY <1>1, <2>3
    <3> QED BY <2>3, <3>1
  <2>5. x - 1 \in 1..n /\ ~(x <= x - 1)
    BY <2>4
  <2>6. Good(x - 1)
    BY <2>2, <2>5
  <2> QED BY <1>2, <2>3, <2>4, <2>6
<1>4. m \notin Bad => Good(m)
  <2> HIDE DEF Good
  <2> QED OBVIOUS
<1> HIDE DEF Bad
<1> QED BY <1>3, <1>4


\* What FlattenSeq returns is the last of them.
LEMMA FlatIs ==
  ASSUME NEW T, NEW n \in Nat, n >= 1, NEW seqs, Len(seqs) = n, \A k \in 1..n : seqs[k] \in Seq(T)
  PROVE  \E g : Flattens(g, n, seqs, T) /\ FlattenSeq(seqs) = g[n]
<1> DEFINE Eq(flatten) == flatten = [i \in 1..n |->
              IF i = 1 THEN seqs[i] ELSE flatten[i - 1] \o seqs[i]]
<1>1. n \in 1..n
  OBVIOUS
<1>2. PICK g : Flattens(g, n, seqs, T)
  BY <1>1, FlatExists
<1>3. /\ g \in [1..n -> Seq(T)]
      /\ \A i \in 1..n : g[i] = IF i = 1 THEN seqs[i] ELSE g[i - 1] \o seqs[i]
  BY <1>2 DEF Flattens
<1>4. Eq(g)
  <2> DEFINE h == [i \in 1..n |-> IF i = 1 THEN seqs[i] ELSE g[i - 1] \o seqs[i]]
  <2>1. DOMAIN g = 1..n /\ g = [i \in 1..n |-> g[i]]
    BY <1>3
  <2>2. \A i \in 1..n : g[i] = h[i]
    BY <1>3
  <2>3. [i \in 1..n |-> g[i]] = h
    BY <2>2
  <2> QED BY <2>1, <2>3
<1> DEFINE c == CHOOSE flatten : Eq(flatten)
<1>5. Eq(c)
  <2> HIDE DEF Eq
  <2> QED BY <1>4
<1>6. FlattenSeq(seqs) = c[n]
  BY DEF FlattenSeq
<1> HIDE DEF c
<1>7. \A i \in 1..n : c[i] = IF i = 1 THEN seqs[i] ELSE c[i - 1] \o seqs[i]
  <2> DEFINE h == [i \in 1..n |-> IF i = 1 THEN seqs[i] ELSE c[i - 1] \o seqs[i]]
  <2>1. c = h
    BY <1>5
  <2>2. \A i \in 1..n : h[i] = IF i = 1 THEN seqs[i] ELSE c[i - 1] \o seqs[i]
    OBVIOUS
  <2> HIDE DEF h
  <2> QED BY <2>1, <2>2
<1>8. DOMAIN c = 1..n /\ c = [i \in 1..n |-> c[i]]
  BY <1>5
<1> HIDE DEF Eq
<1>9. \A i \in 1..n : c[i] \in Seq(T)
  <2> DEFINE Bad == {i \in 1..n : c[i] \notin Seq(T)}
  <2> SUFFICES ASSUME Bad # {} PROVE FALSE
    OBVIOUS
  <2>1. Bad \in SUBSET Nat
    OBVIOUS
  <2>2. PICK x \in Bad : \A y \in Bad : x <= y
    <3> HIDE DEF Bad
    <3> QED BY <2>1, FirstNumber
  <2>3. x \in 1..n /\ seqs[x] \in Seq(T) /\ c[x] \notin Seq(T)
    OBVIOUS
  <2>4. x # 1
    BY <1>7, <2>3
  <2>5. x - 1 \in 1..n /\ ~(x <= x - 1)
    BY <2>3, <2>4
  <2>6. c[x - 1] \in Seq(T)
    BY <2>2, <2>5
  <2>7. c[x - 1] \o seqs[x] \in Seq(T)
    BY <2>3, <2>6, ConcatProperties
  <2> QED BY <1>7, <2>3, <2>4, <2>7
<1>10. c \in [1..n -> Seq(T)]
  <2>1. [i \in 1..n |-> c[i]] \in [1..n -> Seq(T)]
    BY <1>9
  <2> QED BY <1>8, <2>1
<1>11. Flattens(c, n, seqs, T)
  BY <1>7, <1>10 DEF Flattens
<1> QED BY <1>6, <1>11

\* s and t have the same first m elements.
Agree(m, s, t) == \A k \in 1..m : s[k] = t[k]

\* Sequences that agree are put together alike.
LEMMA FlatAgree ==
  ASSUME NEW T, NEW m \in Nat, NEW n \in Nat, m <= n, NEW s, NEW t, Agree(m, s, t),
         NEW g, Flattens(g, m, s, T), NEW h, Flattens(h, n, t, T)
  PROVE  \A i \in 1..m : g[i] = h[i]
<1> DEFINE Bad == {i \in 1..m : g[i] # h[i]}
<1> SUFFICES ASSUME Bad # {} PROVE FALSE
  OBVIOUS
<1>1. Bad \in SUBSET Nat
  OBVIOUS
<1>2. PICK x \in Bad : \A y \in Bad : x <= y
  <2> HIDE DEF Bad
  <2> QED BY <1>1, FirstNumber
<1>3. x \in 1..m /\ x \in 1..n /\ s[x] = t[x] /\ g[x] # h[x]
  BY DEF Agree
<1>4. x # 1 => x - 1 \in 1..m /\ ~(x <= x - 1)
  BY <1>3
<1>5. x # 1 => g[x - 1] = h[x - 1]
  BY <1>2, <1>4
<1>6. g[x] = IF x = 1 THEN s[x] ELSE g[x - 1] \o s[x]
  BY <1>3 DEF Flattens
<1>7. h[x] = IF x = 1 THEN t[x] ELSE h[x - 1] \o t[x]
  BY <1>3 DEF Flattens
<1> QED BY <1>3, <1>5, <1>6, <1>7

\* The first n of t are sequences of T.
SequencesOf(t, n, T) == \A k \in 1..n : t[k] \in Seq(T)

\* t put together is s put together and one sequence more.
HasOneMore(t, s, n) == FlattenSeq(t) = FlattenSeq(s) \o t[n + 1]

\* One sequence more is put at the end.
LEMMA FlatOneMore ==
  ASSUME NEW T, NEW n \in Nat, NEW s, Len(s) = n, n = 0 => s = <<>>,
         NEW t, Len(t) = n + 1, Agree(n, s, t), SequencesOf(t, n + 1, T)
  PROVE  /\ FlattenSeq(s) \in Seq(T)
         /\ FlattenSeq(t) \in Seq(T)
         /\ HasOneMore(t, s, n)
<1>1. n + 1 \in Nat /\ n + 1 >= 1 /\ n + 1 \in 1..(n + 1) /\ t[n + 1] \in Seq(T)
  BY DEF SequencesOf
<1>2. PICK h : Flattens(h, n + 1, t, T) /\ FlattenSeq(t) = h[n + 1]
  BY <1>1, FlatIs DEF SequencesOf
<1>3. /\ h \in [1..(n + 1) -> Seq(T)]
      /\ \A i \in 1..(n + 1) : h[i] = IF i = 1 THEN t[i] ELSE h[i - 1] \o t[i]
  BY <1>2 DEF Flattens
<1>4. CASE n = 0
  <2>1. FlattenSeq(s) = <<>>
    BY <1>4 DEF FlattenSeq
  <2>2. h[n + 1] = t[n + 1]
    BY <1>1, <1>3, <1>4
  <2>3. <<>> \o t[n + 1] = t[n + 1] /\ <<>> \in Seq(T)
    BY <1>1, ConcatEmptySeq
  <2> QED BY <1>1, <1>2, <2>1, <2>2, <2>3 DEF HasOneMore
<1>5. CASE n # 0
  <2>1. n >= 1 /\ n \in 1..n /\ n \in 1..(n + 1) /\ n <= n + 1
    BY <1>5
  <2>2. \A k \in 1..n : s[k] \in Seq(T)
    BY DEF Agree, SequencesOf
  <2>3. PICK g : Flattens(g, n, s, T) /\ FlattenSeq(s) = g[n]
    BY <2>1, <2>2, FlatIs
  <2>4. g[n] = h[n]
    <3>0. PICK N \in Nat : N = n + 1 /\ n <= N
      BY <1>1, <2>1
    <3>1. Flattens(g, n, s, T) /\ Flattens(h, N, t, T) 
      BY <1>2, <2>3, <3>0
    <3>2. \A i \in 1..n : g[i] = h[i]
      BY <3>0, <3>1, FlatAgree
    <3> QED BY <2>1, <3>2
  <2>5. h[n + 1] = h[n] \o t[n + 1]
    <3>1. n + 1 # 1 /\ (n + 1) - 1 = n
      BY <1>5
    <3>2. h[n + 1] = h[(n + 1) - 1] \o t[n + 1]
      BY <1>1, <1>3, <3>1
    <3> QED BY <3>1, <3>2
  <2>6. h[n] \in Seq(T) /\ h[n + 1] \in Seq(T)
    BY <1>1, <1>3, <2>1
  <2> QED BY <1>2, <2>3, <2>4, <2>5, <2>6 DEF HasOneMore
<1> QED BY <1>4, <1>5

-----------------------------------------------------------------------------
(* What was shown *)

Fragments == Pieces \ {"none"}

\* Call fragments that can be merged, and delta events with such fragments.
GoodDeltas == {d \in CallDeltas : d.index >= 0}
ShownEvents ==
  [type : {"delta"}, text : Nat, reasoning : BOOLEAN, calls : Seq(GoodDeltas),
   message : {NoMessage}]

\* One part of each of the sums.
TextPart(e) == IF e.text = 0 THEN <<>> ELSE <<e.text>>
Piece(d, i) == IF d.index = i THEN ArgsPieces(d.args) ELSE <<>>

LEMMA TextIsFlat ==
  ASSUME NEW s
  PROVE  TextOf(s) = FlattenSeq([k \in 1..Len(s) |-> TextPart(s[k])])
BY DEF TextOf, TextPart

\* The arguments for i in the first m fragments.
PiecesTo(deltas, m, i) == FlattenSeq([j \in 1..m |-> Piece(deltas[j], i)])

LEMMA PiecesAreFlat ==
  ASSUME NEW deltas, NEW i
  PROVE  PiecesOf(deltas, i) = PiecesTo(deltas, Len(deltas), i)
BY DEF PiecesOf, PiecesTo, Piece

\* A piece of arguments is a sequence of at most one fragment.
LEMMA PieceTyped ==
  ASSUME NEW d \in GoodDeltas, NEW i
  PROVE  Piece(d, i) \in Seq(Fragments)
<1>1. d.args \in Pieces
  BY DEF GoodDeltas, CallDeltas
<1>2. ArgsPieces(d.args) \in Seq(Fragments)
  <2>1. CASE d.args = "none"
    BY <2>1 DEF ArgsPieces
  <2>2. CASE d.args # "none"
    <3>1. d.args \in Fragments
      BY <1>1, <2>2 DEF Fragments
    <3>2. ArgsPieces(d.args) = <<d.args>>
      BY <2>2 DEF ArgsPieces
    <3> QED BY <3>1, <3>2
  <2> QED BY <2>1, <2>2
<1> QED BY <1>2 DEF Piece

\* One fragment more.
LEMMA PiecesStep ==
  ASSUME NEW deltas \in Seq(GoodDeltas), NEW m \in Nat, m + 1 <= Len(deltas), NEW i
  PROVE  /\ PiecesTo(deltas, m, i) \in Seq(Fragments)
         /\ PiecesTo(deltas, m + 1, i) \in Seq(Fragments)
         /\ PiecesTo(deltas, m + 1, i) = PiecesTo(deltas, m, i) \o Piece(deltas[m + 1], i)
<1>0. PICK n \in Nat : n = m + 1
  OBVIOUS
<1> DEFINE s == [j \in 1..m |-> Piece(deltas[j], i)]
           t == [j \in 1..n |-> Piece(deltas[j], i)]
<1>1. \A j \in 1..n : deltas[j] \in GoodDeltas
  BY <1>0
<1>2. SequencesOf(t, n, Fragments)
  BY <1>1, PieceTyped DEF SequencesOf
<1>3. \A j \in 1..m : j \in 1..n
  BY <1>0
<1>4. Agree(m, s, t)
  BY <1>3 DEF Agree
<1>5. Len(s) = m /\ Len(t) = n /\ (m = 0 => s = <<>>) /\ n \in 1..n
  BY <1>0
<1>6. t[n] = Piece(deltas[n], i)
  BY <1>5
<1>7. PiecesTo(deltas, m, i) = FlattenSeq(s) /\ PiecesTo(deltas, n, i) = FlattenSeq(t)
  BY DEF PiecesTo
<1> HIDE DEF s, t
<1>8. /\ FlattenSeq(s) \in Seq(Fragments) /\ FlattenSeq(t) \in Seq(Fragments)
      /\ HasOneMore(t, s, m)
  BY <1>0, <1>2, <1>4, <1>5, FlatOneMore
<1> QED BY <1>0, <1>6, <1>7, <1>8 DEF HasOneMore

LEMMA PiecesStart ==
  ASSUME NEW deltas, NEW i
  PROVE  PiecesTo(deltas, 0, i) = <<>>
BY DEF PiecesTo, FlattenSeq

-----------------------------------------------------------------------------
(* Merging *)

CallType == [id : BOOLEAN, name : BOOLEAN, args : Seq(Fragments)]

\* The arguments of the call with an index, if there is one.
ArgsAt(calls, i) == IF i + 1 \in 1..Len(calls) THEN calls[i + 1].args ELSE <<>>

LEMMA BlankCallTyped == BlankCall \in CallType
BY DEF BlankCall, CallType

LEMMA ArgsAtTyped ==
  ASSUME NEW calls \in Seq(CallType), NEW i \in Nat
  PROVE  ArgsAt(calls, i) \in Seq(Fragments)
<1>1. CASE i + 1 \in 1..Len(calls)
  <2>1. calls[i + 1] \in CallType
    BY <1>1
  <2> QED BY <1>1, <2>1 DEF ArgsAt, CallType
<1>2. CASE i + 1 \notin 1..Len(calls)
  BY <1>2 DEF ArgsAt
<1> QED BY <1>1, <1>2

\* m is calls with the piece of one fragment more.
OneMerged(m, calls, delta) ==
  /\ m \in Seq(CallType)
  /\ Len(calls) <= Len(m) /\ delta.index < Len(m)
  /\ \A i \in Nat : ArgsAt(m, i) = ArgsAt(calls, i) \o Piece(delta, i)
  /\ \A k \in 1..Len(m) : m[k] # BlankCall =>
       (k \in 1..Len(calls) /\ calls[k] # BlankCall) \/ delta.index = k - 1

LEMMA ExtendedFacts ==
  ASSUME NEW c \in CallType, NEW delta \in GoodDeltas
  PROVE  /\ Extended(c, delta) \in CallType
         /\ Extended(c, delta).args = c.args \o Piece(delta, delta.index)
<1>1. Piece(delta, delta.index) = ArgsPieces(delta.args)
  BY DEF Piece
<1>2. ArgsPieces(delta.args) \in Seq(Fragments)
  BY <1>1, PieceTyped
<1>3. c.args \in Seq(Fragments) /\ c.id \in BOOLEAN /\ c.name \in BOOLEAN
  BY DEF CallType
<1>4. delta.id \in BOOLEAN /\ delta.name \in BOOLEAN
  BY DEF GoodDeltas, CallDeltas
<1>5. PICK args : args = c.args \o ArgsPieces(delta.args)
  OBVIOUS
<1>6. args \in Seq(Fragments)
  BY <1>2, <1>3, <1>5, ConcatProperties
<1>7. (c.id \/ delta.id) \in BOOLEAN /\ (c.name \/ delta.name) \in BOOLEAN
  OBVIOUS
<1>8. Extended(c, delta) = [id |-> c.id \/ delta.id, name |-> c.name \/ delta.name, args |-> args]
  BY <1>5 DEF Extended
<1>9. Extended(c, delta) \in CallType
  BY <1>6, <1>7, <1>8 DEF CallType
<1>10. Extended(c, delta).args = args
  BY <1>8
<1> QED BY <1>1, <1>5, <1>9, <1>10

LEMMA MergeOneIs ==
  ASSUME NEW calls \in Seq(CallType), NEW delta \in GoodDeltas
  PROVE  OneMerged(MergeOne(calls, delta), calls, delta)
<1>0. PICK x : x = delta.index
  OBVIOUS
<1>1. x \in Nat /\ Len(calls) \in Nat
  <2>1. delta.index \in Int /\ delta.index >= 0
    BY DEF GoodDeltas, CallDeltas
  <2> QED BY <1>0, <2>1
<1>2. PICK n \in Nat : n = IF x + 1 > Len(calls) THEN x + 1 ELSE Len(calls)
  BY <1>1
<1>3. PICK y : y = x + 1
  OBVIOUS
<1>4. Len(calls) <= n /\ y \in 1..n /\ x < n
  BY <1>1, <1>2, <1>3
<1> DEFINE p == [k \in 1..n |-> IF k <= Len(calls) THEN calls[k] ELSE BlankCall]
           m == [p EXCEPT ![y] = Extended(@, delta)]
<1>5. Padded(calls, x) = p
  BY <1>2 DEF Padded
<1>6. MergeOne(calls, delta) = m
  BY <1>0, <1>3, <1>5 DEF MergeOne
<1>7. \A k \in 1..n : p[k] = IF k \in 1..Len(calls) THEN calls[k] ELSE BlankCall
  BY <1>1
<1>8. \A k \in 1..n : p[k] \in CallType
  BY <1>7, BlankCallTyped
<1>9. DOMAIN p = 1..n
  OBVIOUS
<1>10. m = [k \in 1..n |-> m[k]] /\ m[y] = Extended(p[y], delta) /\ \A k \in 1..n : k # y => m[k] = p[k]
  <2> HIDE DEF p
  <2> QED BY <1>4, <1>9
<1> HIDE DEF m, p
<1>11. \A k \in 1..n : m[k] \in CallType
  <2>1. Extended(p[y], delta) \in CallType
    BY <1>4, <1>8, ExtendedFacts
  <2> QED BY <1>8, <1>10, <2>1
<1>12. m \in Seq(CallType) /\ Len(m) = n
  BY <1>10, <1>11, IsASeq
<1>13. ASSUME NEW i \in Nat PROVE ArgsAt(m, i) = ArgsAt(calls, i) \o Piece(delta, i)
  <2>1. CASE i = x
    <3>1. ArgsAt(m, i) = m[y].args
      BY <1>3, <1>4, <1>12, <2>1 DEF ArgsAt
    <3>2. m[y].args = p[y].args \o Piece(delta, i)
      BY <1>0, <1>4, <1>8, <1>10, <2>1, ExtendedFacts
    <3>3. p[y].args = ArgsAt(calls, i)
      BY <1>3, <1>4, <1>7, <2>1 DEF ArgsAt, BlankCall
    <3> QED BY <3>1, <3>2, <3>3
  <2>2. CASE i # x
    <3>1. Piece(delta, i) = <<>>
      BY <1>0, <2>2 DEF Piece
    <3>2. ArgsAt(m, i) = ArgsAt(calls, i)
      <4>1. CASE i + 1 \in 1..n
        <5>1. m[i + 1] = p[i + 1]
          BY <1>1, <1>3, <1>10, <2>2, <4>1
        <5> QED BY <1>7, <1>12, <4>1, <5>1 DEF ArgsAt, BlankCall
      <4>2. CASE i + 1 \notin 1..n
        <5>1. i + 1 \notin 1..Len(calls)
          BY <1>1, <1>4, <4>2
        <5> QED BY <1>12, <4>2, <5>1 DEF ArgsAt
      <4> QED BY <4>1, <4>2
    <3>3. ArgsAt(calls, i) \in Seq(Fragments)
      BY ArgsAtTyped
    <3> QED BY <3>1, <3>2, <3>3, ConcatEmptySeq
  <2> QED BY <2>1, <2>2
<1>14. ASSUME NEW k \in 1..n, m[k] # BlankCall, x # k - 1
       PROVE  k \in 1..Len(calls) /\ calls[k] # BlankCall
  <2>1. k # y
    BY <1>1, <1>3, <1>14
  <2> QED BY <1>7, <1>10, <1>14, <2>1
<1> QED BY <1>0, <1>4, <1>6, <1>12, <1>13, <1>14 DEF OneMerged

\* f merges the first k fragments, one after the other.
Merges(f, calls, deltas, k) ==
  /\ f = [j \in 0..k |-> f[j]]
  /\ f[0] = calls
  /\ \A j \in 1..k : f[j] = MergeOne(f[j - 1], deltas[j])

LEMMA MergesExist ==
  ASSUME NEW calls, NEW deltas, NEW n \in Nat
  PROVE  \E f : Merges(f, calls, deltas, n)
<1> DEFINE Good(k) == \E f : Merges(f, calls, deltas, k)
           T == {k \in 0..n : ~Good(k)}
<1>1. Good(0)
  <2> DEFINE f == [j \in 0..0 |-> calls]
  <2>1. f = [j \in 0..0 |-> f[j]] /\ f[0] = calls /\ 1..0 = {}
    OBVIOUS
  <2> HIDE DEF f
  <2> QED BY <2>1 DEF Merges
<1>2. ASSUME NEW k \in 1..n, Good(k - 1) PROVE Good(k)
  <2>1. PICK f : Merges(f, calls, deltas, k - 1)
    BY <1>2
  <2>2. k \in Nat /\ k - 1 \in 0..(k - 1)
    OBVIOUS
  <2> DEFINE h == [j \in 0..k |-> IF j = k THEN MergeOne(f[k - 1], deltas[k]) ELSE f[j]]
  <2>3. h = [j \in 0..k |-> h[j]] /\ h[k] = MergeOne(f[k - 1], deltas[k])
    BY <2>2
  <2>4. \A j \in 0..(k - 1) : h[j] = f[j]
    BY <2>2
  <2>5. f[0] = calls /\ \A j \in 1..(k - 1) : f[j] = MergeOne(f[j - 1], deltas[j])
    BY <2>1 DEF Merges
  <2> HIDE DEF h
  <2>6. h[0] = calls
    BY <2>2, <2>4, <2>5
  <2>7. ASSUME NEW j \in 1..k PROVE h[j] = MergeOne(h[j - 1], deltas[j])
    <3>1. j - 1 \in 0..(k - 1)
      BY <2>2
    <3>2. CASE j = k
      BY <2>3, <2>4, <3>1, <3>2
    <3>3. CASE j \in 1..(k - 1)
      <4>1. j \in 0..(k - 1)
        BY <3>3
      <4> QED BY <2>4, <2>5, <3>1, <3>3, <4>1
    <3> QED BY <2>2, <3>2, <3>3
  <2> QED BY <2>3, <2>6, <2>7 DEF Merges
<1>3. T = {}
  <2> SUFFICES ASSUME T # {} PROVE FALSE
    OBVIOUS
  <2>1. T \in SUBSET Nat
    OBVIOUS
  <2>2. PICK x \in T : \A y \in T : x <= y
    <3> HIDE DEF T
    <3> QED BY <2>1, FirstNumber
  <2>3. x \in 1..n
    <3>1. x # 0
      BY <1>1
    <3> QED BY <3>1
  <2>4. x - 1 \in 0..n /\ ~(x <= x - 1)
    BY <2>3
  <2>5. Good(x - 1)
    <3> HIDE DEF Good
    <3> QED BY <2>2, <2>4
  <2> HIDE DEF Good
  <2> QED BY <1>2, <2>3, <2>5
<1>4. n \in 0..n /\ (n \notin T => Good(n))
  <2> HIDE DEF Good
  <2> QED OBVIOUS
<1> QED BY <1>3, <1>4

\* What Merge returns is the last of them.
LEMMA MergeIs ==
  ASSUME NEW calls, NEW deltas, Len(deltas) \in Nat
  PROVE  \E f : Merges(f, calls, deltas, Len(deltas)) /\ Merge(calls, deltas) = f[Len(deltas)]
<1>0. PICK n \in Nat : n = Len(deltas)
  OBVIOUS
<1> DEFINE Eq(f) == f = [k \in 0..n |-> IF k = 0 THEN calls ELSE MergeOne(f[k - 1], deltas[k])]
           merged == CHOOSE f : Eq(f)
<1>1. PICK g : Merges(g, calls, deltas, n)
  BY MergesExist
<1>2. Eq(g)
  <2> DEFINE h == [k \in 0..n |-> IF k = 0 THEN calls ELSE MergeOne(g[k - 1], deltas[k])]
  <2>1. g = [k \in 0..n |-> g[k]]
    BY <1>1 DEF Merges
  <2>2. \A k \in 0..n : g[k] = h[k]
    <3>1. ASSUME NEW k \in 0..n, k # 0 PROVE k \in 1..n
      BY <3>1
    <3> QED BY <1>1, <3>1 DEF Merges
  <2> QED BY <2>1, <2>2
<1>3. Eq(merged)
  <2> HIDE DEF Eq
  <2> QED BY <1>2
<1>4. Merge(calls, deltas) = merged[n]
  BY <1>0 DEF Merge
<1> HIDE DEF merged
<1>5. \A k \in 0..n : merged[k] = IF k = 0 THEN calls ELSE MergeOne(merged[k - 1], deltas[k])
  BY <1>3
<1>6. merged = [k \in 0..n |-> merged[k]]
  BY <1>3
<1> HIDE DEF Eq
<1>7. Merges(merged, calls, deltas, n)
  <2>1. merged[0] = calls
    BY <1>5
  <2>2. ASSUME NEW k \in 1..n PROVE merged[k] = MergeOne(merged[k - 1], deltas[k])
    <3>1. k \in 0..n /\ k # 0
      OBVIOUS
    <3> QED BY <1>5, <3>1
  <2> QED BY <1>6, <2>1, <2>2 DEF Merges
<1> QED BY <1>0, <1>4, <1>7

\* m is calls with the first k fragments merged into it.
Merged(m, calls, deltas, k) ==
  /\ m \in Seq(CallType)
  /\ Len(calls) <= Len(m)
  /\ \A j \in 1..k : deltas[j].index < Len(m)
  /\ \A i \in Nat : ArgsAt(m, i) = ArgsAt(calls, i) \o PiecesTo(deltas, k, i)
  /\ \A c \in 1..Len(m) : m[c] # BlankCall =>
       (c \in 1..Len(calls) /\ calls[c] # BlankCall) \/ \E j \in 1..k : deltas[j].index = c - 1

LEMMA NothingMerged ==
  ASSUME NEW calls \in Seq(CallType), NEW deltas
  PROVE  Merged(calls, calls, deltas, 0)
<1>1. ASSUME NEW i \in Nat PROVE ArgsAt(calls, i) = ArgsAt(calls, i) \o PiecesTo(deltas, 0, i)
  <2>1. PICK a : a = ArgsAt(calls, i)
    OBVIOUS
  <2>2. a \in Seq(Fragments)
    BY <2>1, ArgsAtTyped
  <2>3. a \o <<>> = a
    BY <2>2, ConcatEmptySeq
  <2>4. PiecesTo(deltas, 0, i) = <<>>
    BY PiecesStart
  <2> QED BY <2>1, <2>3, <2>4
<1>2. Len(calls) \in Nat /\ 1..0 = {}
  OBVIOUS
<1>3. Len(calls) <= Len(calls)
  BY <1>2
<1> QED BY <1>1, <1>2, <1>3 DEF Merged

LEMMA OneMoreMerged ==
  ASSUME NEW calls \in Seq(CallType), NEW deltas \in Seq(GoodDeltas),
         NEW k \in Nat, k + 1 <= Len(deltas),
         NEW m, Merged(m, calls, deltas, k)
  PROVE  Merged(MergeOne(m, deltas[k + 1]), calls, deltas, k + 1)
<1>0. PICK n \in Nat : n = k + 1
  OBVIOUS
<1>1. n \in 1..Len(deltas) /\ n \in 1..n /\ \A j \in 1..n : j = n \/ j \in 1..k
  BY <1>0
<1>2. PICK d \in GoodDeltas : d = deltas[n]
  BY <1>1
<1>3. PICK w : w = MergeOne(m, d)
  OBVIOUS
<1>4. m \in Seq(CallType)
  BY DEF Merged
<1>5. OneMerged(w, m, d)
  BY <1>3, <1>4, MergeOneIs
<1>6. w \in Seq(CallType) /\ Len(m) <= Len(w) /\ d.index < Len(w)
      /\ Len(m) \in Nat /\ Len(w) \in Nat /\ Len(calls) \in Nat
  <2>1. w \in Seq(CallType) /\ Len(m) <= Len(w) /\ d.index < Len(w)
    BY <1>5 DEF OneMerged
  <2>2. \A s \in Seq(CallType) : Len(s) \in Nat
    OBVIOUS
  <2> QED BY <1>4, <2>1, <2>2
<1>7. Len(calls) <= Len(w)
  BY <1>6 DEF Merged
<1>8. ASSUME NEW j \in 1..n PROVE deltas[j].index < Len(w)
  <2>1. CASE j = n
    BY <1>2, <1>6, <2>1
  <2>2. CASE j \in 1..k
    <3>1. deltas[j].index < Len(m)
      BY <2>2 DEF Merged
    <3>2. deltas[j].index \in Int
      BY <1>0, <1>1 DEF GoodDeltas, CallDeltas
    <3> QED BY <1>6, <3>1, <3>2
  <2> QED BY <1>1, <2>1, <2>2
<1>9. ASSUME NEW i \in Nat PROVE ArgsAt(w, i) = ArgsAt(calls, i) \o PiecesTo(deltas, n, i)
  <2>1. PICK a : a = ArgsAt(calls, i)
    OBVIOUS
  <2>2. PICK b : b = PiecesTo(deltas, k, i)
    OBVIOUS
  <2>3. PICK c : c = Piece(d, i)
    OBVIOUS
  <2>4. ArgsAt(w, i) = (a \o b) \o c
    BY <1>5, <2>1, <2>2, <2>3 DEF OneMerged, Merged
  <2>5. PiecesTo(deltas, n, i) = b \o c /\ b \in Seq(Fragments)
    BY <1>0, <1>1, <1>2, <2>2, <2>3, PiecesStep
  <2>6. a \in Seq(Fragments) /\ c \in Seq(Fragments)
    BY <2>1, <2>3, ArgsAtTyped, PieceTyped
  <2>7. (a \o b) \o c = a \o (b \o c)
    <3>1. ASSUME NEW x \in Seq(Fragments), NEW y \in Seq(Fragments), NEW z \in Seq(Fragments)
          PROVE  (x \o y) \o z = x \o (y \o z)
      BY ConcatAssociative
    <3> QED BY <2>5, <2>6, <3>1
  <2> QED BY <2>1, <2>4, <2>5, <2>7
<1>10. ASSUME NEW c \in 1..Len(w), w[c] # BlankCall
       PROVE  (c \in 1..Len(calls) /\ calls[c] # BlankCall) \/ \E j \in 1..n : deltas[j].index = c - 1
  <2>1. CASE d.index = c - 1
    BY <1>1, <1>2, <2>1
  <2>2. CASE c \in 1..Len(m) /\ m[c] # BlankCall
    <3>1. (c \in 1..Len(calls) /\ calls[c] # BlankCall) \/ \E j \in 1..k : deltas[j].index = c - 1
      BY <2>2 DEF Merged
    <3> QED BY <1>0, <3>1
  <2> QED BY <1>5, <1>10, <2>1, <2>2 DEF OneMerged
<1>11. Merged(w, calls, deltas, n)
  BY <1>6, <1>7, <1>8, <1>9, <1>10 DEF Merged
<1> QED BY <1>0, <1>2, <1>3, <1>11

\* All fragments of a payload are merged.
LEMMA MergeMerges ==
  ASSUME NEW calls \in Seq(CallType), NEW deltas \in Seq(GoodDeltas)
  PROVE  Merged(Merge(calls, deltas), calls, deltas, Len(deltas))
<1>0. PICK n \in Nat : n = Len(deltas)
  OBVIOUS
<1>1. PICK f : Merges(f, calls, deltas, n) /\ Merge(calls, deltas) = f[n]
  BY <1>0, MergeIs
<1> DEFINE T == {k \in 0..n : ~Merged(f[k], calls, deltas, k)}
<1>2. T = {}
  <2> SUFFICES ASSUME T # {} PROVE FALSE
    OBVIOUS
  <2>1. T \in SUBSET Nat
    OBVIOUS
  <2>2. PICK x \in T : \A y \in T : x <= y
    <3> HIDE DEF T
    <3> QED BY <2>1, FirstNumber
  <2>3. x # 0
    BY <1>1, NothingMerged DEF Merges
  <2>4. PICK y \in Nat : y + 1 = x
    <3>1. x \in 0..n
      OBVIOUS
    <3> QED BY <2>3, <3>1
  <2>5. x \in 1..n /\ y \in 0..n /\ ~(x <= y) /\ x - 1 = y
    BY <2>3, <2>4
  <2>6. Merged(f[y], calls, deltas, y)
    BY <2>2, <2>5
  <2>7. f[x] = MergeOne(f[y], deltas[x])
    BY <1>1, <2>5 DEF Merges
  <2>8. Merged(f[x], calls, deltas, x)
    BY <1>0, <2>4, <2>5, <2>6, <2>7, OneMoreMerged
  <2> QED BY <2>8
<1>3. n \in 0..n
  OBVIOUS
<1> HIDE DEF T
<1>4. Merged(f[n], calls, deltas, n)
  <2>1. n \notin T
    BY <1>2
  <2> QED BY <1>3, <2>1 DEF T
<1> QED BY <1>0, <1>1, <1>4

LEMMA TextPartTyped ==
  ASSUME NEW e \in ShownEvents
  PROVE  TextPart(e) \in Seq(Nat)
<1>1. e.text \in Nat
  BY DEF ShownEvents
<1>2. <<e.text>> \in Seq(Nat) /\ <<>> \in Seq(Nat)
  BY <1>1
<1> QED BY <1>2 DEF TextPart

\* The elements of a sequence with one element more.
IsOneMore(G, F, e) ==
  /\ Len(G) = Len(F) + 1
  /\ Agree(Len(F), F, G)
  /\ G[Len(F) + 1] = e

LEMMA AppendIsOneMore ==
  ASSUME NEW T, NEW F \in Seq(T), NEW e \in T
  PROVE  Append(F, e) \in Seq(T) /\ IsOneMore(Append(F, e), F, e)
BY AppendProperties DEF IsOneMore, Agree

\* An event more is a part of the text more.
LEMMA TextGrows ==
  ASSUME NEW F \in Seq(ShownEvents), NEW e \in ShownEvents
  PROVE  TextOf(Append(F, e)) = TextOf(F) \o TextPart(e)
<1>0. PICK G : G = Append(F, e)
  OBVIOUS
<1>1. G \in Seq(ShownEvents) /\ IsOneMore(G, F, e)
  BY <1>0, AppendIsOneMore
<1>2. PICK n \in Nat : n = Len(F)
  OBVIOUS
<1>3. PICK m \in Nat : m = n + 1
  OBVIOUS
<1>4. Len(G) = m /\ G[m] = e /\ \A k \in 1..n : k \in 1..m /\ F[k] = G[k]
  BY <1>1, <1>2, <1>3 DEF IsOneMore, Agree
<1> DEFINE s == [k \in 1..n |-> TextPart(F[k])]
           t == [k \in 1..m |-> TextPart(G[k])]
<1>5. \A k \in 1..m : G[k] \in ShownEvents
  BY <1>1, <1>4
<1>6. SequencesOf(t, m, Nat)
  BY <1>5, TextPartTyped DEF SequencesOf
<1>7. Agree(n, s, t)
  BY <1>4 DEF Agree
<1>8. Len(s) = n /\ Len(t) = m /\ (n = 0 => s = <<>>) /\ m \in 1..m
  BY <1>3
<1>9. t[m] = TextPart(e)
  BY <1>4, <1>8
<1>10. TextOf(F) = FlattenSeq(s) /\ TextOf(G) = FlattenSeq(t)
  BY <1>2, <1>4, TextIsFlat
<1> HIDE DEF s, t
<1>11. HasOneMore(t, s, n)
  BY <1>3, <1>6, <1>7, <1>8, FlatOneMore
<1> QED BY <1>0, <1>3, <1>9, <1>10, <1>11 DEF HasOneMore

LEMMA PiecesOfTyped ==
  ASSUME NEW deltas \in Seq(GoodDeltas), NEW i
  PROVE  PiecesOf(deltas, i) \in Seq(Fragments)
<1>1. PICK n \in Nat : n = Len(deltas)
  OBVIOUS
<1>2. PiecesOf(deltas, i) = PiecesTo(deltas, n, i)
  BY <1>1, PiecesAreFlat
<1>3. CASE n = 0
  <2>1. PiecesTo(deltas, 0, i) = <<>> /\ <<>> \in Seq(Fragments)
    BY PiecesStart
  <2> QED BY <1>2, <1>3, <2>1
<1>4. CASE n # 0
  <2>1. PICK m \in Nat : m + 1 = n
    <3>1. n - 1 \in Nat /\ (n - 1) + 1 = n
      BY <1>4
    <3> QED BY <3>1
  <2>2. m + 1 <= Len(deltas)
    BY <1>1, <2>1
  <2>3. PiecesTo(deltas, m + 1, i) \in Seq(Fragments)
    BY <2>2, PiecesStep
  <2> QED BY <1>2, <2>1, <2>3
<1> QED BY <1>3, <1>4

LEMMA ArgsAreFlat ==
  ASSUME NEW s, NEW i
  PROVE  ArgsOf(s, i) = FlattenSeq([k \in 1..Len(s) |-> PiecesOf(s[k].calls, i)])
BY DEF ArgsOf

\* An event more is its pieces of the arguments more.
LEMMA ArgsGrow ==
  ASSUME NEW F \in Seq(ShownEvents), NEW e \in ShownEvents, NEW i
  PROVE  ArgsOf(Append(F, e), i) = ArgsOf(F, i) \o PiecesOf(e.calls, i)
<1>0. PICK G : G = Append(F, e)
  OBVIOUS
<1>1. G \in Seq(ShownEvents) /\ IsOneMore(G, F, e)
  BY <1>0, AppendIsOneMore
<1>2. PICK n \in Nat : n = Len(F)
  OBVIOUS
<1>3. PICK m \in Nat : m = n + 1
  OBVIOUS
<1>4. Len(G) = m /\ G[m] = e /\ \A k \in 1..n : k \in 1..m /\ F[k] = G[k]
  BY <1>1, <1>2, <1>3 DEF IsOneMore, Agree
<1> DEFINE s == [k \in 1..n |-> PiecesOf(F[k].calls, i)]
           t == [k \in 1..m |-> PiecesOf(G[k].calls, i)]
<1>5. \A k \in 1..m : G[k].calls \in Seq(GoodDeltas)
  <2>1. \A k \in 1..m : G[k] \in ShownEvents
    BY <1>1, <1>4
  <2> QED BY <2>1 DEF ShownEvents
<1>6. SequencesOf(t, m, Fragments)
  BY <1>5, PiecesOfTyped DEF SequencesOf
<1>7. Agree(n, s, t)
  BY <1>4 DEF Agree
<1>8. Len(s) = n /\ Len(t) = m /\ (n = 0 => s = <<>>) /\ m \in 1..m
  BY <1>3
<1>9. t[m] = PiecesOf(e.calls, i)
  BY <1>4, <1>8
<1>10. ArgsOf(F, i) = FlattenSeq(s) /\ ArgsOf(G, i) = FlattenSeq(t)
  BY <1>2, <1>4, ArgsAreFlat
<1> HIDE DEF s, t
<1>11. HasOneMore(t, s, n)
  BY <1>3, <1>6, <1>7, <1>8, FlatOneMore
<1> QED BY <1>0, <1>3, <1>9, <1>10, <1>11 DEF HasOneMore

\* The indexes of the fragments of one event.
IndexesIn(e) == {e.calls[j].index : j \in 1..Len(e.calls)}

LEMMA IndexesGrow ==
  ASSUME NEW F \in Seq(ShownEvents), NEW e \in ShownEvents
  PROVE  IndexesOf(Append(F, e)) = IndexesOf(F) \cup IndexesIn(e)
<1>0. PICK G : G = Append(F, e)
  OBVIOUS
<1>1. IsOneMore(G, F, e)
  BY <1>0, AppendIsOneMore
<1>2. PICK n \in Nat : n = Len(F)
  OBVIOUS
<1>3. PICK m \in Nat : m = n + 1
  OBVIOUS
<1>4. Len(G) = m /\ G[m] = e /\ \A k \in 1..n : k \in 1..m /\ F[k] = G[k]
  BY <1>1, <1>2, <1>3 DEF IsOneMore, Agree
<1>5. \A x : x \in IndexesOf(F) <=> \E k \in 1..n : x \in IndexesIn(F[k])
  BY <1>2 DEF IndexesOf, IndexesIn
<1>6. \A x : x \in IndexesOf(G) <=> \E k \in 1..m : x \in IndexesIn(G[k])
  BY <1>4 DEF IndexesOf, IndexesIn
<1>7. \A k : k \in 1..m <=> k \in 1..n \/ k = m
  BY <1>3
<1>8. \A x : x \in IndexesOf(G) <=> x \in IndexesOf(F) \cup IndexesIn(e)
  <2>1. ASSUME NEW x, x \in IndexesOf(G) PROVE x \in IndexesOf(F) \cup IndexesIn(e)
    BY <1>4, <1>5, <1>6, <1>7, <2>1
  <2>2. ASSUME NEW x, x \in IndexesOf(F) PROVE x \in IndexesOf(G)
    BY <1>4, <1>5, <1>6, <2>2
  <2>3. ASSUME NEW x, x \in IndexesIn(e) PROVE x \in IndexesOf(G)
    BY <1>4, <1>6, <1>7, <2>3
  <2> QED BY <2>1, <2>2, <2>3
<1> QED BY <1>0, <1>8

\* The first k elements.
UpTo(s, k) == [j \in 1..k |-> s[j]]

LEMMA UpToGrows ==
  ASSUME NEW T, NEW s \in Seq(T), NEW k \in 1..Len(s), k # 1
  PROVE  UpTo(s, k - 1) \o <<s[k]>> = UpTo(s, k)
<1>1. PICK m \in Nat : m + 1 = k
  <2>1. k - 1 \in Nat /\ (k - 1) + 1 = k
    OBVIOUS
  <2> QED BY <2>1
<1>2. \A j \in 1..k : s[j] \in T
  BY <1>1
<1> DEFINE a == [j \in 1..m |-> s[j]]
           b == [j \in 1..k |-> s[j]]
<1>3. \A j \in 1..m : j \in 1..k
  BY <1>1
<1>4. a \in Seq(T) /\ b \in Seq(T) /\ Len(a) = m /\ Len(b) = k
  <2>1. ASSUME NEW n \in Nat, \A j \in 1..n : s[j] \in T
        PROVE  [j \in 1..n |-> s[j]] \in Seq(T) /\ Len([j \in 1..n |-> s[j]]) = n
    BY <2>1, IsASeq
  <2> QED BY <1>1, <1>2, <1>3, <2>1
<1>5. (\A j \in 1..m : a[j] = s[j]) /\ \A j \in 1..k : b[j] = s[j]
  OBVIOUS
<1> HIDE DEF a, b
<1>6. PICK c : c = <<s[k]>>
  OBVIOUS
<1>7. c \in Seq(T) /\ Len(c) = 1 /\ c[1] = s[k]
  <2>1. s[k] \in T
    BY <1>1, <1>2
  <2> QED BY <1>6, <2>1
<1>8. /\ a \o c \in Seq(T)
      /\ Len(a \o c) = k
      /\ \A i \in 1..k : (a \o c)[i] = IF i <= m THEN a[i] ELSE c[i - m]
  <2>1. /\ a \o c \in Seq(T)
        /\ Len(a \o c) = Len(a) + Len(c)
        /\ \A i \in 1..(Len(a) + Len(c)) : (a \o c)[i] = IF i <= Len(a) THEN a[i] ELSE c[i - Len(a)]
    BY <1>4, <1>7, ConcatProperties
  <2>2. Len(a) + Len(c) = k
    BY <1>1, <1>4, <1>7
  <2> QED BY <1>4, <2>1, <2>2
<1>9. ASSUME NEW i \in 1..k PROVE (a \o c)[i] = b[i]
  <2>1. CASE i <= m
    <3>1. i \in 1..m
      BY <1>1, <2>1
    <3> QED BY <1>5, <1>8, <2>1, <3>1
  <2>2. CASE ~(i <= m)
    <3>1. i = k /\ i - m = 1
      BY <1>1, <2>2
    <3> QED BY <1>5, <1>7, <1>8, <2>2, <3>1
  <2> QED BY <2>1, <2>2
<1>10. a \o c = b
  BY <1>4, <1>8, <1>9, SeqEqual
<1>11. UpTo(s, k - 1) = a
  <2>1. k - 1 = m
    BY <1>1
  <2> QED BY <2>1 DEF UpTo, a
<1>12. UpTo(s, k) = b
  BY DEF UpTo, b
<1> QED BY <1>6, <1>10, <1>11, <1>12

\* Valid calls are all kept.
LEMMA NoCallLeftOut ==
  ASSUME NEW calls \in Seq(CallType), CallsAreValid(calls), NEW r, NEW text
  PROVE  StreamMessage(r, text, calls).calls = calls
<1>1. PICK n \in Nat : n = Len(calls)
  OBVIOUS
<1> DEFINE kept == [k \in 1..n |-> IF calls[k] = BlankCall THEN <<>> ELSE <<calls[k]>>]
           seqs == [k \in 1..n |-> <<calls[k]>>]
<1>2. \A k \in 1..n : calls[k] # BlankCall
  <2>1. ~ValidCall(BlankCall)
    BY DEF ValidCall, BlankCall
  <2> QED BY <1>1, <2>1 DEF CallsAreValid
<1>3. kept = seqs
  BY <1>2
<1>4. StreamMessage(r, text, calls).calls = FlattenSeq(seqs)
  <2>1. StreamMessage(r, text, calls).calls = FlattenSeq(kept)
    BY <1>1 DEF StreamMessage
  <2> QED BY <1>3, <2>1
<1> HIDE DEF kept
<1>5. CASE n = 0
  <2>1. calls = <<>>
    BY <1>1, <1>5, EmptySeq
  <2>2. FlattenSeq(seqs) = <<>>
    BY <1>5 DEF FlattenSeq
  <2> QED BY <1>4, <2>1, <2>2
<1>6. CASE n # 0
  <2>1. \A k \in 1..n : calls[k] \in CallType
    BY <1>1
  <2>2. (\A k \in 1..n : seqs[k] = <<calls[k]>> /\ seqs[k] \in Seq(CallType)) /\ Len(seqs) = n
    BY <2>1
  <2> HIDE DEF seqs
  <2>3. PICK g : Flattens(g, n, seqs, CallType) /\ FlattenSeq(seqs) = g[n]
    BY <1>6, <2>2, FlatIs
  <2>4. \A i \in 1..n : g[i] = IF i = 1 THEN <<calls[i]>> ELSE g[i - 1] \o <<calls[i]>>
    BY <2>2, <2>3 DEF Flattens
  <2> DEFINE Bad == {k \in 1..n : g[k] # UpTo(calls, k)}
  <2>5. Bad = {}
    <3> SUFFICES ASSUME Bad # {} PROVE FALSE
      OBVIOUS
    <3>1. Bad \in SUBSET Nat
      OBVIOUS
    <3>2. PICK x \in Bad : \A y \in Bad : x <= y
      <4> HIDE DEF Bad
      <4> QED BY <3>1, FirstNumber
    <3>3. x \in 1..n /\ g[x] # UpTo(calls, x)
      OBVIOUS
    <3>4. x # 1
      <4>1. UpTo(calls, 1) = <<calls[1]>>
        BY DEF UpTo
      <4> QED BY <2>4, <3>3, <4>1
    <3>5. x - 1 \in 1..n /\ ~(x <= x - 1)
      BY <3>3, <3>4
    <3>6. g[x - 1] = UpTo(calls, x - 1)
      BY <3>2, <3>5
    <3>7. UpTo(calls, x - 1) \o <<calls[x]>> = UpTo(calls, x)
      BY <1>1, <3>3, <3>4, UpToGrows
    <3> QED BY <2>4, <3>3, <3>4, <3>6, <3>7
  <2>6. n \in 1..n
    BY <1>6
  <2>7. g[n] = UpTo(calls, n)
    BY <2>5, <2>6
  <2>8. UpTo(calls, n) = calls
    BY <1>1 DEF UpTo
  <2> QED BY <1>4, <2>3, <2>7, <2>8
<1> QED BY <1>5, <1>6

-----------------------------------------------------------------------------
(* What the events tell *)

\* The events F tell the text, and of each call the index and the arguments.
Tells(F, text, calls) ==
  /\ TextOf(F) = text
  /\ \A i \in Nat : ArgsOf(F, i) = ArgsAt(calls, i)
  /\ \A i \in IndexesOf(F) : i \in Nat /\ i < Len(calls)
  /\ \A k \in 1..Len(calls) : calls[k] # BlankCall => k - 1 \in IndexesOf(F)

\* Nothing was told at the start.
LEMMA NothingTold == Tells(<<>>, <<>>, <<>>)
<1>1. TextOf(<<>>) = <<>>
  BY DEF TextOf, FlattenSeq
<1>2. \A i : ArgsOf(<<>>, i) = <<>>
  BY DEF ArgsOf, FlattenSeq
<1>3. \A i : ArgsAt(<<>>, i) = <<>>
  BY DEF ArgsAt
<1>4. IndexesOf(<<>>) = {}
  BY DEF IndexesOf
<1>5. 1..Len(<<>>) = {}
  OBVIOUS
<1> QED BY <1>1, <1>2, <1>3, <1>4, <1>5 DEF Tells

\* A fragment is merged where the event that shows it says.
LEMMA ToldMore ==
  ASSUME NEW F \in Seq(ShownEvents), NEW e \in ShownEvents,
         NEW text, NEW calls \in Seq(CallType), Tells(F, text, calls)
  PROVE  Tells(Append(F, e), text \o TextPart(e), Merge(calls, e.calls))
<1>0. PICK G : G = Append(F, e)
  OBVIOUS
<1>1. PICK deltas \in Seq(GoodDeltas) : deltas = e.calls
  BY DEF ShownEvents
<1>2. PICK n \in Nat : n = Len(deltas)
  OBVIOUS
<1>3. PICK w : w = Merge(calls, deltas)
  OBVIOUS
<1>4. Merged(w, calls, deltas, n)
  BY <1>2, <1>3, MergeMerges
<1>5. w \in Seq(CallType) /\ Len(calls) <= Len(w)
  BY <1>4 DEF Merged
<1>6. Len(w) \in Nat /\ Len(calls) \in Nat
  BY <1>5
<1>7. TextOf(G) = text \o TextPart(e)
  BY <1>0, TextGrows DEF Tells
<1>8. ASSUME NEW i \in Nat PROVE ArgsOf(G, i) = ArgsAt(w, i)
  <2>1. ArgsOf(G, i) = ArgsOf(F, i) \o PiecesOf(deltas, i)
    BY <1>0, <1>1, ArgsGrow
  <2>2. PiecesOf(deltas, i) = PiecesTo(deltas, n, i)
    BY <1>2, PiecesAreFlat
  <2>3. ArgsOf(F, i) = ArgsAt(calls, i)
    BY DEF Tells
  <2>4. ArgsAt(w, i) = ArgsAt(calls, i) \o PiecesTo(deltas, n, i)
    BY <1>4 DEF Merged
  <2> QED BY <2>1, <2>2, <2>3, <2>4
<1>9. \A x : x \in IndexesOf(G) <=> x \in IndexesOf(F) \/ \E j \in 1..n : x = deltas[j].index
  <2>1. IndexesOf(G) = IndexesOf(F) \cup IndexesIn(e)
    BY <1>0, IndexesGrow
  <2> QED BY <1>1, <1>2, <2>1 DEF IndexesIn
<1>10. ASSUME NEW i \in IndexesOf(G) PROVE i \in Nat /\ i < Len(w)
  <2>1. CASE i \in IndexesOf(F)
    <3>1. i \in Nat /\ i < Len(calls)
      BY <2>1 DEF Tells
    <3> QED BY <1>5, <1>6, <3>1
  <2>2. ASSUME NEW j \in 1..n, i = deltas[j].index PROVE i \in Nat /\ i < Len(w)
    <3>1. deltas[j] \in GoodDeltas
      BY <1>2
    <3>2. deltas[j].index \in Nat
      BY <3>1 DEF GoodDeltas, CallDeltas
    <3>3. deltas[j].index < Len(w)
      BY <1>4 DEF Merged
    <3> QED BY <2>2, <3>2, <3>3
  <2> QED BY <1>9, <2>1, <2>2
<1>11. ASSUME NEW k \in 1..Len(w), w[k] # BlankCall PROVE k - 1 \in IndexesOf(G)
  <2>1. (k \in 1..Len(calls) /\ calls[k] # BlankCall) \/ \E j \in 1..n : deltas[j].index = k - 1
    BY <1>4, <1>11 DEF Merged
  <2>2. CASE k \in 1..Len(calls) /\ calls[k] # BlankCall
    <3>1. k - 1 \in IndexesOf(F)
      BY <2>2 DEF Tells
    <3> QED BY <1>9, <3>1
  <2>3. CASE \E j \in 1..n : deltas[j].index = k - 1
    BY <1>9, <2>3
  <2> QED BY <2>1, <2>2, <2>3
<1>12. Tells(G, text \o TextPart(e), w)
  BY <1>7, <1>8, <1>10, <1>11 DEF Tells
<1> QED BY <1>0, <1>1, <1>3, <1>12

\* Without fragments the calls stay as they are.
LEMMA MergeNothing ==
  ASSUME NEW calls
  PROVE  Merge(calls, <<>>) = calls
<1>1. PICK f : Merges(f, calls, <<>>, 0) /\ Merge(calls, <<>>) = f[0]
  <2>1. Len(<<>>) = 0
    OBVIOUS
  <2> QED BY <2>1, MergeIs
<1> QED BY <1>1 DEF Merges

-----------------------------------------------------------------------------
(* ProviderStream: the inductive invariant *)

\* The payloads say that the answer is complete.
WireEnds(read) == read[Len(read)].finish \/ read[Len(read)].kind = "done"

\* m is the answer that was complete, and e the event that ends a stream.
DoneWas(read, r, text, calls, m) ==
  WireEnds(read) /\ CallsAreValid(calls) /\ m = StreamMessage(r, text, calls)
Terminal(read, r, text, calls, e) ==
  e.type \in {"error", "done"} /\ (e.type = "done" => DoneWas(read, r, text, calls, e.message))

\* The delta events that the reader took or will take, without and with the
\* one in the goroutine's hand.
Taken ==
  IF events # <<>> /\ events[1].type = "delta" THEN Append(received, events[1]) ELSE received
Shown == IF pc = "sendDelta" THEN Append(Taken, pending) ELSE Taken

StreamTypes ==
  /\ ctx \in {"live", "done"}
  /\ wire \in Seq(Payloads) /\ Len(wire) <= MaxPayloads
  /\ pc \in {"request", "check", "read", "sendDelta", "sendLast", "closed"}
  /\ role \in Roles
  /\ content \in Seq(1..MaxPayloads)
  /\ toolCalls \in Seq(CallType)
  /\ ending \in BOOLEAN
  /\ pending.type \in {"delta", "error", "done"}
  /\ received \in Seq(ShownEvents)
  /\ outcome \in {"none", "answer", "error", "closed", "left"}

HandInv ==
  /\ pc = "sendDelta" => pending \in ShownEvents /\ (ending => WireEnds(wire))
  /\ pc = "sendLast" => Terminal(wire, role, content, toolCalls, pending)

ChannelInv ==
  \/ events = <<>>
  \/ /\ events = <<events[1]>>
     /\ \/ events[1] \in ShownEvents
        \/ pc = "closed" /\ Terminal(wire, role, content, toolCalls, events[1])

OutcomeInv ==
  outcome = "answer" =>
    pc = "closed" /\ events = <<>> /\ DoneWas(wire, role, content, toolCalls, answer)

TellsInv == Tells(Shown, content, toolCalls)

StreamInv == StreamTypes /\ HandInv /\ ChannelInv /\ OutcomeInv /\ TellsInv

-----------------------------------------------------------------------------
LEMMA StreamBegins == StreamInit => StreamInv
<1> SUFFICES ASSUME StreamInit PROVE StreamInv
  OBVIOUS
<1> USE DEF StreamInit
<1>1. StreamTypes
  <2>1. Len(<<>>) <= MaxPayloads
    BY PayloadAssumption
  <2>2. <<>> \in Seq(Payloads) /\ <<>> \in Seq(1..MaxPayloads) /\ <<>> \in Seq(CallType) /\ <<>> \in Seq(ShownEvents)
    OBVIOUS
  <2>3. Failure.type = "error"
    BY DEF Failure, Event
  <2> QED BY <2>1, <2>2, <2>3 DEF StreamTypes, Roles
<1>2. Shown = <<>>
  BY DEF Shown, Taken
<1> QED BY <1>1, <1>2, NothingTold DEF StreamInv, HandInv, ChannelInv, OutcomeInv, TellsInv

LEMMA TakenTyped ==
  ASSUME StreamTypes, ChannelInv
  PROVE  Taken \in Seq(ShownEvents)
<1>1. CASE events # <<>> /\ events[1].type = "delta"
  <2>1. events[1] \in ShownEvents
    BY <1>1 DEF ChannelInv, Terminal
  <2> QED BY <1>1, <2>1, AppendProperties DEF Taken, StreamTypes
<1>2. CASE ~(events # <<>> /\ events[1].type = "delta")
  BY <1>2 DEF Taken, StreamTypes
<1> QED BY <1>1, <1>2

\* The last event is true when the payloads said so.
LEMMA FinishedIsTrue ==
  ASSUME NEW read, NEW r, NEW text, NEW calls, WireEnds(read)
  PROVE  Terminal(read, r, text, calls, Finished(r, text, calls))
BY DEF Terminal, DoneWas, Finished, Done, Failure, Event

LEMMA FailureIsTrue ==
  ASSUME NEW read, NEW r, NEW text, NEW calls
  PROVE  Terminal(read, r, text, calls, Failure)
BY DEF Terminal, Failure, Event

\* A stream that ends with an answer was told so.
LEMMA StreamInvImplies ==
  ASSUME StreamInv
  PROVE  AnswerIsWhatWasStreamed
<1> USE DEF StreamInv
<1>1. StreamTypeOK
  <2>1. \A k \in 1..Len(toolCalls) :
          toolCalls[k].args \in Seq(Pieces \ {"none"}) /\ toolCalls[k].id \in BOOLEAN
    <3>1. \A k \in 1..Len(toolCalls) : toolCalls[k] \in CallType
      BY DEF StreamTypes
    <3> QED BY <3>1 DEF CallType, Fragments
  <2>2. \A k \in 1..Len(received) : received[k].type = "delta"
    <3>1. \A k \in 1..Len(received) : received[k] \in ShownEvents
      BY DEF StreamTypes
    <3> QED BY <3>1 DEF ShownEvents
  <2>3. Len(events) <= 1 /\ \A k \in 1..Len(events) : k = 1 /\ events # <<>>
    <3>1. CASE events = <<>>
      BY <3>1
    <3>2. CASE events = <<events[1]>>
      <4>1. PICK e : events = <<e>>
        BY <3>2
      <4> QED BY <4>1
    <3> QED BY <3>1, <3>2 DEF ChannelInv
  <2>4. events # <<>> => events[1].type \in {"delta", "error", "done"}
    BY DEF ChannelInv, Terminal, ShownEvents
  <2>5. {pending.type} \cup {events[k].type : k \in 1..Len(events)} \subseteq {"delta", "error", "done"}
    BY <2>3, <2>4 DEF StreamTypes
  <2> QED BY <2>1, <2>2, <2>3, <2>5 DEF StreamTypeOK, StreamTypes
<1>2. ASSUME outcome = "answer"
      PROVE  /\ wire[Len(wire)].finish \/ wire[Len(wire)].kind = "done"
             /\ answer.text = TextOf(received)
             /\ IndexesOf(received) = {k - 1 : k \in 1..Len(answer.calls)}
             /\ \A k \in 1..Len(answer.calls) :
                  ValidCall(answer.calls[k]) /\ answer.calls[k].args = ArgsOf(received, k - 1)
  <2>1. pc = "closed" /\ events = <<>> /\ DoneWas(wire, role, content, toolCalls, answer)
    BY <1>2 DEF OutcomeInv
  <2>2. Tells(received, content, toolCalls)
    BY <2>1 DEF TellsInv, Shown, Taken
  <2>3. CallsAreValid(toolCalls) /\ answer = StreamMessage(role, content, toolCalls) /\ WireEnds(wire)
    BY <2>1 DEF DoneWas
  <2>4. answer.calls = toolCalls /\ toolCalls \in Seq(CallType)
    BY <2>3, NoCallLeftOut DEF StreamTypes
  <2>5. answer.text = content
    BY <2>3 DEF StreamMessage
  <2>6. \A k \in 1..Len(toolCalls) : ValidCall(toolCalls[k]) /\ toolCalls[k] # BlankCall
    <3>1. ~ValidCall(BlankCall)
      BY DEF ValidCall, BlankCall
    <3> QED BY <2>3, <3>1 DEF CallsAreValid
  <2>7. Len(toolCalls) \in Nat
    BY <2>4
  <2>8. IndexesOf(received) = {k - 1 : k \in 1..Len(toolCalls)}
    <3>1. ASSUME NEW i \in IndexesOf(received) PROVE i \in {k - 1 : k \in 1..Len(toolCalls)}
      <4>1. i \in Nat /\ i < Len(toolCalls)
        BY <2>2 DEF Tells
      <4>2. i + 1 \in 1..Len(toolCalls) /\ (i + 1) - 1 = i
        BY <2>7, <4>1
      <4> QED BY <4>2
    <3>2. ASSUME NEW k \in 1..Len(toolCalls) PROVE k - 1 \in IndexesOf(received)
      BY <2>2, <2>6 DEF Tells
    <3> QED BY <3>1, <3>2
  <2>9. ASSUME NEW k \in 1..Len(toolCalls) PROVE toolCalls[k].args = ArgsOf(received, k - 1)
    <3>1. k - 1 \in Nat /\ (k - 1) + 1 = k
      BY <2>7
    <3>2. ArgsOf(received, k - 1) = ArgsAt(toolCalls, k - 1)
      BY <2>2, <3>1 DEF Tells
    <3> QED BY <3>1, <3>2 DEF ArgsAt
  <2>10. answer.text = TextOf(received)
    BY <2>2, <2>5 DEF Tells
  <2> QED BY <2>3, <2>4, <2>6, <2>8, <2>9, <2>10 DEF WireEnds
<1> QED BY <1>1, <1>2 DEF AnswerIsWhatWasStreamed

-----------------------------------------------------------------------------
(* Its steps *)

LEMMA StreamRequestFails ==
  ASSUME StreamInv, RequestFails
  PROVE  StreamInv'
<1> USE DEF StreamInv, RequestFails, local
<1>1. StreamTypes' /\ HandInv'
  BY DEF StreamTypes, HandInv
<1>2. ChannelInv'
  BY DEF ChannelInv
<1>3. OutcomeInv'
  BY DEF OutcomeInv
<1>4. Shown' = Shown
  BY DEF Shown, Taken
<1> QED BY <1>1, <1>2, <1>3, <1>4 DEF TellsInv

LEMMA StreamResponds ==
  ASSUME StreamInv, Respond
  PROVE  StreamInv'
<1> USE DEF StreamInv, Respond, local, reader
<1>1. StreamTypes' /\ HandInv'
  BY DEF StreamTypes, HandInv
<1>2. ChannelInv'
  BY DEF ChannelInv
<1>3. OutcomeInv'
  BY DEF OutcomeInv
<1>4. Shown' = Shown
  BY DEF Shown, Taken
<1> QED BY <1>1, <1>2, <1>3, <1>4 DEF TellsInv

\* The goroutine goes on to send the last event, or to nothing.
GoesOn ==
  /\ pc \in {"check", "read"}
  /\ UNCHANGED <<ctx, local, events, reader>>
  /\ wire' \in Seq(Payloads) /\ Len(wire') <= MaxPayloads
  /\ \/ /\ pc' \in {"check", "read"}
        /\ UNCHANGED pending
     \/ /\ pc' = "sendLast"
        /\ Terminal(wire', role, content, toolCalls, pending')

LEMMA GoingOn ==
  ASSUME StreamInv, GoesOn
  PROVE  StreamInv'
<1> USE DEF StreamInv, GoesOn, local, reader
<1>1. StreamTypes'
  BY DEF StreamTypes, Terminal
<1>2. HandInv'
  BY DEF HandInv
<1>3. ChannelInv'
  BY DEF ChannelInv
<1>4. OutcomeInv'
  BY DEF OutcomeInv
<1>5. Shown' = Shown
  BY DEF Shown, Taken
<1> QED BY <1>1, <1>2, <1>3, <1>4, <1>5 DEF TellsInv

\* What is sent next when the stream has ended.
LEMMA FailureNext ==
  ASSUME NEW read, SendNext(Failure)
  PROVE  pc' = "sendLast" /\ Terminal(read, role, content, toolCalls, pending')
<1>1. pending' = Failure /\ Failure.type = "error"
  BY DEF SendNext, Failure, Event
<1> QED BY <1>1, FailureIsTrue DEF SendNext

LEMMA FinishedNext ==
  ASSUME NEW read, NEW r, NEW text, NEW calls, WireEnds(read), SendNext(Finished(r, text, calls))
  PROVE  pc' = "sendLast" /\ Terminal(read, r, text, calls, pending')
<1>1. Finished(r, text, calls).type # "delta"
  BY DEF Finished, Done, Failure, Event
<1>2. Terminal(read, r, text, calls, Finished(r, text, calls))
  BY FinishedIsTrue
<1> QED BY <1>1, <1>2 DEF SendNext

\* A payload more has been read.
LEMMA TakeFacts ==
  ASSUME StreamTypes, NEW p \in Payloads, Take(p)
  PROVE  /\ pc = "read"
         /\ wire' \in Seq(Payloads) /\ Len(wire') \in 1..MaxPayloads /\ Len(wire') <= MaxPayloads
         /\ wire'[Len(wire')] = p
<1>1. wire \in Seq(Payloads) /\ wire' = Append(wire, p) /\ Len(wire) < MaxPayloads /\ pc = "read"
  BY DEF StreamTypes, Take
<1>2. wire' \in Seq(Payloads) /\ Len(wire') = Len(wire) + 1 /\ wire'[Len(wire) + 1] = p
  BY <1>1, AppendProperties
<1>3. Len(wire) \in Nat /\ MaxPayloads \in Nat
  BY <1>1, PayloadAssumption
<1> QED BY <1>1, <1>2, <1>3

LEMMA StreamChecksContext ==
  ASSUME StreamInv, CheckContext
  PROVE  StreamInv'
<1>1. GoesOn
  <2>1. CASE ctx = "done"
    <3>1. SendNext(Failure)
      BY <2>1 DEF CheckContext
    <3>2. pc' = "sendLast" /\ Terminal(wire', role, content, toolCalls, pending')
      BY <3>1, FailureNext
    <3> QED BY <3>2 DEF CheckContext, GoesOn, StreamInv, StreamTypes
  <2>2. CASE ctx # "done"
    BY <2>2 DEF CheckContext, GoesOn, StreamInv, StreamTypes
  <2> QED BY <2>1, <2>2
<1> QED BY <1>1, GoingOn

LEMMA StreamReadFails ==
  ASSUME StreamInv, ReadFails
  PROVE  StreamInv'
<1>1. pc' = "sendLast" /\ Terminal(wire', role, content, toolCalls, pending')
  BY FailureNext DEF ReadFails
<1>2. GoesOn
  BY <1>1 DEF ReadFails, GoesOn, StreamInv, StreamTypes
<1> QED BY <1>2, GoingOn

LEMMA StreamReadsNothing ==
  ASSUME StreamInv, NEW p \in Payloads, ReadNothing(p)
  PROVE  StreamInv'
<1>1. pc = "read" /\ wire' \in Seq(Payloads) /\ Len(wire') <= MaxPayloads
  BY TakeFacts DEF ReadNothing, StreamInv
<1>2. GoesOn
  BY <1>1 DEF ReadNothing, GoesOn
<1> QED BY <1>2, GoingOn

LEMMA StreamReadsMarker ==
  ASSUME StreamInv, NEW p \in Payloads, ReadMarker(p)
  PROVE  StreamInv'
<1>1. /\ pc = "read" /\ wire' \in Seq(Payloads) /\ Len(wire') <= MaxPayloads
      /\ wire'[Len(wire')] = p
  BY TakeFacts DEF ReadMarker, StreamInv
<1>2. WireEnds(wire')
  BY <1>1 DEF ReadMarker, WireEnds
<1>3. pc' = "sendLast" /\ Terminal(wire', role, content, toolCalls, pending')
  BY <1>2, FinishedNext DEF ReadMarker
<1>4. GoesOn
  BY <1>1, <1>3 DEF ReadMarker, GoesOn
<1> QED BY <1>4, GoingOn

LEMMA StreamReadsRefused ==
  ASSUME StreamInv, NEW p \in Payloads, ReadRefused(p)
  PROVE  StreamInv'
<1>1. pc = "read" /\ wire' \in Seq(Payloads) /\ Len(wire') <= MaxPayloads
  BY TakeFacts DEF ReadRefused, StreamInv
<1>2. pc' = "sendLast" /\ Terminal(wire', role, content, toolCalls, pending')
  BY FailureNext DEF ReadRefused
<1>3. GoesOn
  BY <1>1, <1>2 DEF ReadRefused, GoesOn
<1> QED BY <1>3, GoingOn

\* The event that shows a chunk.
LEMMA ChunkShown ==
  ASSUME NEW p \in Payloads, Mergeable(p.calls), NEW x \in Nat
  PROVE  Delta(x, p.reasoning, p.calls) \in ShownEvents /\ p.calls \in Seq(GoodDeltas)
<1>1. p.calls \in Seq(CallDeltas) /\ p.reasoning \in BOOLEAN
  BY PayloadAssumption
<1>2. PICK n \in Nat : n = Len(p.calls)
  BY <1>1
<1>3. \A k \in 1..n : p.calls[k] \in GoodDeltas
  BY <1>1, <1>2 DEF Mergeable, GoodDeltas
<1>4. p.calls = [k \in 1..n |-> p.calls[k]]
  BY <1>1, <1>2
<1>5. p.calls \in Seq(GoodDeltas)
  <2>1. [k \in 1..n |-> p.calls[k]] \in Seq(GoodDeltas)
    BY <1>3, IsASeq
  <2> QED BY <1>4, <2>1
<1> QED BY <1>1, <1>5 DEF Delta, Event, ShownEvents

LEMMA StreamReadsChunk ==
  ASSUME StreamInv, NEW p \in Payloads, ReadChunk(p)
  PROVE  StreamInv'
<1>1. PICK n \in 1..MaxPayloads : n = Len(wire')
  BY TakeFacts DEF ReadChunk, StreamInv
<1>2. /\ pc = "read" /\ wire' \in Seq(Payloads) /\ Len(wire') <= MaxPayloads
      /\ wire'[Len(wire')] = p
  BY TakeFacts DEF ReadChunk, StreamInv
<1>3. PICK x \in Nat : x = IF p.text THEN n ELSE 0
  <2>1. n \in Nat
    BY PayloadAssumption
  <2> QED BY <2>1
<1>4. PICK e : e = Delta(x, p.reasoning, p.calls)
  OBVIOUS
<1>5. e \in ShownEvents /\ p.calls \in Seq(GoodDeltas)
  BY <1>4, ChunkShown DEF ReadChunk
<1>6. e.text = x /\ e.calls = p.calls /\ e.type = "delta" /\ e.reasoning = p.reasoning
  BY <1>4 DEF Delta, Event
<1>7. p.finish \in BOOLEAN /\ p.text \in BOOLEAN /\ p.role \in Roles \cup {"none"}
  BY PayloadAssumption
<1>8. p.finish => WireEnds(wire')
  BY <1>2 DEF WireEnds
<1>9. /\ role' = IF p.role = "none" THEN role ELSE p.role
      /\ content' = IF p.text THEN Append(content, n) ELSE content
      /\ toolCalls' = Merge(toolCalls, p.calls)
      /\ ending' = p.finish
      /\ UNCHANGED <<ctx, events, received, outcome, answer>>
  BY <1>1 DEF ReadChunk, reader
<1>10. IF ~IsEmpty(e)
         THEN SendNext(e)
         ELSE IF p.finish
         THEN SendNext(Finished(role', content', toolCalls'))
         ELSE pc' = "check" /\ UNCHANGED pending
  BY <1>1, <1>3, <1>4 DEF ReadChunk
<1>11. content \in Seq(1..MaxPayloads) /\ toolCalls \in Seq(CallType)
  BY DEF StreamInv, StreamTypes
<1>12. toolCalls' \in Seq(CallType)
  BY <1>5, <1>9, <1>11, MergeMerges DEF Merged
<1>13. content' \in Seq(1..MaxPayloads) /\ content' = content \o TextPart(e)
  <2>1. CASE p.text
    <3>1. content' = Append(content, n) /\ x = n /\ n # 0
      BY <1>3, <1>9, <2>1
    <3>2. TextPart(e) = <<n>>
      BY <1>6, <3>1 DEF TextPart
    <3> QED BY <1>11, <3>1, <3>2, AppendProperties, AppendIsConcat
  <2>2. CASE ~p.text
    <3>1. content' = content /\ x = 0
      BY <1>3, <1>9, <2>2
    <3>2. TextPart(e) = <<>>
      BY <1>6, <3>1 DEF TextPart
    <3> QED BY <1>11, <3>1, <3>2, ConcatEmptySeq
  <2> QED BY <1>7, <2>1, <2>2
<1>14. Shown = Taken /\ Taken \in Seq(ShownEvents) /\ Taken' = Taken
  BY <1>2, <1>9, TakenTyped DEF StreamInv, Shown, Taken
<1>15. role' \in Roles
  BY <1>7, <1>9 DEF StreamInv, StreamTypes
<1>16. OutcomeInv' /\ ChannelInv'
  <2>1. outcome' # "answer"
    BY <1>2, <1>9 DEF StreamInv, OutcomeInv
  <2>2. events' = <<>> \/ (events' = <<events'[1]>> /\ events'[1] \in ShownEvents)
    BY <1>2, <1>9 DEF StreamInv, ChannelInv
  <2> QED BY <2>1, <2>2 DEF OutcomeInv, ChannelInv
<1>17. (pc' \in {"check", "sendDelta", "sendLast"} /\ pending'.type \in {"delta", "error", "done"})
         => StreamTypes'
  BY <1>2, <1>7, <1>9, <1>12, <1>13, <1>15 DEF StreamInv, StreamTypes
<1>18. CASE ~IsEmpty(e)
  <2>1. pending' = e /\ pc' = "sendDelta"
    BY <1>6, <1>10, <1>18 DEF SendNext
  <2>2. StreamTypes'
    BY <1>6, <1>17, <2>1
  <2>3. HandInv'
    BY <1>5, <1>8, <1>9, <2>1 DEF HandInv
  <2>4. Shown' = Append(Taken, e)
    BY <1>14, <2>1 DEF Shown
  <2>5. Tells(Append(Taken, e), content', toolCalls')
    <3>1. Tells(Taken, content, toolCalls)
      BY <1>14 DEF StreamInv, TellsInv
    <3>2. Tells(Append(Taken, e), content \o TextPart(e), Merge(toolCalls, e.calls))
      BY <1>5, <1>11, <1>14, <3>1, ToldMore
    <3> QED BY <1>6, <1>9, <1>13, <3>2
  <2> QED BY <1>16, <2>2, <2>3, <2>4, <2>5 DEF StreamInv, TellsInv
<1>19. CASE IsEmpty(e)
  <2>1. x = 0 /\ p.calls = <<>>
    BY <1>6, <1>19 DEF IsEmpty
  <2>2. content' = content /\ toolCalls' = toolCalls
    <3>1. ~p.text
      BY <1>3, <2>1
    <3> QED BY <1>9, <2>1, <3>1, MergeNothing
  <2>3. \/ pc' = "check" /\ pending' = pending
        \/ pc' = "sendLast" /\ Terminal(wire', role', content', toolCalls', pending')
    <3>1. CASE p.finish
      <4>1. WireEnds(wire') /\ SendNext(Finished(role', content', toolCalls'))
        BY <1>8, <1>10, <1>19, <3>1
      <4> QED BY <4>1, FinishedNext
    <3>2. CASE ~p.finish
      BY <1>10, <1>19, <3>2
    <3> QED BY <3>1, <3>2
  <2>4. StreamTypes'
    BY <1>17, <2>3 DEF Terminal, StreamInv, StreamTypes
  <2>5. HandInv'
    BY <2>3 DEF HandInv
  <2>6. Shown' = Taken
    BY <1>14, <2>3 DEF Shown
  <2> QED BY <1>14, <1>16, <2>2, <2>4, <2>5, <2>6 DEF StreamInv, TellsInv
<1> QED BY <1>18, <1>19

\* The channel held nothing, and now holds one event.
LEMMA OneInChannel ==
  ASSUME NEW e, events = <<>>, events' = Append(events, e)
  PROVE  events' = <<e>> /\ events'[1] = e /\ events' # <<>>
<1>1. events' = <<e>>
  OBVIOUS
<1> QED BY <1>1

LEMMA StreamSendsDelta ==
  ASSUME StreamInv, SendDelta
  PROVE  StreamInv'
<1>1. /\ pc = "sendDelta" /\ events = <<>> /\ events' = Append(events, pending)
      /\ UNCHANGED <<ctx, wire, role, content, toolCalls, ending, received, outcome, answer>>
  BY DEF SendDelta, HasRoom, local, reader
<1>2. pending \in ShownEvents /\ (ending => WireEnds(wire))
  BY <1>1 DEF StreamInv, HandInv
<1>3. pending.type = "delta"
  BY <1>2 DEF ShownEvents
<1>4. events' = <<pending>> /\ events'[1] = pending /\ events' # <<>>
  BY <1>1, OneInChannel
<1>5. \/ pc' = "check" /\ pending' = pending
      \/ pc' = "sendLast" /\ Terminal(wire', role', content', toolCalls', pending')
  <2>1. CASE ending
    <3>1. WireEnds(wire) /\ SendNext(Finished(role, content, toolCalls))
      BY <1>2, <2>1 DEF SendDelta
    <3>2. pc' = "sendLast" /\ Terminal(wire, role, content, toolCalls, pending')
      BY <3>1, FinishedNext
    <3> QED BY <1>1, <3>2
  <2>2. CASE ~ending
    BY <2>2 DEF SendDelta
  <2> QED BY <2>1, <2>2
<1>6. StreamTypes'
  BY <1>1, <1>5 DEF StreamInv, StreamTypes, Terminal
<1>7. HandInv'
  BY <1>5 DEF HandInv
<1>8. ChannelInv'
  BY <1>2, <1>4 DEF ChannelInv
<1>9. OutcomeInv'
  BY <1>1 DEF StreamInv, OutcomeInv
<1>10. Shown' = Shown
  <2>1. Taken = received /\ Shown = Append(received, pending)
    BY <1>1 DEF Shown, Taken
  <2>2. Taken' = Append(received, pending)
    BY <1>1, <1>3, <1>4 DEF Taken
  <2> QED BY <1>5, <2>1, <2>2 DEF Shown
<1> QED BY <1>1, <1>6, <1>7, <1>8, <1>9, <1>10 DEF StreamInv, TellsInv

LEMMA StreamSendsLast ==
  ASSUME StreamInv, SendLast
  PROVE  StreamInv'
<1>1. /\ pc = "sendLast" /\ pc' = "closed" /\ events = <<>> /\ events' = Append(events, pending)
      /\ UNCHANGED <<ctx, wire, role, content, toolCalls, ending, pending, received, outcome, answer>>
  BY DEF SendLast, HasRoom, local, reader
<1>2. Terminal(wire, role, content, toolCalls, pending)
  BY <1>1 DEF StreamInv, HandInv
<1>3. events' = <<pending>> /\ events'[1] = pending /\ events' # <<>>
  BY <1>1, OneInChannel
<1>4. StreamTypes'
  BY <1>1 DEF StreamInv, StreamTypes
<1>5. HandInv'
  BY <1>1 DEF HandInv
<1>6. ChannelInv'
  BY <1>1, <1>2, <1>3 DEF ChannelInv
<1>7. OutcomeInv'
  BY <1>1 DEF StreamInv, OutcomeInv
<1>8. Shown' = Shown
  <2>1. pending.type # "delta"
    BY <1>2 DEF Terminal
  <2> QED BY <1>1, <1>3, <2>1 DEF Shown, Taken
<1> QED BY <1>1, <1>4, <1>5, <1>6, <1>7, <1>8 DEF StreamInv, TellsInv

LEMMA StreamReceives ==
  ASSUME StreamInv, Receive
  PROVE  StreamInv'
<1>1. outcome = "none" /\ UNCHANGED <<ctx, wire, pc, role, content, toolCalls, ending, pending>>
  BY DEF Receive, local
<1>2. HandInv'
  BY <1>1 DEF StreamInv, HandInv
<1>3. CASE events # <<>>
  <2>1. PICK e : events = <<e>> /\ e = events[1] /\ Head(events) = e
    BY <1>3 DEF StreamInv, ChannelInv
  <2>2. events' = <<>>
    BY <1>3, <2>1 DEF Receive
  <2>3. e \in ShownEvents \/ (pc = "closed" /\ Terminal(wire, role, content, toolCalls, e))
    BY <1>3, <2>1 DEF StreamInv, ChannelInv
  <2>4. ChannelInv'
    BY <2>2 DEF ChannelInv
  <2>5. CASE e.type = "delta"
    <3>1. e \in ShownEvents
      BY <2>3, <2>5 DEF Terminal
    <3>2. received' = Append(received, e) /\ UNCHANGED <<outcome, answer>>
      BY <1>3, <2>1, <2>5 DEF Receive
    <3>3. received' \in Seq(ShownEvents)
      BY <3>1, <3>2, AppendProperties DEF StreamInv, StreamTypes
    <3>4. StreamTypes'
      BY <1>1, <3>2, <3>3 DEF StreamInv, StreamTypes
    <3>5. OutcomeInv'
      BY <1>1, <3>2 DEF OutcomeInv
    <3>6. Taken' = Taken
      BY <1>3, <2>1, <2>2, <2>5, <3>2 DEF Taken
    <3> QED BY <1>1, <1>2, <2>4, <3>4, <3>5, <3>6 DEF StreamInv, TellsInv, Shown
  <2>6. CASE e.type # "delta"
    <3>1. pc = "closed" /\ Terminal(wire, role, content, toolCalls, e)
      BY <2>3, <2>6 DEF ShownEvents
    <3>2. received' = received
      BY <1>3, <2>1, <2>6 DEF Receive
    <3>3. Shown' = Shown
      BY <1>1, <2>1, <2>2, <2>6, <3>1, <3>2 DEF Shown, Taken
    <3>4. CASE e.type = "error"
      <4>1. outcome' = "error"
        BY <1>3, <2>1, <3>4 DEF Receive
      <4>2. StreamTypes'
        BY <1>1, <3>2, <4>1 DEF StreamInv, StreamTypes
      <4> QED BY <1>1, <1>2, <2>4, <3>3, <4>1, <4>2 DEF StreamInv, TellsInv, OutcomeInv
    <3>5. CASE e.type = "done"
      <4>1. outcome' \in {"answer", "error"} /\ answer' = e.message
        BY <1>3, <2>1, <3>5 DEF Receive
      <4>2. StreamTypes'
        BY <1>1, <3>2, <4>1 DEF StreamInv, StreamTypes
      <4>3. OutcomeInv'
        BY <1>1, <2>2, <3>1, <3>5, <4>1 DEF OutcomeInv, Terminal
      <4> QED BY <1>1, <1>2, <2>4, <3>3, <4>2, <4>3 DEF StreamInv, TellsInv
    <3> QED BY <3>1, <3>4, <3>5 DEF Terminal
  <2> QED BY <2>5, <2>6
<1>4. CASE events = <<>>
  <2>1. outcome' = "closed" /\ UNCHANGED <<events, received, answer>>
    BY <1>4 DEF Receive
  <2>2. StreamTypes'
    BY <1>1, <2>1 DEF StreamInv, StreamTypes
  <2>3. ChannelInv' /\ OutcomeInv'
    BY <1>4, <2>1 DEF ChannelInv, OutcomeInv
  <2>4. Shown' = Shown
    BY <1>1, <2>1 DEF Shown, Taken
  <2> QED BY <1>1, <1>2, <2>2, <2>3, <2>4 DEF StreamInv, TellsInv
<1> QED BY <1>3, <1>4

\* The context ends, the reader leaves, or nothing happens.
StandsStill ==
  /\ ctx' \in {"live", "done"}
  /\ outcome' \in {outcome, "left"}
  /\ UNCHANGED <<wire, pc, role, content, toolCalls, ending, pending, events, received, answer>>

LEMMA StreamStands ==
  ASSUME StreamInv, StandsStill
  PROVE  StreamInv'
<1> USE DEF StreamInv, StandsStill
<1>1. StreamTypes'
  BY DEF StreamTypes
<1>2. HandInv'
  BY DEF HandInv
<1>3. ChannelInv'
  BY DEF ChannelInv
<1>4. OutcomeInv'
  BY DEF OutcomeInv
<1>5. Shown' = Shown
  BY DEF Shown, Taken
<1> QED BY <1>1, <1>2, <1>3, <1>4, <1>5 DEF TellsInv

LEMMA StreamKept == StreamInv /\ [StreamNext]_streamVars => StreamInv'
<1> SUFFICES ASSUME StreamInv, [StreamNext]_streamVars PROVE StreamInv'
  OBVIOUS
<1>1. CASE RequestFails
  BY <1>1, StreamRequestFails
<1>2. CASE Respond
  BY <1>2, StreamResponds
<1>3. CASE ProviderStep
  <2>1. CASE CheckContext
    BY <2>1, StreamChecksContext
  <2>2. ASSUME NEW p \in Payloads, ReadNothing(p) \/ ReadMarker(p) \/ ReadRefused(p) \/ ReadChunk(p)
        PROVE  StreamInv'
    BY <2>2, StreamReadsNothing, StreamReadsMarker, StreamReadsRefused, StreamReadsChunk
  <2>3. CASE ReadFails
    BY <2>3, StreamReadFails
  <2>4. CASE SendDelta
    BY <2>4, StreamSendsDelta
  <2>5. CASE SendLast
    BY <2>5, StreamSendsLast
  <2> QED BY <1>3, <2>1, <2>2, <2>3, <2>4, <2>5 DEF ProviderStep, Read
<1>4. CASE Receive
  BY <1>4, StreamReceives
<1>5. CASE EndContext \/ Leave \/ UNCHANGED streamVars
  <2>1. StandsStill
    BY <1>5 DEF StandsStill, EndContext, Leave, streamVars, local, reader, StreamInv, StreamTypes
  <2> QED BY <2>1, StreamStands
<1> QED BY <1>1, <1>2, <1>3, <1>4, <1>5 DEF StreamNext

\* However the server cuts and orders its payloads, with any number of calls
\* and of pieces of their arguments, an answer is what the reader was shown,
\* each call whole, and it comes only from a stream that said it was complete.
THEOREM AnswerWasStreamed == StreamSpec => []AnswerIsWhatWasStreamed
<1>1. StreamInit => StreamInv
  BY StreamBegins
<1>2. StreamInv /\ [StreamNext]_streamVars => StreamInv'
  BY StreamKept
<1>3. StreamInv => AnswerIsWhatWasStreamed
  BY StreamInvImplies
<1> QED BY <1>1, <1>2, <1>3, PTL DEF StreamSpec
=============================================================================
