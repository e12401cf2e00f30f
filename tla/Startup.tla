------------------------------- MODULE Startup -------------------------------
(***************************************************************************)
(* Which metadata store a process opens.  The server takes its flags, an   *)
(* application config file where the flags leave something open, and the   *)
(* host and password of PostgreSQL from the environment, but only where    *)
(* the flags do not make them needless (cmd/server/main.go,                *)
(* internal/config/config.go).  The command line knows flags only          *)
(* (cmd/cli/main.go).                                                      *)
(*                                                                         *)
(* Names of stores are written without blanks and in lower case: the code  *)
(* normalises them wherever it looks at one.                               *)
(***************************************************************************)

CONSTANT Unset  \* a flag that is not given

Stores == {"", "file", "postgres", "other"}

\* "flag" and "app" are DSNs; "" is a blank one.
Flags == [store : Stores \cup {Unset}, dsn : {"", "flag", Unset}]

\* The application config: complete says that the user, the port, the database
\* and the names of the environment variables are there, env that the variables
\* are set.
AppConfigs == [given : BOOLEAN, readable : BOOLEAN, store : Stores, complete : BOOLEAN, env : BOOLEAN]

ASSUME StartupAssumption == Unset \notin Stores \cup {"flag"}

VARIABLES
  process,  \* "server" or "command"
  flags,    \* its flags
  app,      \* its application config and environment
  step,     \* how far it has come
  opened    \* the store it opens, with its DSN

startupVars == <<process, flags, app, step, opened>>

None == [store |-> "none", dsn |-> ""]

StartupInit ==
  /\ process \in {"server", "command"}
  /\ flags \in Flags
  /\ app \in AppConfigs
  /\ process = "command" => ~app.given
  /\ step = "parse"
  /\ opened = None

Refuse == step' = "refused" /\ UNCHANGED opened
Settle(store, dsn) == step' = "validate" /\ opened' = [store |-> store, dsn |-> dsn]

\* The value of a flag, or what stands when it is not given.
Given(flag, otherwise) == IF flag = Unset THEN otherwise ELSE flag

\* Mutant of NeedsEnvironment: the environment is always read.
NeedsEnvironmentAlways == TRUE

\* appConfigPostgresEnvCanBeSkipped, negated: no DSN and no file store by flag.
NeedsEnvironment == flags.dsn = Unset /\ flags.store # "file"

\* LoadApp or LoadAppDefaults: the DSN is put together for a postgres store
\* only, and then everything it takes has to be there.
AppIsValid ==
  /\ app.readable
  /\ NeedsEnvironment /\ app.store = "postgres" => app.complete /\ app.env

AppDSN == IF NeedsEnvironment /\ app.store = "postgres" THEN "app" ELSE ""

\* parseServerOptions without --app-config, and parseCLIOptions.
TakeFlags ==
  /\ step = "parse" /\ ~app.given
  /\ Settle(Given(flags.store, "file"), Given(flags.dsn, ""))
  /\ UNCHANGED <<process, flags, app>>

\* loadServerAppConfig and applyAppConfigDefaults: a blank setting of the file
\* is no setting.
TakeAppConfig ==
  /\ step = "parse" /\ app.given
  /\ IF AppIsValid
       THEN Settle(Given(flags.store, IF app.store = "" THEN "file" ELSE app.store),
                   Given(flags.dsn, AppDSN))
       ELSE Refuse
  /\ UNCHANGED <<process, flags, app>>

\* validateServerOptions and validateCLIOptions: a blank store is the default.
Validate ==
  /\ step = "validate"
  /\ LET store == IF opened.store = "" THEN "file" ELSE opened.store
     IN  IF store = "file" \/ (store = "postgres" /\ opened.dsn # "")
           THEN step' = "open" /\ opened' = [opened EXCEPT !.store = store]
           ELSE Refuse
  /\ UNCHANGED <<process, flags, app>>

\* openServerSessionStore and openCLISessionStore: a connection may fail.
Open ==
  /\ step = "open"
  /\ \/ step' = "running" /\ UNCHANGED opened
     \/ opened.store = "postgres" /\ Refuse
  /\ UNCHANGED <<process, flags, app>>

StartupNext == TakeFlags \/ TakeAppConfig \/ Validate \/ Open
StartupSpec == StartupInit /\ [][StartupNext]_startupVars

-----------------------------------------------------------------------------
(* Properties *)

Reached == step \in {"open", "running"}

\* Flags that leave no question open.
FlagsSuffice ==
  \/ flags.store = "file"
  \/ flags.store = "postgres" /\ flags.dsn = "flag"

\* What is said by flag is what is opened, whatever the file and the
\* environment say or lack; a readable file cannot keep such a process from
\* starting; and PostgreSQL is opened only with a DSN of which every part was
\* there (server/main.go L84-200, config.go L101-182, cli/main.go L170-185).
StartsAsTold ==
  /\ Reached =>
       /\ flags.store \notin {Unset, ""} => opened.store = flags.store
       /\ opened.store = "postgres" =>
            \/ opened.dsn = "flag" /\ flags.dsn = "flag"
            \/ opened.dsn = "app" /\ flags.dsn = Unset /\ app.given /\ app.complete /\ app.env
  /\ FlagsSuffice /\ (app.given => app.readable) /\ step = "refused" => opened.store = "postgres"

=============================================================================
