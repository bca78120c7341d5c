------------------------------ MODULE Startup ------------------------------
(***************************************************************************)
(* From the command line to an armed server, or to the end of the process: *)
(* pkg/app runs the command, internal/apiserver logs, builds the engine,   *)
(* opens the store and migrates its tables, installs the routes.  It is a  *)
(* sequence of steps of one goroutine; the environment chooses the         *)
(* invocation, whether the database answers and which migration fails.     *)
(***************************************************************************)
EXTENDS Options, Logging, FiniteSets

CONSTANT Invocations
    \* how the command may be called: argv, the state of the configuration
    \* file, and the settings from the flags, the environment and the file

Arguments == {"run", "badFlag", "help", "positional", "version"}
ConfigFiles == {"read", "unreadable", "undecodable"}

ASSUME InvocationAssumption ==
    \A i \in Invocations :
        /\ i.argv \in Arguments
        /\ i.config \in ConfigFiles
        /\ DOMAIN i.flags \subseteq FlagKeys
        /\ ParseFlags(NewOptions, i) \in Options
        /\ Unmarshal(ParseFlags(NewOptions, i), i) \in Options

VARIABLES
    inv,        \* the invocation
    opts,       \* the Options in memory
    pc,         \* the next step
    exit,       \* how the process ended, or "none": exit code 0, 1, or 2 after a panic
    std,        \* the global logger, the lowest level it writes
    engine,     \* the gin engine: its handlers and routes
    gormLogger, \* the logger gorm was given: the global one of then, and its own level
    factory,    \* the global factory of the store, and the database it holds
    tables      \* the tables this process migrated

settings == <<inv, opts>>
server == <<std, engine, gormLogger, factory, tables>>
vars == <<settings, pc, exit, server>>

Steps == {"parse", "config", "unmarshal", "complete", "validate", "log", "engine",
          "store", "migrate", "router", "serve", "ended"}
Tables == <<"app_template", "app_service_item", "app_service">>
Known == {"recovery", "secure", "options", "nocache", "cors", "requestid", "logger", "dump"}
Routes == {"healthz", "metrics", "pprof", "version", "v1"}

NoEngine == [mode |-> "none", handlers |-> <<>>, metrics |-> FALSE, routes |-> {}]
NoLogger == [std |-> FatalLevel + 1, level |-> 0]

TypeOK ==
    /\ inv.argv \in Arguments /\ inv.config \in ConfigFiles
    /\ opts \in Options
    /\ pc \in Steps
    /\ exit \in {"none", "success", "error", "panic"}
    /\ exit # "none" <=> pc = "ended"
    /\ std \in Loggers
    /\ engine.routes \subseteq Routes
    /\ engine.mode \in Modes \union {"none"}
    /\ gormLogger \in [std : Loggers \union {FatalLevel + 1}, level : Int]
    /\ factory \in {"none", "nil", "database"}
    /\ tables \in 0 .. Len(Tables)

Init ==
    /\ inv \in Invocations
    /\ opts = NewOptions
    /\ pc = "parse"
    /\ exit = "none"
    /\ std = New(NewLogOptions)
    /\ engine = NoEngine
    /\ gormLogger = NoLogger
    /\ factory = "none"
    /\ tables = 0

-----------------------------------------------------------------------------
\* The command line

At(step) == pc = step
Goto(step) == pc' = step /\ UNCHANGED exit
Exit(how) == pc' = "ended" /\ exit' = how

\* cobra parses the flags, which sets the fields, and shows the help.
Execute ==
    /\ At("parse")
    /\ opts' = IF inv.argv = "badFlag" THEN opts ELSE ParseFlags(opts, inv)
    /\ IF inv.argv = "badFlag" THEN Exit("error")
       ELSE IF inv.argv = "help" THEN Exit("success")
       ELSE Goto("config")
    /\ UNCHANGED <<inv, server>>

\* The configuration file is read before the arguments are looked at.
ReadConfig ==
    /\ At("config")
    /\ IF inv.config = "unreadable" \/ inv.argv = "positional"
       THEN Exit("error") ELSE Goto("unmarshal")
    /\ UNCHANGED <<settings, server>>

\* The version is shown only now, and so not without a configuration file.
UnmarshalOptions ==
    /\ At("unmarshal")
    /\ IF inv.argv = "version" THEN Exit("success") /\ UNCHANGED opts
       ELSE IF inv.config = "undecodable" THEN Exit("error") /\ UNCHANGED opts
       ELSE opts' = Unmarshal(opts, inv) /\ Goto("complete")
    /\ UNCHANGED <<inv, server>>

\* Seeded fault: the options are validated before they are completed.
CompleteAfterValidate ==
    /\ At("complete")
    /\ IF SecureCompleteFails(opts.secure) \/ Validate(opts) # {}
       THEN Exit("error") /\ UNCHANGED opts
       ELSE opts' = Complete(opts) /\ Goto("validate")
    /\ UNCHANGED <<inv, server>>

CompleteOptions ==
    /\ At("complete")
    /\ IF SecureCompleteFails(opts.secure)
       THEN Exit("error") /\ opts' = [opts EXCEPT !.jwt = Complete(opts).jwt]
       ELSE opts' = Complete(opts) /\ Goto("validate")
    /\ UNCHANGED <<inv, server>>

\* Seeded fault: what is wrong is only warned of.
ValidateWarns ==
    /\ At("validate")
    /\ Goto("log")
    /\ UNCHANGED <<settings, server>>

ValidateOptions ==
    /\ At("validate")
    /\ IF Validate(opts) # {} THEN Exit("error") ELSE Goto("log")
    /\ UNCHANGED <<settings, server>>

-----------------------------------------------------------------------------
\* The server

InitLog ==
    /\ At("log")
    /\ IF Builds(opts.log) THEN std' = New(opts.log) /\ Goto("engine")
       ELSE Exit("panic") /\ UNCHANGED std
    /\ UNCHANGED <<settings, engine, gormLogger, factory, tables>>

\* The two necessary middlewares, then those of the list that are known.
InstallMiddlewares(names) ==
    LET installed[i \in 0 .. Len(names)] ==
            IF i = 0 THEN <<"requestid", "context">>
            ELSE IF names[i] \in Known THEN Append(installed[i - 1], names[i])
            ELSE installed[i - 1]
    IN  installed[Len(names)]

InstallAPIs(config) ==
    {"version"} \union (IF config.healthz THEN {"healthz"} ELSE {})
                \union (IF config.metrics THEN {"metrics"} ELSE {})
                \union (IF config.profiling THEN {"pprof"} ELSE {})

\* The ports and certificates it copies, too, decide nothing here.
BuildGenericConfig(o) == FeatureApplyTo(o.feature, ServerRunApplyTo(o.server, NewConfig))

\* gin.SetMode panics for a mode it does not know, which nothing checked.
BuildServer ==
    /\ At("engine")
    /\ LET config == BuildGenericConfig(opts)
       IN  IF config.mode = "unknown" THEN Exit("panic") /\ UNCHANGED engine
           ELSE /\ engine' = [mode |-> config.mode,
                              handlers |-> InstallMiddlewares(config.middlewares),
                              metrics |-> config.metrics,
                              routes |-> InstallAPIs(config)]
                /\ Goto("store")
    /\ UNCHANGED <<settings, std, gormLogger, factory, tables>>

\* Seeded fault: gorm writes through the logger the package started with.
OpenWithFirstLogger(reachable) ==
    /\ gormLogger' = [std |-> New(NewLogOptions), level |-> opts.postgres.logLevel]
    /\ factory' = IF reachable THEN "database" ELSE "nil"

\* The factory is set even when the connection failed.
Open(reachable) ==
    /\ gormLogger' = [std |-> std, level |-> opts.postgres.logLevel]
    /\ factory' = IF reachable THEN "database" ELSE "nil"

OpenStore ==
    /\ At("store")
    /\ \E reachable \in BOOLEAN : Open(reachable)
    /\ Goto("migrate")
    /\ UNCHANGED <<settings, std, engine, tables>>

\* Seeded fault: without a database there is nothing to migrate.
MigrateIfDatabase ==
    /\ At("migrate")
    /\ \/ factory = "database" /\ tables < Len(Tables) /\ tables' = tables + 1
          /\ Goto("migrate")
       \/ Goto("router") /\ UNCHANGED tables
    /\ UNCHANGED <<settings, std, engine, gormLogger, factory>>

\* The tables are migrated one by one up to the first that fails, whose error
\* is dropped.  A nil database is dereferenced.
Migrate ==
    /\ At("migrate")
    /\ IF factory = "nil" THEN Exit("panic") /\ UNCHANGED tables
       ELSE \/ tables < Len(Tables) /\ tables' = tables + 1 /\ Goto("migrate")
            \/ Goto("router") /\ UNCHANGED tables
    /\ UNCHANGED <<settings, std, engine, gormLogger, factory>>

InitRouter ==
    /\ At("router")
    /\ engine' = [engine EXCEPT !.routes = @ \union {"v1"}]
    /\ Goto("serve")
    /\ UNCHANGED <<settings, std, gormLogger, factory, tables>>

StartupStep ==
    \/ Execute \/ ReadConfig \/ UnmarshalOptions \/ CompleteOptions \/ ValidateOptions
    \/ InitLog \/ BuildServer \/ OpenStore \/ Migrate \/ InitRouter

StartupSpec == Init /\ [][StartupStep]_vars

-----------------------------------------------------------------------------
\* Properties

Started == pc \in {"engine", "store", "migrate", "router", "serve"}

(***************************************************************************)
(* The logger is replaced, the engine built, the store opened only with    *)
(* options that are complete and valid, and they are not touched any more  *)
(* (app.go:271, :277).                                                     *)
(***************************************************************************)
ValidBeforeUse ==
    Started \/ engine # NoEngine \/ factory # "none" =>
        /\ Validate(opts) = {}
        /\ ~SecureCompleteFails(opts.secure)
        /\ Complete(opts) = opts

Given(k) == k \in DOMAIN inv.flags \/ InEnv(inv, k) \/ k \in DOMAIN inv.file
Value(k) == opts[k[1]][k[2]]
Default(k) == NewOptions[k[1]][k[2]]

(***************************************************************************)
(* A process that gives up with exit code 1 was called wrongly: never by   *)
(* what is left at its default, although the default JWT key is no valid   *)
(* one (options.go:86, app.go:285).                                        *)
(***************************************************************************)
FailureIsTheCallers ==
    exit = "error" =>
        \/ inv.argv \in {"badFlag", "positional"} \/ inv.config # "read"
        \/ \E k \in Keys : Given(k) /\ Value(k) # Default(k)
                           /\ k[1] \in {"insecure", "secure", "jwt", "log"}

\* What completing the options may change.
Completed == {<<"jwt", "key">>, <<"secure", "certFile">>, <<"secure", "keyFile">>}

FromSources(k) ==
    LET bound == k \notin Unbound
        inFile == k \in DOMAIN inv.file
    IN  Value(k) = IF k \in DOMAIN inv.flags /\ (bound \/ ~inFile) THEN inv.flags[k]
                   ELSE IF InEnv(inv, k) /\ (bound \/ inFile) THEN inv.env[k]
                   ELSE IF inFile THEN inv.file[k]
                   ELSE Default(k)

(***************************************************************************)
(* Every setting is what its strongest source says, flag before            *)
(* environment, unless the variable is empty, before file before default,  *)
(* but for the two keys that no flag is named after: for them the          *)
(* environment counts only if the file has the key, too, and then both     *)
(* overrule the flag, which gorm's log level has under another name        *)
(* (config.go:45, postgresql_options.go:86 and its key at :35).            *)
(***************************************************************************)
StrongestSourceWins ==
    pc \in {"complete", "serve"} \/ exit = "panic" => \A k \in Keys \ Completed : FromSources(k)

(***************************************************************************)
(* Only four things make a start panic: a mode gin does not know, a format *)
(* that is valid up to its case, a log path that cannot be opened, and a   *)
(* database that cannot be reached (log.go:258, config.go:120,             *)
(* postgresql.go:87).                                                      *)
(***************************************************************************)
PanicsAreUnchecked ==
    exit = "panic" =>
        \/ opts.server.mode = "unknown" \/ opts.log.format = "JSON"
        \/ opts.log.outputPaths = "missing" \/ factory = "nil"

(***************************************************************************)
(* Nobody is served by a store without a database, although the factory is *)
(* set with a nil one and its error is dropped: the migration, which       *)
(* always follows, does not survive it (postgresql.go:85, server.go:94).   *)
(***************************************************************************)
ServingHasDatabase == pc \in {"router", "serve"} => factory = "database"

(***************************************************************************)
(* While serving, a failing statement is logged just when gorm's level is  *)
(* error or above and the process logs at info or below: with log.level    *)
(* warn or higher the database's errors are lost, for they are written as  *)
(* information (logger.go:95, :150, log.go:297).                           *)
(***************************************************************************)
DatabaseErrorsLogged ==
    pc = "serve" =>
        (TraceWritten(gormLogger.std, gormLogger.level, TRUE, FALSE)
            <=> opts.postgres.logLevel >= Error /\ opts.log.level \in {"debug", "info"})
=============================================================================
