# sea-apiserver in TLA+

A TLA+ model of the Seacraft API server (`cmd/sea-apiserver`, `internal/`,
`pkg/`), the TLC configurations that check it on small instances, and proofs,
checked by TLAPS, of what matters most for every instance. Paths below are
relative to the root of the repository.

## The system

sea-apiserver is a gin HTTP server in front of PostgreSQL (gorm). It serves two
REST resources, application services and application templates, whose
controllers, services, entities and repositories are the same code twice.

| Component | State | Operations | Interacts with | Hard behaviour | Correct when |
|---|---|---|---|---|---|
| Controllers `internal/apiserver/controller/v1` | none (the request) | Create, Update, Delete, Get, List; `ParseUint64` | call the services; gin gives each request a goroutine | error paths that go on | one response per request; every request answered |
| Services `internal/apiserver/service/v1` | an entity in memory | existence check, then write | call the repository, several statements per request, no transaction around them | check-then-act, stale entities, dropped errors | unique names; an update changes the row it names; no torn row |
| Entities `internal/apiserver/repository/model/v1` | the rows | `AfterCreate` hook: instance id | run inside gorm's Create | two statements per insert | a visible row has its instance id |
| Generic repository `pkg/db/gorm/repository.go` | none | Insert, Update (Save), DeleteById, GetById, Exist, GetList, GetPageList | gorm, PostgreSQL | Save's fallback on an upsert; missing row is no error | ids come from the sequence; deleted rows stay deleted |
| Connection pool `pkg/db/postgresql.go` | open connections | New | every statement | pool exhaustion | no handler waits for another's connection for ever |
| Unit of work `pkg/db/gorm/unit_work.go` | the current transaction | Begin, Current, SaveChange, Commit, Rollback | `datastore.Begin`, pool | forgotten commit, stale transaction, nil interfaces, recovered panics | only committed rows are seen; an error frees the unit; every open connection has an owner |
| Store factory `internal/apiserver/repository/postgresql` | a global factory, `sync.Once` | GetPostgreSQLFactoryOr, migration, Close | server start, router, shutdown | error seen by the first caller only; a factory without a database | nobody is served without a database |
| Server `internal/pkg/server`, `internal/apiserver/server.go` | two `http.Server`s, three goroutines | Run, ping, Close | shutdown library, store | signal at any moment, deadlines, first exit wins | the exit code tells why; shutdown and startup end; requests are drained |
| Pagination `pkg/message` | none | InitPage, SetTotal | GetPageList | overflow; two statements | pages cover the rows; a page is never larger than asked for |
| Options, configuration `internal/pkg/options`, `internal/apiserver/options` | the parsed flags | AddFlags, Complete, Validate, ApplyTo | command line, server, logger | three sources, keys that are no flags, boundary values | the strongest source wins; only valid options are used |
| Command line `pkg/app`, `cmd/sea-apiserver` | the configuration file | Execute, runCommand | options, server | order of reading, completing, validating | a start that is refused was called wrongly |
| Middleware `internal/pkg/middleware` | the context of a request | RequestID, Context, Options, Cors, Logger | gin, logging | order is configured; aborts and panics turn a request round | one id per request; every request is answered; who is logged |
| Logging `pkg/log`, `internal/pkg/logger` | the global logger | Init, L, levels; gorm's Trace | everything | a logger captured too early; two scales of levels | the database's errors are logged |
| Error codes, string utilities, web UI | none that outlives a request | | | | |

The hazards this code has, each at its line with the properties that would
catch it, are listed in `PROJECT.json` under `hazards`.

## Modules

| Module | What it is |
|---|---|
| `ResourceService` | one REST resource, statement by statement, with any number of concurrent handlers |
| `ResourceCatalog` | what the resource promises: an abstract catalogue with atomic effects |
| `ResourceServiceProofs` | invariance proofs about `ResourceService`, and when names are unique |
| `NameHistory` | history variables over `ResourceService`: which check let which row in |
| `ResourceRefinementProofs` | proof that `ResourceService` implements `ResourceCatalog` |
| `ServerLifecycle` | the process from the arming of the signal handler to its exit |
| `ServerLifecycleProofs` | invariance proofs about `ServerLifecycle` |
| `UnitOfWork` | units of work over a pool of connections |
| `UnitOfWorkProofs` | all of its properties, proved for any number of units |
| `Pages` | a list read page by page while others write |
| `Options`, `Logging` | operators only: what the options and the loggers decide |
| `Startup` | from the command line to an armed server, over `Options` and `Logging` |
| `ApiServer` | extends `Startup` by the requests that pass the chain it installed |
| `StartupProofs` | the start's properties, proved for any set of invocations |
| `ApiServerProofs` | the requests' properties, proved for any list of middlewares |
| `PagesProofs` | all properties of `Pages`, proved for any table and any integers |
| `SetInduction` | induction over natural numbers, for what a recursive function computes |
| `MC...` | instances for TLC |

### ResourceService

A *handler* is the goroutine gin runs a request in. One action is one SQL
statement with the code around it up to the next statement, because the code
holds no lock and no transaction over two of its statements. The one exception
is gorm's Create: `InsertRow` opens a transaction, keeps a connection
(`InTransaction`), and `AfterCreate` stamps the instance id, saves it through
the same transaction and commits; the row is visible to others only then.

| State | Code |
|---|---|
| `rows` | the table, filtered by `FilterDelete`: the live row of each id |
| `nextId` | the `bigserial` sequence |
| `pc`, `req` | where a handler is, and the bound request |
| `ent` | the entity of the handler (`svc`, `temp`) |
| `out` | the responses written by `core.WriteResponse` |

| Actions | Code |
|---|---|
| `Accept`, `Malformed`, `Reply` | binding and `ParseUint64` in the controllers, the response |
| `CreateCheck`, `InsertRow`, `AfterCreate` | `Create`: `Exist`, `Insert`, the hook |
| `UpdateFind`, `UpdateCheck`, `SaveRow`, `UpsertRow` | `Update`: `GetById`, `Exist`, `Save` and its fallback |
| `DeleteRow`, `GetFind`, `ListRows` | `DeleteById`, `GetById`, `GetList` |

Decisions worth knowing:

* A missing record is a zero entity (`repository.go:150`). An update therefore
  goes on, and `Save` of an entity with a zero key is an insert: `UpdateCheck`
  leads to `insert` or `save`.
* `Save` whose UPDATE matches no row goes on with an upsert of every column
  that skips the hooks: `UpsertRow`.
* The existence query of an update carries the predicate `if not in (?)`, which
  PostgreSQL rejects; the error is dropped, so the check never finds a
  duplicate unless the name is blank, where the expression is empty and every
  live row matches.
* Errors of the existence query are dropped in Create, too: under a fault the
  check passes.
* `Faults` says what a statement may suffer: `"fail"` has no effect, `"lost"`
  commits although the client is told of an error. Ids up to 2^64 - 1 parse but
  those from 2^63 cannot be sent to a `bigint` column; `MaxId + 1` stands for
  them all.
* Names and descriptions are members of a small set; `Blank` is what
  `util.Trim` reduces to the empty string. The instance id is an injective
  encoding of the id behind a prefix.
* Contexts are not passed to gorm, so a client that leaves does not cancel a
  statement.

### ResourceCatalog

A call takes effect at most once, in one atomic step between its request and
its response; "ok" means it did, a refusal that it did not, a failure may mean
either, and an id is handed out once. A refusal (`Refusals`) is an answer the
code gives before it writes: a malformed request, a name that is taken, an
update whose row cannot be read. A failure is an error of the database, which
may hide a commit. `Catalog` in `ResourceService` gives the refinement mapping:
the value of a live row, the ids below `nextId`, and a call that is open until
its answer is known. What the catalogue does *not* promise is what the code does not keep:
an update may create a row under a new id, and names need not be unique.

### NameHistory

Names are not unique, but not for any odd reason: `cleared` holds the handlers
whose check found the name free and no other handler about to insert it,
`vouched` the ids of the rows they committed, until such a row is written
again. `VouchedNamesUnique` says that two such rows never share a name, so that
of two rows of one name at least one was updated, was let in by a failed check,
or was checked while another handler was about to insert that name. The history only
records; it restricts no step.

### ServerLifecycle

| State | Code |
|---|---|
| `main` | `GenericAPIServer.Run` and `ping`, the main goroutine |
| `listener` | the goroutine that runs `ListenAndServe` |
| `signal` | the shutdown callback (`server.go:66`): store, both servers, `os.Exit(0)` |
| `process` | how the process ended |
| `storeOpen`, `reqs` | the pool of the store and the requests being served |
| `pingTime`, `drainTime` | the two ten-second contexts |
| `healthz`, `portTaken` | an option, and whether another program has the port |

A signal may arrive at any moment after `gs.Start`. `Close` dereferences both
servers, so before they are assigned it panics (`BeginDrain`). Shutdown makes
`ListenAndServe` return at once (`ListenerStops`), whereupon main returns while
`Close` still waits for requests. `Second` is the clock: it ages the contexts
and ends ping's sleep. That clock and the goroutines are otherwise
unsynchronised: a goroutine may be slow for any number of seconds. The data race
on the two server pointers is modelled by the order of the assignments; a
goroutine that sees the new pointer but not the server behind it is not.

### UnitOfWork

A unit is used by one goroutine at a time, as `datastore.Begin` hands it out;
any number of units run over one pool. One action is one statement with the code
around it.

| State | Code |
|---|---|
| `contextTx` | the field of that name |
| `held` | the `IDbContextTx` the caller has and passes to `Commit`: the last one it was given, or one from before |
| `tx`, `todo`, `nested` | the locals of a running `SaveChange` or `Commit` |
| `reply` | what the last call returned: `"foreign"` is "Transaction %s is not current", `"error"` any other error of the unit's `Commit`, `"failed"` one of `SaveChange` or of the transaction's own `Commit`, `"recovered"` the nil error after a panic |
| `state`, `writes`, `stored` | PostgreSQL: transactions, what they wrote, what is visible |
| `reported` | history: the transactions of the `SaveChange` calls that returned true |

| Actions | Code |
|---|---|
| `Begin`, `BeginTx`, `Current`, `Rollback` | the methods; `Begin` returns nil while a transaction is current |
| `SaveChange`, `OpenSave`, `SaveChangeDone` | `SaveChange`, which begins a transaction and has no commit |
| `CommitNil` | `Commit(nil, ...)`, a `SaveChange` |
| `CommitPanics`, `CommitForeign`, `CommitCurrent`, `CommitTx` | `Commit` of a transaction |
| `TxCommit`, `TxRollback` | `Commit` and `Rollback` of the `IDbContextTx` the caller holds, past its unit |
| `SaveEntity`, `SaveFails`, `SavePanics` | the loops over the entities and their deferred rollback |
| `RepositoryWrite` | the repositories of the store that `datastore.Begin` returns with the unit |

A `Begin` of gorm may return a *broken* transaction, on which every call fails;
it needs no connection. A statement that fails leaves the transaction aborted,
its connection in use. `Commit` may fail before or after PostgreSQL committed.
`Current` of an idle unit is a nil pointer in a non-nil interface (`NilTx`), so
a later `Commit` passes the nil check and dereferences it (`CommitPanics`).

### Pages

`InitPage`, `SetTotal` and `Slice` are functions on Go's int, which goes from
`-(MaxInt + 1)` to `MaxInt` and wraps around (`Wrap`); `Ask`, `Count` and `Find` are `GetPageList` with its two statements,
`Insert` and `Delete` the writers in between. `NextPage` is a client that
follows the page count from the first page on; `walk` records what it has seen
and what happened meanwhile, so that `WalkMissesNothing` and
`WalkRepeatsNothing` can name exactly the interleavings under which a row is
missed or repeated. A list without an order may return any rows of the right
number. No route calls `GetPageList` yet.

### Options, Logging, Startup and ApiServer

`Options` has the fields that decide a start or a request, grouped as in a
configuration file, with their defaults, the fields each flag is bound to, what
completing, validating and applying does, and the precedence of viper (`Find`).
viper takes an empty variable of the environment for none, unless
`AllowEmptyEnv` is called, which `pkg/app/config.go` does not do (`InEnv`).
`outputPaths` stands for both lists of paths of the log, which are treated alike: a
path of either that cannot be opened makes the logger's construction panic.
`Unbound` are the two keys no flag has the name of: there the file, if it has
the key, is unmarshalled over what pflag parsed. `Logging` has the levels of
zap and of gorm.

| Actions of `Startup` | Code |
|---|---|
| `Execute`, `ReadConfig`, `UnmarshalOptions` | cobra and `App.runCommand`; the file is read by `OnInitialize`, before the arguments are looked at |
| `CompleteOptions`, `ValidateOptions` | `App.applyOptionRules` |
| `InitLog` | `run` of `internal/apiserver/app.go` |
| `BuildServer` | `buildGenericConfig`, `CompletedConfig.New`, `InstallMiddlewares`, `InstallAPIs` |
| `OpenStore`, `Migrate` | `GetPostgreSQLFactoryOr`, `migrateDatabase`, one table per step |
| `InitRouter` | `PrepareRun` up to the arming of the signal handler, where `ServerLifecycle` begins |

`exit` is 0, 1 or a panic; `engine` is what a request will meet: its handlers in
order, the metrics handler and the routes.

`ApiServer` adds the requests. `at` walks down the handlers (`RequestID`,
`Context`, `Abort`, `GoOn`, `Endpoint`) and back up (`Back`), where the access
log is written and panics are recovered; `keys` is `gin.Context.Keys`, `lines`
what was logged for the request. The controllers at the end of the chain are
the handlers of `ResourceService`; here they only answer or panic. Requests
share nothing on this way, so one at a time is modelled.

## What TLC checks

| Run | Instance | Shows |
|---|---|---|
| `resource_safety` | 2 handlers, 2 ids, all operations, both faults, pool of 2 (about 1,100,000 states) | `TypeOK`, `InstanceMatchesId`, `RowsAreUntorn`, `IdsComeFromSequence`, `VouchedNamesUnique`, `DeadIdsStayDead`, `RequestsSpareOtherRows`, and that `ResourceCatalog` is implemented |
| `resource_live` | 2 handlers, 1 id, pool of 1 | every request is answered: no handler waits for a connection while it holds one |
| `resource_update_name` | 1 handler, no fault | violated: an update gives two rows one name |
| `resource_update_missing` | 1 handler | violated: an update of a missing id creates another row |
| `resource_two_answers` | 1 handler | violated: a failed get is answered twice |
| `lifecycle` | 2 requests, ping limit 3, drain limit 2 | how the process ends tells why; startup and shutdown end |
| `lifecycle_drain` | the same | violated: the process exits before requests in flight have had their time |
| `unit_of_work` | 2 units, 3 transactions, 2 rows, pool of 2 (about 1,970,000 states) | who owns each open connection, when units hang, what an acknowledged, a failed and a half-way stopped call leave behind |
| `unit_of_work_save` | 1 unit | violated: what `SaveChange` reports as saved is never committed |
| `pages` | 4 ids, ints up to 7, page size 2 by default, 6 values for both numbers (about 500,000 states) | pages are slices of the table, never too large; when a walk misses or repeats a row |
| `apiserver` | each setting from every source, each pair of settings in a file, 27 lists of middlewares (about 1,800,000 states) | the start's properties, and the way of a request through every chain |
| `request_id_context` | the two middlewares that are always installed | violated: a request that brings its own id has none in its context |

**Bounds.** Two handlers suffice for every race of the handlers: each property
relates a row to at most two requests. Two ids let a row be deleted and another
be created, let an update name a live, a dead, a never issued and an
unencodable id, and exhaust the sequence. Three payloads over two names with a
blank one reach torn rows and both outcomes of the checks. The liveness run has
the smallest pool, where a handler can block all others. In the lifecycle,
seconds are counted up to small limits: only the order of a deadline and the
other steps matters, and both orders occur.
In `unit_of_work` a pool of two lets each unit hold a connection and ask for
another, and three transactions let one of them be left behind or ended and a
unit begin anew; two rows make a batch that can fail half way. No action reads
`reply`; its view keeps of it only whether it is one of the two errors of `Commit`, which
is all that a property asks of the state before a step.
In `pages` both ends of the range of an int are sent, and a `MaxInt` of 7 suffices for
the product of two sent numbers to overflow to a negative and to a positive
number; four rows give two pages and a remainder. In `apiserver` the values of a
setting lie on both sides of every bound that is tested; a defect of precedence
needs one setting in three sources, a defect of validation at most two settings.
The proofs drop these bounds.

**Fairness.** `ResourceService!FairSpec` is strong fairness of each handler:
database/sql hands a returned connection to one of those waiting for it, so a
handler that is enabled again and again is served; PostgreSQL is assumed to
answer each statement. `ServerLifecycle!FairSpec` is weak fairness of each of
the three goroutines and of the clock, which the Go scheduler and time provide;
no request, signal or database answer is assumed to come. `Startup` states no
fairness: connecting to the database and migrating have no time limit in the
code, so that a start ends is nothing it promises. `UnitOfWork` and `Pages` state none
either, for a caller may stop using a unit or reading a list at any point. `ResourceService`
never deadlocks, a handler can always accept a request; the end of the process
is the stuttering step `Gone`.

Each property has a seeded fault (a plausible bug in the code it is about, kept
beside the definition it would replace and listed under `mutants`), under which
TLC finds the property violated.

## What is proved

For every number of handlers, ids, payloads and connections, from
`ConstantsAssumption` alone:

* `ServiceInv` is inductive (`Invariance`). It strengthens the properties with
  what each program counter implies about the entity in memory: `EntityInv`
  (an entity read or issued has an issued id and, once stamped, the instance id
  of that id; an entity about to be written carries the request's payload) and
  `PrivateInv` (the id of an uncommitted insert is in no row and no other
  memory). The properties alone are not inductive: that a row is right after a
  `Save` depends on what the handler read, several steps earlier.
* `TypeCorrect`, `InstanceIdsCorrect`, `NoTornRows`, `IdsFromSequence` follow
  from it, and `DeadIdsNeverReissued` from it and one step.
* `OtherRowsAreSpared` adds `NamedInv`, that the record an update looked up is the one
  its request names: an update of a missing id may add a row (`UpdateByIdOnly`
  is violated), but no request ever changes another's.
* `RefinesCatalog`: the initial state and every step of the handlers map to the
  catalogue's or to a stutter.

For every number of handlers, in a service that does not update and whose
statements do not fail: `SerialCreatesKeepNamesUnique` shows `NameUnique` in every
behaviour in which no create is checked while another one is between its check
and its commit (`CreatesAreSerial`, an assumption on the behaviour, which
deletes and reads do not touch). `UniqueInv` carries what the check found up to
the commit: no live row has the name of an entity about to be inserted. `OneHandlerKeepsNamesUnique`
is the case of a single handler. The hypotheses are needed: with updates
`resource_update_name` violates the property, and so do two creates at once.
`ChecksKeepNamesUnique` drops them all, updates, faults and races included, and
shows `VouchedNamesUnique` of what is left: `HistoryInv` says that a cleared
handler's name is no vouched row's and no other cleared handler's.

For every set of requests and both limits, from `LimitsAssumption`:
`LifecycleInv` is inductive (`LifecycleInvariance`), one conjunct for each pair
of goroutines, and gives `LifecycleTypeCorrect`, `ZeroMeansSignal`,
`PanicBeforeServing` and `ShutdownNoFailure`.

For every number of units, rows, transactions and connections, from
`UnitAssumption`: `UnitInv` is inductive (`UnitInvariance`). Besides the
properties it says what a running call may rely on (`CallInv`, `BegunInv`,
`CurrentInv`, `LocalInv`), that a reported transaction is nobody's
(`ReportedInv`), that every open one has an owner or is a reported one
(`OwnedInv`), that a caller never holds an open transaction which is not its unit's current
one (`HeldInv`), what each error has left (`ReplyInv`), that what is visible was
committed (`StoredInv`), and that the open ones never exceed the pool
(`PoolInv`, by the cardinality of finite sets). All six properties of
the run follow: `UnitTypeCorrect`, `ConnectionsAreAccounted`,
`HangsNeedSaveChange`, `AcksAreCommitted`, `StoppedBatchIsUndone`,
`ErrorsFreeTheUnit`. They need the invariant because an
action looks at one unit and the database only: that nobody else holds its
transaction was settled when it began.

For every set of invocations that is well-typed (`InvocationAssumption`,
`MiddlewaresAssumption`): `StartupInv` is inductive (`StartupInvariance`), and
`ServerStarts` carries it over to the server, whose requests leave the start's
variables alone. It says for each stage what is known of the options: as parsed
before `unmarshal`, from their sources (`SourceInv`) before and after completion,
valid from `log` on. From it follow `UsedOptionsAreValid`, `CallersFail`,
`SettingsFromSources`, `PanicsWereUnchecked`, `ServersHaveADatabase`,
`ErrorsAreLogged` and the typing `StartupTypeCorrect`.

From the same assumptions, for every list of middlewares in every order:
`TransitInv` is inductive together with `EngineInv` (`TransitInvariance`).

* `EngineInv` is the shape of each chain that can be installed: `requestid` and
  `context`, then known middlewares in the order of the list (`IsChain`). It is
  the induction along `InstallMiddlewares` (`InstalledIsChain`).
* `WayInv`: the types, and where on the chain a request may be in each phase. `IdInv`: who has put which id where, by the
  position relative to `requestid` and `context`.
* `AnswerInv`: the status so far, and that nothing the request has passed would
  have turned it round (`Turner`); of a panic on its way up, that none of
  the handlers it has passed is `recovery`.
* `LogInv`: the number of access log lines is that of the loggers passed on the
  way up (`Passed`), by the cardinality of finite sets.

`TransitCorrect`, `IdsAreConsistent`, `AccessIsLogged` and `RequestsGetAnswered` follow;
`AccessIsLogged` also needs the start's invariant (the level is a valid one and
the logger was built from it).

For every set of rows, every int of any size, every number a client sends, from
`PageAssumption` (the rows can be counted in an int, as `Count` requires; the
default index is 1, as in the code): `PagesInv` is inductive (`PagesInvariance`).
`WalkInv` says how many rows are in front of the page a walk reads next (`Gone`):
unless a delete pulled rows forward, the rows it has yet to see are behind all it
has seen and none can be skipped (`UnseenBehind`); unless an insert pushed rows
back, all it has seen are in front (`SeenInFront`). The properties themselves
are not inductive: whether a page repeats a row depends on the positions that
earlier pages left behind. All five follow: `PagesTypeCorrect`, `PagesAreSlices`,
`PagesAreBounded`, `WalksMissNothing`, `WalksRepeatNothing`. The lemmas say what
the arithmetic computes: `WrapIsInt`, `Products`, `PagesEnough` (the quotient and
the remainder of `SetTotal` give just enough pages), `EveryPosition` (each number up to
the size of the table is the rank of a row) and `StretchIsBounded`.

**Induction.** The library's induction theorems take a predicate, which the
installed provers cannot instantiate. `SetInduction` proves induction with a set
in its place, from the well-foundedness of inclusion of finite sets
(`NaturalsBySet`): to show something of each number, apply it to the set of numbers
that have it. `InstalledIsChain` rests on it twice: that the recursive function has a
value for every list, and that each value is a chain.

Every safety invariant and every action property of the passing runs is thus
proved; the runs remain the cheap check of each change, and of what a fault
would break.

Only model-checked: liveness (`EveryRequestAnswered`, `SignalEndsProcess`,
`StartupDecides`), for fairness and `ENABLED` are out of the
prover's reach, and the six violations.

## Disagreements between the code and what it says

Listed with their lines under `findings`: the update's existence check is an
invalid query whose error is dropped; an update of a missing id inserts; a
failed get is answered twice; the process does not wait for requests in flight;
`SaveChange` reports rows as saved that it never commits; a request that brings
its own id has none in its context. The create race on names (two handlers both
find a name free) is the remaining violation of `NameUnique`.

Met while modelling and stated by the model as the code has it:

* After a successful `Commit` the unit keeps its finished transaction: the next
  `Begin` returns nil, and what the caller then hands to `Commit(nil, ...)` is
  lost with the `SaveChange` it becomes.
* A panic recovered by `SaveChange` or `Commit` returns a nil error; the batch
  is undone all the same (`StoppedIsUndone`).
* "Transaction %s is not current" leaves the unit with its current transaction
  as it was, unlike every other error of `Commit` (`ErrorFreesUnit`).
* Run "only returns when the port cannot be listened on initially"
  (`genericapiserver.go:132`); a port that is taken ends the process in the
  listener, and Run returns for a shutdown (line 203).
* For the two keys that no flag is named after, the environment counts only if
  the file has the key, too (`StrongestSourceWins`).
* The shipped order of middlewares has `recovery` in front of `logger`: a panic
  leaves no line in the access log (`AccessLogged`).
* With `log.level` warn or higher, database errors are not logged, whatever
  gorm's level (`DatabaseErrorsLogged`); the flag for that level is
  `postgres.log-mode`, the key `log-level`, and the file overrules the flag
  (`StrongestSourceWins`).
* A port of 0 is "Set to zero to disable" (`InsecureServingOptions.go:80`), but
  the server listens on a port of the system's choice.
* "plain or json" (`pkg/log/options.go:93`) are the formats of the help, but `plain` is
  refused and `console` is the default.
* "If this list is empty default middlewares will be used"
  (`server_run_options.go:68`): only the request id and the context are.
* The version is shown only if a configuration file can be read.
* The secure server is configured and never served.

## Not modelled

* A composition of `ServerLifecycle` with `ResourceService`, in which a closed store
  fails the statements of the requests in flight: `Statement` in the lifecycle
  and `Faults` in the resource are its two halves; together they are beyond TLC.
* Two goroutines that share one unit of work: no code shares one.
* `Get` and `WithDetails` of the generic repository, which no route calls; the contents
  of a list; the routes' pagination, which does not exist yet.
* Addresses, certificates and the secure port, JWT times, idle connections
  (they decide no modelled outcome).
* The sampling of zap, which drops equal lines beyond a hundred per second.
* The text of log lines and responses, the headers set by the middleware, usage
  templates and subcommands, encoders, the klog and cron wrappers, the tracing plugin
  (nothing installs it), `server.LoadConfig` (not called), the registration of
  error codes, the web user interface (it keeps no state of the server), build
  and deployment scripts.
