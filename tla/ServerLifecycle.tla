-------------------------- MODULE ServerLifecycle --------------------------
(***************************************************************************)
(* The sea-apiserver process from the moment its signal handler is armed   *)
(* (server.go:81) to its exit.  Three goroutines run without a lock        *)
(* between them:                                                           *)
(*   main      assigns the two http.Servers, starts the listener, pings    *)
(*             itself until the router answers, and waits for the listener *)
(*   listener  runs ListenAndServe of the insecure server                  *)
(*   signal    on SIGINT or SIGTERM closes the store, then shuts both      *)
(*             servers down, then calls os.Exit(0)                         *)
(* and the requests being served.  The first of them that ends the process *)
(* ends it for all.                                                        *)
(***************************************************************************)
EXTENDS Naturals

CONSTANTS
    Requests,   \* requests clients send during the process's life
    PingLimit,  \* seconds ping may go on: 10
    DrainLimit  \* seconds Close may go on: 10

ASSUME LimitsAssumption == PingLimit \in Nat /\ DrainLimit \in Nat

VARIABLES
    main,       \* where the main goroutine is
    listener,   \* where the listener goroutine is
    signal,     \* where the signal goroutine is
    process,    \* "up", or how it ended
    storeOpen,  \* the connection pool of the PostgreSQL store
    reqs,       \* the state of each request
    pingTime,   \* seconds since ping's context was created
    drainTime,  \* seconds since Close's context was created
    healthz,    \* the option of the same name
    portTaken   \* another program listens on the insecure port

vars == <<main, listener, signal, process, storeOpen, reqs, pingTime,
          drainTime, healthz, portTaken>>

\* What no step changes.
settings == <<healthz, portTaken>>

TypeOK ==
    /\ main \in {"init", "insecure", "assigned", "ping", "sleep", "awake",
                 "wait", "returned"}
    /\ listener \in {"off", "starting", "serving", "stopped", "failed"}
    /\ signal \in {"none", "received", "storeClosed", "draining", "done"}
    /\ process \in {"up", "exit0", "fatal", "panic"}
    /\ storeOpen \in BOOLEAN
    /\ reqs \in [Requests -> {"new", "running", "stored", "failed", "answered"}]
    /\ pingTime \in 0 .. PingLimit
    /\ drainTime \in 0 .. DrainLimit
    /\ healthz \in BOOLEAN
    /\ portTaken \in BOOLEAN

Init ==
    /\ main = "init"
    /\ listener = "off"
    /\ signal = "none"
    /\ process = "up"
    /\ storeOpen = TRUE
    /\ reqs = [r \in Requests |-> "new"]
    /\ pingTime = 0
    /\ drainTime = 0
    /\ healthz \in BOOLEAN
    /\ portTaken \in BOOLEAN

Up == process = "up"
InFlight == {r \in Requests : reqs[r] \in {"running", "stored", "failed"}}

\* Seeded fault: the servers are assigned once the router has answered.
AssignedAfterPing == main \in {"wait", "returned"}

\* Both pointers that Close dereferences are set.
ServersAssigned == main \notin {"init", "insecure"}

\* Shutdown of the insecure server has begun: it is in the state in which
\* ListenAndServe returns ErrServerClosed.
ShuttingDown == signal \in {"draining", "done"}

-----------------------------------------------------------------------------
\* The main goroutine

AssignInsecure ==
    /\ Up /\ main = "init"
    /\ main' = "insecure"
    /\ UNCHANGED <<listener, signal, process, storeOpen, reqs, pingTime,
                   drainTime, settings>>

AssignSecure ==
    /\ Up /\ main = "insecure"
    /\ main' = "assigned"
    /\ UNCHANGED <<listener, signal, process, storeOpen, reqs, pingTime,
                   drainTime, settings>>

SpawnListener ==
    /\ Up /\ main = "assigned"
    /\ main' = IF healthz THEN "ping" ELSE "wait"
    /\ listener' = "starting"
    /\ UNCHANGED <<signal, process, storeOpen, reqs, pingTime, drainTime, settings>>

\* GET /healthz answers 200 when the listener serves it, or the program that
\* holds the port instead does, and the context is alive.
HealthzAnswers == (listener = "serving" /\ ~ShuttingDown) \/ portTaken

Ping ==
    /\ Up /\ main = "ping"
    /\ \/ /\ HealthzAnswers /\ pingTime < PingLimit
          /\ main' = "wait"
       \/ /\ ~HealthzAnswers \/ portTaken \/ pingTime = PingLimit
          /\ main' = "sleep"
    /\ UNCHANGED <<listener, signal, process, storeOpen, reqs, pingTime,
                   drainTime, settings>>

\* Seeded fault: the select that looks at ctx.Done is gone.
PingNeverExpires == FALSE

PingExpired == pingTime = PingLimit

PingCheck ==
    /\ Up /\ main = "awake"
    /\ IF PingExpired THEN process' = "fatal" /\ UNCHANGED main
       ELSE main' = "ping" /\ UNCHANGED process
    /\ UNCHANGED <<listener, signal, storeOpen, reqs, pingTime, drainTime, settings>>

\* eg.Wait returns, then Run, runCommand and main do.
MainReturns ==
    /\ Up /\ main = "wait" /\ listener = "stopped"
    /\ main' = "returned"
    /\ process' = "exit0"
    /\ UNCHANGED <<listener, signal, storeOpen, reqs, pingTime, drainTime, settings>>

-----------------------------------------------------------------------------
\* The listener goroutine

\* Seeded fault: the goroutine returns the error to an errgroup whose result
\* is dropped.
ListenErrorReturned ==
    /\ listener' = "stopped"
    /\ UNCHANGED process

\* log.Fatal
ListenError ==
    /\ listener' = "failed"
    /\ process' = "fatal"

\* Seeded fault: ErrServerClosed is an error like any other.
ServerClosedIsFatal ==
    /\ listener' = "stopped"
    /\ process' = "fatal"

\* ListenAndServe returns ErrServerClosed, which is not reported.
ServerClosed ==
    /\ listener' = "stopped"
    /\ UNCHANGED process

Listen ==
    /\ Up /\ listener = "starting"
    /\ \/ /\ ~ShuttingDown /\ ~portTaken
          /\ listener' = "serving"
          /\ UNCHANGED process
       \/ /\ ~ShuttingDown /\ portTaken
          /\ ListenError
       \/ /\ ShuttingDown
          /\ ServerClosed
    /\ UNCHANGED <<main, signal, storeOpen, reqs, pingTime, drainTime, settings>>

\* Shutdown makes ListenAndServe return at once: it does not wait for the
\* requests in flight.
ListenerStops ==
    /\ Up /\ listener = "serving" /\ ShuttingDown
    /\ ServerClosed
    /\ UNCHANGED <<main, signal, storeOpen, reqs, pingTime, drainTime, settings>>

-----------------------------------------------------------------------------
\* The signal goroutine

ReceiveSignal ==
    /\ Up /\ signal = "none"
    /\ signal' = "received"
    /\ UNCHANGED <<main, listener, process, storeOpen, reqs, pingTime,
                   drainTime, settings>>

\* Seeded fault: closing the store waits for the requests that use it.
StoreIdle == InFlight = {}

\* sql.DB.Close does not wait for connections in use.
StoreCanClose == TRUE

CloseStore ==
    /\ Up /\ signal = "received"
    /\ StoreCanClose
    /\ storeOpen' = FALSE
    /\ signal' = "storeClosed"
    /\ UNCHANGED <<main, listener, process, reqs, pingTime, drainTime, settings>>

\* Close: the secure server, which never served, shuts down at once, then the
\* shutdown of the insecure one begins.  A nil server is a nil dereference.
BeginDrain ==
    /\ Up /\ signal = "storeClosed"
    /\ IF ServersAssigned THEN signal' = "draining" /\ UNCHANGED process
       ELSE process' = "panic" /\ UNCHANGED signal
    /\ UNCHANGED <<main, listener, storeOpen, reqs, pingTime, drainTime, settings>>

EndDrain ==
    /\ Up /\ signal = "draining"
    /\ InFlight = {} \/ drainTime = DrainLimit
    /\ signal' = "done"
    /\ UNCHANGED <<main, listener, process, storeOpen, reqs, pingTime,
                   drainTime, settings>>

\* The shutdown manager calls os.Exit(0) after the callbacks.
ExitAfterDrain ==
    /\ Up /\ signal = "done"
    /\ process' = "exit0"
    /\ UNCHANGED <<main, listener, signal, storeOpen, reqs, pingTime,
                   drainTime, settings>>

-----------------------------------------------------------------------------
\* Requests: accepted until the shutdown of the server begins, and served by
\* one database statement, which fails once the store is closed

AcceptRequest(r) ==
    /\ Up /\ listener = "serving" /\ ~ShuttingDown
    /\ reqs[r] = "new"
    /\ reqs' = [reqs EXCEPT ![r] = "running"]
    /\ UNCHANGED <<main, listener, signal, process, storeOpen, pingTime,
                   drainTime, settings>>

Statement(r) ==
    /\ Up /\ reqs[r] = "running"
    /\ reqs' = [reqs EXCEPT ![r] = IF storeOpen THEN "stored" ELSE "failed"]
    /\ UNCHANGED <<main, listener, signal, process, storeOpen, pingTime,
                   drainTime, settings>>

AnswerRequest(r) ==
    /\ Up /\ reqs[r] \in {"stored", "failed"}
    /\ reqs' = [reqs EXCEPT ![r] = "answered"]
    /\ UNCHANGED <<main, listener, signal, process, storeOpen, pingTime,
                   drainTime, settings>>

-----------------------------------------------------------------------------
\* A second passes: both contexts age, and ping's sleep ends.

Pinging == main \in {"ping", "sleep", "awake"}

\* Seeded fault: the contexts have no deadline.
ElapsedUnbounded(t, limit) == t + 1

\* A context is done at its deadline; what happens after it is not told apart.
Elapsed(t, limit) == IF t < limit THEN t + 1 ELSE t

Second ==
    /\ Up
    /\ Pinging \/ signal = "draining"
    /\ main' = IF main = "sleep" THEN "awake" ELSE main
    /\ pingTime' = IF Pinging THEN Elapsed(pingTime, PingLimit) ELSE pingTime
    /\ drainTime' = IF signal = "draining" THEN Elapsed(drainTime, DrainLimit)
                    ELSE drainTime
    /\ UNCHANGED <<listener, signal, process, storeOpen, reqs, settings>>

\* Nothing happens once the process is gone.
Gone == ~Up /\ UNCHANGED vars

MainStep ==
    \/ AssignInsecure \/ AssignSecure \/ SpawnListener
    \/ Ping \/ PingCheck \/ MainReturns
ListenerStep == Listen \/ ListenerStops
ShutdownStep == CloseStore \/ BeginDrain \/ EndDrain \/ ExitAfterDrain
RequestStep(r) == AcceptRequest(r) \/ Statement(r) \/ AnswerRequest(r)

Next ==
    \/ MainStep \/ ListenerStep
    \/ ReceiveSignal \/ ShutdownStep
    \/ \E r \in Requests : RequestStep(r)
    \/ Second
    \/ Gone

Spec == Init /\ [][Next]_vars

\* The three goroutines are scheduled and time passes.  Nothing makes clients
\* send requests, an operator send a signal, or PostgreSQL answer.
FairSpec ==
    /\ Spec
    /\ WF_vars(MainStep) /\ WF_vars(ListenerStep) /\ WF_vars(ShutdownStep)
    /\ WF_vars(Second)

-----------------------------------------------------------------------------
(***************************************************************************)
(* The process exits with code 0 only after a signal: a server that cannot *)
(* listen, or whose router does not answer, ends with log.Fatal, so a      *)
(* supervisor restarts it (genericapiserver.go:161 and :252).              *)
(***************************************************************************)
ExitZeroOnlyOnSignal == process = "exit0" => signal # "none"

(***************************************************************************)
(* A signal that arrives before Run has assigned the servers crashes the   *)
(* process in Close, but none that arrives once a request was accepted     *)
(* does (genericapiserver.go:213).                                         *)
(***************************************************************************)
PanicOnlyBeforeServing ==
    process = "panic" => listener = "off" /\ \A r \in Requests : reqs[r] = "new"

(***************************************************************************)
(* log.Fatal, which exits with a failure, is for a port that is taken or a *)
(* router that did not answer in time: no shutdown that began after main   *)
(* saw the router answer is reported as a failure, although it makes       *)
(* ListenAndServe return an error (genericapiserver.go:160).               *)
(***************************************************************************)
ShutdownIsNoFailure ==
    process = "fatal" => portTaken \/ (main = "awake" /\ pingTime = PingLimit)

(***************************************************************************)
(* A signal ends the process, even if PostgreSQL never answers a request   *)
(* in flight (genericapiserver.go:210).                                    *)
(***************************************************************************)
SignalEndsProcess == signal # "none" ~> process # "up"

(***************************************************************************)
(* Startup ends: main waits for the listener, with a router that answered, *)
(* or the process is gone; it does not ping for ever                       *)
(* (genericapiserver.go:250).                                              *)
(***************************************************************************)
StartupDecides == <>(main = "wait" \/ process # "up")

(***************************************************************************)
(* "it has 10 seconds to finish the request it is currently handling"      *)
(* (genericapiserver.go:208): while a request is in flight, the process    *)
(* does not exit before the limit of the drain.                            *)
(***************************************************************************)
DrainHonoured ==
    [][process = "up" /\ process' = "exit0" /\ InFlight # {}
         => drainTime = DrainLimit]_vars
=============================================================================
