-------------------------- MODULE ApiServerProofs --------------------------
(***************************************************************************)
(* The properties of ApiServer, for every list of middlewares, every       *)
(* invocation and every request.  How far a request has come down its      *)
(* chain, and what turned it round, decide what is already known of its    *)
(* response, its id and its lines: TransitInv says what.                   *)
(***************************************************************************)
EXTENDS StartupProofs, SetInduction, SequenceTheorems

Handlers == Known \union {"requestid", "context"}

\* A chain begins with the two necessary middlewares, and only known ones
\* follow (genericapiserver.go:103, :108).
IsChain(handlers) ==
    /\ handlers \in Seq(Handlers)
    /\ Len(handlers) >= 2
    /\ handlers[1] = "requestid" /\ handlers[2] = "context"
    /\ \A i \in 3 .. Len(handlers) : handlers[i] \in Known

\* The engine, once it is built.
EngineInv ==
    /\ engine \in [mode : Modes \union {"none"}, handlers : Seq(Handlers),
                   metrics : BOOLEAN, routes : SUBSET Routes]
    /\ pc \in {"store", "migrate", "router", "serve"} => IsChain(engine.handlers)

LineRecords == [by : {"requestid", "endpoint", "logger"}, id : {"unset", "", "new"}]

Responses == [status : {0, 200, 204, 404, 500}, id : Ids]
ContextKeys == [XRequestID : {"unset", "new"}, requestID : {"unset", "", "new"}]

RecordInv ==
    /\ request \in Requests \union {NoRequest}
    /\ phase \in {"none", "down", "up", "panic", "done"}
    /\ header \in Ids
    /\ keys \in ContextKeys
    /\ response \in Responses
    /\ lines \in Seq(LineRecords)

\* Where the request may be.
PlaceInv ==
    /\ phase # "none" => pc = "serve"
    /\ phase \in {"none", "done"} => at = 0
    /\ phase = "down" => at \in 1 .. Len(Chain)
    /\ phase \in {"up", "panic"} => at \in 0 .. Len(Chain) - 1

WayInv == RecordInv /\ PlaceInv

\* The first handler gives the request its id, the second puts a generated one
\* into the context; nothing but the first logs before that.
IdInv ==
    phase # "none" =>
        /\ request.id => header = "sent"
        /\ keys.XRequestID = "new" => header = "new"
        /\ keys.requestID = "new" => header = "new"
        /\ response.id = IF phase = "down" /\ at = 1 THEN "none" ELSE header
        /\ phase # "down" \/ at >= 3 => keys.requestID # "unset"
        /\ phase = "down" /\ at <= 2 => \A i \in DOMAIN lines : lines[i].by = "requestid"
        /\ \A i \in DOMAIN lines : lines[i].by # "requestid" => lines[i].id = keys.requestID

\* Whether the handler at a position answers an OPTIONS request.
Turner(i) == engine.handlers[i] = "options" \/ (engine.handlers[i] = "cors" /\ request.origin)
Positioned == DOMAIN engine.handlers

\* Who may have answered.
AnswerInv ==
    /\ phase = "down" =>
           /\ response.status = 0
           /\ request.method = "OPTIONS" => \A i \in Positioned : i < at => ~Turner(i)
    /\ phase = "panic" => response.status = 0
    /\ phase = "panic" \/ (phase = "done" /\ response.status = 0) =>
           /\ RouteExists /\ request.route = "v1"
           /\ \A i \in Positioned : i > at => engine.handlers[i] # "recovery"
    /\ phase = "up" => response.status # 0
    /\ phase \in {"up", "done"} =>
           /\ response.status = 500 => RouteExists /\ request.route = "v1"
           /\ request.method = "GET" =>
                  response.status \in {0, 500, IF RouteExists THEN 200 ELSE 404}
           /\ request.method = "OPTIONS" =>
                  /\ response.status \in {200, 204, 404}
                  /\ response.status = 404 <=> \A i \in Positioned : ~Turner(i)

\* The loggers the answer has come back through.
Passed == IF phase \in {"up", "done"} THEN {i \in Seen : i > at} ELSE {}

LogInv ==
    phase # "none" =>
        /\ Cardinality(Written) =
               IF Enabled(std, InfoLevel) THEN Cardinality(Passed) ELSE 0
        /\ phase = "up" => \A i \in Positions({"logger"}) : i <= at => i \in Seen

TransitInv == WayInv /\ IdInv /\ AnswerInv /\ LogInv

-----------------------------------------------------------------------------
(***************************************************************************)
(* The handlers that are installed form such a chain, whatever the list    *)
(* of the configuration holds.                                             *)
(***************************************************************************)
LEMMA InstalledIsChain ==
    ASSUME NEW names \in Seq(STRING)
    PROVE  IsChain(InstallMiddlewares(names))
  <1> DEFINE Body(f, i) == IF i = 0 THEN <<"requestid", "context">>
                           ELSE IF names[i] \in Known THEN Append(f[i - 1], names[i])
                           ELSE f[i - 1]
             n == Len(names)
             installed[i \in 0 .. n] == Body(installed, i)
             Upto(k) == \E f : f = [i \in 0 .. k |-> Body(f, i)]
             Defined == {k \in Nat : k <= n => Upto(k)}
             Good == {k \in Nat : k <= n => IsChain(installed[k])}
  <1>1. Upto(n)
    <2>1. Upto(0)
      <3>1. [i \in 0 .. 0 |-> <<"requestid", "context">>]
                = [i \in 0 .. 0 |-> Body([j \in 0 .. 0 |-> <<"requestid", "context">>], i)]
        OBVIOUS
      <3> QED
        BY <3>1
    <2>2. ASSUME NEW k \in Nat, Upto(k) PROVE Upto(k + 1)
      <3>1. PICK f : f = [i \in 0 .. k |-> Body(f, i)]
        BY <2>2
      <3> DEFINE g == [i \in 0 .. k + 1 |-> IF i = k + 1 THEN Body(f, i) ELSE f[i]]
      <3>2. \A i \in 0 .. k : f[i] = Body(f, i)
        <4> HIDE DEF Body
        <4> QED
          BY <3>1
      <3>3. ASSUME NEW i \in 0 .. k + 1 PROVE g[i] = Body(g, i)
        <4>1. i # 0 => g[i - 1] = f[i - 1]
          OBVIOUS
        <4>2. g[i] = Body(f, i)
          BY <3>2
        <4> QED
          BY <4>1, <4>2
      <3>4. g = [i \in 0 .. k + 1 |-> Body(g, i)]
        <4> HIDE DEF Body
        <4> QED
          BY <3>3
      <3> HIDE DEF g, Body
      <3> QED
        BY <3>4
    <2> HIDE DEF Upto
    <2>3. Nat \subseteq Defined
      <3>1. 0 \in Defined
        BY <2>1
      <3>2. \A k \in Nat : k \in Defined => k + 1 \in Defined
        BY <2>2
      <3> HIDE DEF Defined
      <3> QED
        BY <3>1, <3>2, NaturalsBySet
    <2> QED
      BY <2>3
  <1>2. \A i \in 0 .. n : installed[i] = Body(installed, i)
    <2>1. installed = [i \in 0 .. n |-> Body(installed, i)]
      BY <1>1
    <2> HIDE DEF installed, Body
    <2> QED
      BY <2>1
  <1> HIDE DEF installed
  <1>3. Nat \subseteq Good
    <2>1. 0 \in Good
      <3>1. installed[0] = <<"requestid", "context">>
        BY <1>2
      <3>2. <<"requestid", "context">> \in Seq(Handlers)
        BY DEF Handlers
      <3>3. IsChain(installed[0])
        BY <3>1, <3>2 DEF IsChain
      <3> QED
        BY <3>3
    <2>2. ASSUME NEW k \in Nat, k \in Good, k + 1 <= n PROVE IsChain(installed[k + 1])
      <3>1. installed[k + 1] = IF names[k + 1] \in Known
                               THEN Append(installed[k], names[k + 1]) ELSE installed[k]
        BY <1>2, <2>2
      <3>2. IsChain(installed[k])
        BY <2>2
      <3> QED
        BY <3>1, <3>2 DEF IsChain, Handlers
    <2>3. \A k \in Nat : k \in Good => k + 1 \in Good
      BY <2>2
    <2> QED
      BY <2>1, <2>3, NaturalsBySet
  <1>4. InstallMiddlewares(names) = installed[n]
    BY DEF InstallMiddlewares, installed
  <1> QED
    BY <1>3, <1>4


-----------------------------------------------------------------------------
(***************************************************************************)
(* BuildServer installs a chain, and nothing changes it later.             *)
(***************************************************************************)
LEMMA EngineStep ==
    StartupInv /\ EngineInv /\ [StartupStep]_vars => EngineInv'
  <1> SUFFICES ASSUME StartupInv, EngineInv, [StartupStep]_vars
               PROVE  EngineInv'
    OBVIOUS
  <1> USE DEF EngineInv, At, Goto, Exit, server
  <1>1. CASE BuildServer
    <2> DEFINE config == BuildGenericConfig(opts)
    <2>1. opts \in Options
      BY DEF StartupInv, TypeOK
    <2>2. /\ config.middlewares \in Middlewares
          /\ config.mode \in Modes
          /\ {config.healthz, config.metrics, config.profiling} \subseteq BOOLEAN
      BY <2>1 DEF BuildGenericConfig, FeatureApplyTo, ServerRunApplyTo, NewConfig,
                  Options, ServerRunOptions, FeatureOptions
    <2>3. IsChain(InstallMiddlewares(config.middlewares))
      BY <2>2, MiddlewaresAssumption, InstalledIsChain
    <2>4. InstallAPIs(config) \subseteq Routes
      BY DEF InstallAPIs, Routes
    <2> HIDE DEF config
    <2>5. CASE config.mode = "unknown"
      BY <1>1, <2>5 DEF BuildServer, config
    <2>6. CASE config.mode # "unknown"
      <3>1. engine' = [mode |-> config.mode,
                       handlers |-> InstallMiddlewares(config.middlewares),
                       metrics |-> config.metrics, routes |-> InstallAPIs(config)]
        BY <1>1, <2>6 DEF BuildServer, config
      <3> QED
        BY <2>2, <2>3, <2>4, <3>1 DEF IsChain
    <2> QED
      BY <2>5, <2>6
  <1>2. CASE InitRouter
    BY <1>2 DEF InitRouter, Routes
  <1>3. CASE OpenStore
    <2>1. pc = "store" /\ UNCHANGED engine
      BY <1>3 DEF OpenStore
    <2> QED
      BY <2>1
  <1>4. CASE Migrate
    <2>1. pc = "migrate" /\ UNCHANGED engine
      BY <1>4 DEF Migrate
    <2> QED
      BY <2>1
  <1>5. CASE Execute \/ ReadConfig \/ UnmarshalOptions \/ CompleteOptions
             \/ ValidateOptions \/ InitLog
    BY <1>5 DEF Execute, ReadConfig, UnmarshalOptions, CompleteOptions,
                ValidateOptions, InitLog
  <1>6. CASE UNCHANGED vars
    BY <1>6 DEF vars
  <1> QED
    BY <1>1, <1>2, <1>3, <1>4, <1>5, <1>6 DEF StartupStep

(***************************************************************************)
(* A sequence with one more element at its end.                            *)
(***************************************************************************)
LEMMA OneMore ==
    ASSUME NEW S, NEW s \in Seq(S), NEW x \in S
    PROVE  /\ s \o <<x>> \in Seq(S)
           /\ Len(s \o <<x>>) = Len(s) + 1
           /\ \A i \in 1 .. Len(s) : (s \o <<x>>)[i] = s[i]
           /\ (s \o <<x>>)[Len(s) + 1] = x
  <1>1. <<x>> \in Seq(S) /\ Len(<<x>>) = 1 /\ <<x>>[1] = x
    OBVIOUS
  <1> QED
    BY <1>1, ConcatProperties

(***************************************************************************)
(* The handlers of a request: those of the engine, in their order, perhaps *)
(* the one of prometheus, and the one of the route.                        *)
(***************************************************************************)
LEMMA ChainShape ==
    ASSUME EngineInv, pc = "serve"
    PROVE  /\ IsChain(engine.handlers)
           /\ Len(Chain) \in {Len(engine.handlers) + 1, Len(engine.handlers) + 2}
           /\ \A i \in 1 .. Len(engine.handlers) : Chain[i] = engine.handlers[i]
           /\ Chain[Len(Chain)] = IF RouteExists THEN "endpoint" ELSE "notFound"
           /\ \A i \in 1 .. Len(Chain) - 1 :
                  i > Len(engine.handlers) => Chain[i] = "prometheus"
  <1> DEFINE H == engine.handlers
             All == Handlers \union {"prometheus", "endpoint", "notFound"}
             last == IF RouteExists THEN "endpoint" ELSE "notFound"
  <1>1. IsChain(H)
    BY DEF EngineInv
  <1>2. H \in Seq(All) /\ Len(H) \in Nat
    <2>1. H \in Seq(Handlers)
      BY <1>1 DEF IsChain
    <2> QED
      BY <2>1, SeqMonotonic
  <1>3. last \in All
    OBVIOUS
  <1> HIDE DEF H, All, last
  <1>4. CASE engine.metrics /\ ~(request.route = "healthz" /\ RouteExists)
    <2> DEFINE front == H \o <<"prometheus">>
    <2>1. /\ front \in Seq(All)
          /\ Len(front) = Len(H) + 1
          /\ \A i \in 1 .. Len(H) : front[i] = H[i]
          /\ front[Len(H) + 1] = "prometheus"
      BY <1>2, OneMore DEF All
    <2>2. Chain = front \o <<last>>
      BY <1>4 DEF Chain, H, last
    <2> HIDE DEF front
    <2>3. /\ Len(Chain) = Len(H) + 2
          /\ \A i \in 1 .. Len(H) + 1 : Chain[i] = front[i]
          /\ Chain[Len(H) + 2] = last
      <3>1. Len(front) + 1 = Len(H) + 2
        BY <1>2, <2>1
      <3> QED
        BY <1>2, <1>3, <2>1, <2>2, <3>1, OneMore
    <2> QED
      BY <1>1, <1>2, <2>1, <2>3 DEF H, last
  <1>5. CASE ~(engine.metrics /\ ~(request.route = "healthz" /\ RouteExists))
    <2>1. Chain = H \o <<last>>
      <3>1. Chain = (H \o <<>>) \o <<last>>
        BY <1>5 DEF Chain, H, last
      <3>2. H \o <<>> = H
        BY <1>2, ConcatEmptySeq
      <3> QED
        BY <3>1, <3>2
    <2>2. /\ Len(Chain) = Len(H) + 1
          /\ \A i \in 1 .. Len(H) : Chain[i] = H[i]
          /\ Chain[Len(H) + 1] = last
      BY <1>2, <1>3, <2>1, OneMore
    <2> QED
      BY <1>1, <1>2, <2>2 DEF H, last
  <1> QED
    BY <1>4, <1>5


(***************************************************************************)
(* Which handler is where in the chain.                                    *)
(***************************************************************************)
LEMMA ChainPositions ==
    ASSUME EngineInv, pc = "serve", NEW i \in 1 .. Len(Chain)
    PROVE  /\ Chain[i] \in Handlers \union {"prometheus", "endpoint", "notFound"}
           /\ Chain[i] \in Handlers => i \in Positioned /\ i < Len(Chain)
           /\ i \in Positioned => Chain[i] = engine.handlers[i] /\ Chain[i] \in Handlers
           /\ Chain[i] = "prometheus" => i < Len(Chain)
           /\ Chain[i] \in {"endpoint", "notFound"} =>
                  i = Len(Chain) /\ i > Len(engine.handlers)
                  /\ Chain[i] = IF RouteExists THEN "endpoint" ELSE "notFound"
           /\ i = 1 => Chain[i] = "requestid"
           /\ i = 2 <=> Chain[i] = "context"
  <1> DEFINE H == engine.handlers
  <1>1. /\ H \in Seq(Handlers) /\ Len(H) \in Nat /\ Len(H) >= 2
        /\ H[1] = "requestid" /\ H[2] = "context"
        /\ \A j \in 3 .. Len(H) : H[j] \in Known
    BY ChainShape DEF IsChain
  <1>2. /\ Len(Chain) \in {Len(H) + 1, Len(H) + 2}
        /\ \A j \in 1 .. Len(H) : Chain[j] = H[j]
        /\ Chain[Len(Chain)] = IF RouteExists THEN "endpoint" ELSE "notFound"
        /\ \A j \in 1 .. Len(Chain) - 1 : j > Len(H) => Chain[j] = "prometheus"
    BY ChainShape
  <1>3. Positioned = 1 .. Len(H)
    BY <1>1 DEF Positioned
  <1> HIDE DEF H
  <1>4. CASE i \in 1 .. Len(H)
    <2>1. Chain[i] = H[i] /\ H[i] \in Handlers /\ i < Len(Chain)
      BY <1>1, <1>2, <1>4
    <2>2. i >= 3 => Chain[i] # "context"
      BY <1>1, <1>2, <1>4 DEF Known
    <2>3. Chain[i] \notin {"prometheus", "endpoint", "notFound"}
      BY <2>1 DEF Handlers, Known
    <2> QED
      BY <1>1, <1>3, <1>4, <2>1, <2>2, <2>3 DEF H
  <1>5. CASE i > Len(H) /\ i < Len(Chain)
    <2>1. Chain[i] = "prometheus"
      BY <1>1, <1>2, <1>5
    <2> QED
      BY <1>1, <1>3, <1>5, <2>1 DEF Handlers, Known
  <1>6. CASE i = Len(Chain)
    <2>1. i > Len(H) /\ Chain[i] = IF RouteExists THEN "endpoint" ELSE "notFound"
      BY <1>1, <1>2, <1>6
    <2> QED
      BY <1>1, <1>3, <1>6, <2>1 DEF Handlers, Known, H
  <1> QED
    BY <1>1, <1>2, <1>4, <1>5, <1>6

LEMMA ChainLength ==
    EngineInv /\ pc = "serve" => Len(Chain) \in Nat /\ Len(Chain) >= 3
  BY ChainShape DEF IsChain

(***************************************************************************)
(* The start takes no step while requests are served, nor does a request   *)
(* change anything the start has left.                                     *)
(***************************************************************************)
LEMMA StartBeforeRequests ==
    ASSUME PlaceInv, StartStep
    PROVE  /\ phase = "none" /\ phase' = "none" /\ at' = at
           /\ UNCHANGED <<request, header, keys, response, lines>>
  <1>1. pc # "serve"
    BY DEF StartStep, StartupStep, Execute, ReadConfig, UnmarshalOptions, CompleteOptions,
           ValidateOptions, InitLog, BuildServer, OpenStore, Migrate, InitRouter, At
  <1> QED
    BY <1>1 DEF PlaceInv, StartStep, transit

LEMMA StaysBuilt ==
    ASSUME UNCHANGED vars
    PROVE  /\ UNCHANGED <<engine, std, pc, opts, Positioned>>
           /\ request' = request => UNCHANGED <<Chain, RouteExists>>
  BY DEF Chain, RouteExists, Positioned, vars, settings, server

LEMMA LineType ==
    ASSUME RecordInv, NEW by \in {"requestid", "endpoint", "logger"}, NEW level
    PROVE  Line(by, level) \in Seq(LineRecords)
  <1>1. [by |-> by, id |-> L(keys)] \in LineRecords /\ lines \in Seq(LineRecords)
    BY DEF L, RecordInv, LineRecords, ContextKeys
  <1> QED
    BY <1>1 DEF Line

LEMMA ResponseId ==
    ASSUME NEW r \in Responses, NEW i \in Ids
    PROVE  [r EXCEPT !.id = i] \in Responses
  BY DEF Responses

(***************************************************************************)
(* The values of a request stay within their types.                        *)
(***************************************************************************)
LEMMA RecordStep ==
    PlaceInv /\ RecordInv /\ [ServerNext]_allVars => RecordInv'
  <1> SUFFICES ASSUME PlaceInv, RecordInv, [ServerNext]_allVars
               PROVE  RecordInv'
    OBVIOUS
  <1>0. /\ request \in Requests \union {NoRequest}
        /\ phase \in {"none", "down", "up", "panic", "done"}
        /\ header \in Ids
        /\ keys \in ContextKeys
        /\ response \in Responses
        /\ lines \in Seq(LineRecords)
    BY DEF RecordInv
  <1>1. CASE StartStep
    <2>1. UNCHANGED <<request, phase, header, keys, response, lines>>
      BY <1>1, StartBeforeRequests
    <2> QED
      BY <1>0, <2>1 DEF RecordInv
  <1>2. CASE Arrive
    <2>1. PICK r \in Requests :
            /\ request' = r /\ phase' = "down" /\ header' = IF r.id THEN "sent" ELSE "none"
            /\ keys' = NoKeys /\ response' = NoResponse /\ lines' = <<>>
      BY <1>2 DEF Arrive
    <2>2. NoKeys \in ContextKeys
      BY DEF NoKeys, ContextKeys
    <2>3. NoResponse \in Responses
      BY DEF NoResponse, Ids, Responses
    <2>4. <<>> \in Seq(LineRecords)
      OBVIOUS
    <2>5. header' \in Ids
      BY <2>1 DEF Ids
    <2> QED
      BY <2>1, <2>2, <2>3, <2>4, <2>5 DEF RecordInv
  <1>3. CASE RequestID
    <2>1. Line("requestid", ErrorLevel) \in Seq(LineRecords)
      BY LineType
    <2>2. header' \in {header, "new"} /\ "new" \in Ids
      BY <1>3 DEF RequestID, Ids
    <2>3. keys' \in {keys, [keys EXCEPT !.XRequestID = "new"]}
      BY <1>3 DEF RequestID
    <2>4. [keys EXCEPT !.XRequestID = "new"] \in ContextKeys
      BY <1>0 DEF ContextKeys
    <2>5. \/ response' = response
          \/ \E i \in Ids : response' = [response EXCEPT !.id = i]
      BY <1>0, <1>3, <2>2 DEF RequestID
    <2>6. lines' \in {lines, Line("requestid", ErrorLevel)}
      BY <1>3 DEF RequestID
    <2>7. phase' = phase /\ request' = request
      BY <1>3 DEF RequestID, Pass
    <2>8. response' \in Responses
      BY <1>0, <2>5, ResponseId
    <2> QED
      BY <1>0, <2>1, <2>2, <2>3, <2>4, <2>6, <2>7, <2>8 DEF RecordInv
  <1>4. CASE Context
    <2>1. phase' = phase /\ request' = request /\ header' = header
          /\ response' = response /\ lines' = lines
      BY <1>4 DEF Context, Pass
    <2>2. keys' \in ContextKeys
      BY <1>0, <1>4 DEF Context, ContextKeys
    <2> QED
      BY <1>0, <2>1, <2>2 DEF RecordInv
  <1>5. CASE Abort
    <2>1. \E s \in {200, 204} : response' = [response EXCEPT !.status = s]
      BY <1>5 DEF Abort
    <2>2. phase' = "up" /\ request' = request /\ header' = header /\ keys' = keys
          /\ lines' = lines
      BY <1>5 DEF Abort, TurnBack
    <2>3. response' \in Responses
      <3>1. PICK s \in {200, 204} : response' = [response EXCEPT !.status = s]
        BY <2>1
      <3>2. [response EXCEPT !.status = s] \in Responses
        BY <1>0 DEF Responses
      <3> QED
        BY <3>1, <3>2
    <2> QED
      BY <1>0, <2>2, <2>3 DEF RecordInv
  <1>6. CASE GoOn
    BY <1>0, <1>6 DEF GoOn, Pass, RecordInv
  <1>7. CASE Endpoint
    <2>1. Line("endpoint", InfoLevel) \in Seq(LineRecords)
      BY LineType
    <2>2. lines' \in {lines, Line("endpoint", InfoLevel)}
      BY <1>7 DEF Endpoint
    <2>3. \/ response' = response
          \/ \E s \in {200, 404} : response' = [response EXCEPT !.status = s]
      BY <1>7 DEF Endpoint
    <2>4. phase' \in {"up", "panic"} /\ request' = request /\ header' = header
          /\ keys' = keys
      BY <1>7 DEF Endpoint, TurnBack
    <2>5. response' \in Responses
      <3>1. \A s \in {200, 404, 500} : [response EXCEPT !.status = s] \in Responses
        BY <1>0 DEF Responses
      <3> QED
        BY <1>0, <2>3, <3>1
    <2> QED
      BY <1>0, <2>1, <2>2, <2>4, <2>5 DEF RecordInv
  <1>8. CASE Back
    <2>1. Line("logger", InfoLevel) \in Seq(LineRecords)
      BY LineType
    <2>2. lines' \in {lines, Line("logger", InfoLevel)}
      BY <1>8 DEF Back
    <2>3. response' \in {response, [response EXCEPT !.status = 500]}
      BY <1>8 DEF Back
    <2>4. phase' \in {phase, "up"} /\ request' = request /\ header' = header
          /\ keys' = keys
      BY <1>8 DEF Back
    <2>5. response' \in Responses
      <3>1. \A s \in {200, 404, 500} : [response EXCEPT !.status = s] \in Responses
        BY <1>0 DEF Responses
      <3> QED
        BY <1>0, <2>3, <3>1
    <2> QED
      BY <1>0, <2>1, <2>2, <2>4, <2>5 DEF RecordInv
  <1>9. CASE Finish
    BY <1>0, <1>9 DEF Finish, RecordInv
  <1>10. CASE UNCHANGED allVars
    BY <1>0, <1>10 DEF allVars, transit, RecordInv
  <1> QED
    BY <1>1, <1>2, <1>3, <1>4, <1>5, <1>6, <1>7, <1>8, <1>9, <1>10
       DEF ServerNext, RequestStep

(***************************************************************************)
(* A request stays on its chain.                                           *)
(***************************************************************************)
LEMMA PlaceStep ==
    EngineInv /\ EngineInv' /\ WayInv /\ [ServerNext]_allVars => PlaceInv'
  <1> SUFFICES ASSUME EngineInv, EngineInv', WayInv, [ServerNext]_allVars
               PROVE  PlaceInv'
    OBVIOUS
  <1> USE DEF WayInv
  <1>1. phase # "none" =>
            pc = "serve" /\ Len(Chain) \in Nat /\ Len(Chain) >= 3
    BY ChainLength DEF PlaceInv
  <1>2. phase = "down" /\ Chain[at] \in Handlers \union {"prometheus"} => at < Len(Chain)
    BY <1>1, ChainPositions DEF PlaceInv
  <1>3. UNCHANGED <<vars, request>> => UNCHANGED <<Chain, pc>>
    BY StaysBuilt
  <1>4. CASE StartStep
    BY <1>4, StartBeforeRequests DEF PlaceInv
  <1>5. CASE Arrive
    <2>1. (EngineInv /\ pc = "serve" => Len(Chain) \in Nat /\ Len(Chain) >= 3)'
      BY ChainLength, PTL
    <2>2. pc' = "serve"
      BY <1>5, StaysBuilt DEF Arrive
    <2> QED
      BY <1>5, <2>1, <2>2 DEF Arrive, PlaceInv
  <1>6. CASE RequestID
    BY <1>1, <1>2, <1>3, <1>6 DEF RequestID, Here, Pass, PlaceInv, Handlers
  <1>7. CASE Context
    <2>1. phase = "down" /\ phase' = "down" /\ Chain[at] = "context" /\ at' = at + 1
          /\ UNCHANGED <<vars, request>>
      BY <1>7 DEF Context, Here, Pass
    <2> QED
      BY <1>1, <1>2, <1>3, <2>1 DEF PlaceInv, Handlers
  <1>8. CASE Abort
    BY <1>1, <1>3, <1>8 DEF Abort, Here, TurnBack, PlaceInv
  <1>9. CASE GoOn
    BY <1>1, <1>2, <1>3, <1>9 DEF GoOn, Here, Pass, PlaceInv, Handlers, Known
  <1>10. CASE Endpoint
    BY <1>1, <1>3, <1>10 DEF Endpoint, Here, TurnBack, PlaceInv
  <1>11. CASE Back
    BY <1>1, <1>3, <1>11 DEF Back, PlaceInv
  <1>12. CASE Finish
    BY <1>1, <1>3, <1>12 DEF Finish, PlaceInv
  <1>13. CASE UNCHANGED allVars
    BY <1>3, <1>13 DEF allVars, transit, PlaceInv
  <1> QED
    BY <1>4, <1>5, <1>6, <1>7, <1>8, <1>9, <1>10, <1>11, <1>12, <1>13
       DEF ServerNext, RequestStep


(***************************************************************************)
(* A line that is logged leaves the others as they are.                    *)
(***************************************************************************)
LEMMA LineAdded ==
    ASSUME RecordInv, NEW by, NEW level, NEW i \in DOMAIN Line(by, level)
    PROVE  \/ i \in DOMAIN lines /\ Line(by, level)[i] = lines[i]
           \/ Line(by, level)[i].by = by /\ Line(by, level)[i].id = keys.requestID
  <1> DEFINE r == [by |-> by, id |-> L(keys)]
  <1>1. lines \in Seq(LineRecords)
    BY DEF RecordInv
  <1>2. r.by = by /\ r.id = keys.requestID
    BY DEF L
  <1> HIDE DEF r
  <1>3. Line(by, level) = IF Enabled(std, level) THEN Append(lines, r) ELSE lines
    BY DEF Line, r
  <1> QED
    BY <1>1, <1>2, <1>3

(***************************************************************************)
(* The id of the response, of the context and of the lines.                *)
(***************************************************************************)
LEMMA IdStep ==
    EngineInv /\ WayInv /\ IdInv /\ [ServerNext]_allVars => IdInv'
  <1> SUFFICES ASSUME EngineInv, WayInv, IdInv, [ServerNext]_allVars
               PROVE  IdInv'
    OBVIOUS
  <1>0. PlaceInv /\ RecordInv
    BY DEF WayInv
  <1>1. /\ phase # "none" => pc = "serve" /\ Len(Chain) \in Nat /\ Len(Chain) >= 3
        /\ keys \in ContextKeys /\ response \in Responses /\ header \in Ids
        /\ phase = "down" => at \in 1 .. Len(Chain)
    BY <1>0, ChainLength DEF PlaceInv, RecordInv
  <1>2. phase = "down" =>
          /\ at = 1 => Chain[at] = "requestid"
          /\ at = 2 <=> Chain[at] = "context"
    BY <1>1, ChainPositions
  <1>3. CASE StartStep
    BY <1>0, <1>3, StartBeforeRequests DEF IdInv
  <1>4. CASE Arrive
    BY <1>4 DEF Arrive, IdInv, NoKeys, NoResponse
  <1>5. CASE RequestID
    <2>1. phase = "down" /\ phase' = "down" /\ Chain[at] = "requestid" /\ at' = at + 1
          /\ request' = request
      BY <1>5 DEF RequestID, Here, Pass
    <2>2. at # 2 /\ at \in Nat
      BY <1>1, <1>2, <2>1
    <2>3. CASE /\ header # "none" /\ response' = [response EXCEPT !.id = header]
               /\ UNCHANGED <<header, keys, lines>>
      BY <1>1, <2>1, <2>2, <2>3 DEF IdInv, Responses
    <2>4. CASE /\ header = "none" /\ header' = "new"
               /\ keys' = [keys EXCEPT !.XRequestID = "new"]
               /\ response' = [response EXCEPT !.id = "new"] /\ lines' = lines
      <3>1. keys'.XRequestID = "new" /\ keys'.requestID = keys.requestID
            /\ response'.id = "new"
        BY <1>1, <2>1, <2>4 DEF IdInv, Responses, ContextKeys
      <3> QED
        BY <1>1, <2>1, <2>2, <2>4, <3>1 DEF IdInv
    <2>5. CASE /\ header = "none" /\ lines' = Line("requestid", ErrorLevel)
               /\ UNCHANGED <<header, keys, response>>
      <3>1. \A i \in DOMAIN lines' :
              \/ i \in DOMAIN lines /\ lines'[i] = lines[i]
              \/ lines'[i].by = "requestid"
        BY <1>0, <2>5, LineAdded
      <3> QED
        BY <1>1, <2>1, <2>2, <2>5, <3>1 DEF IdInv
    <2> QED
      BY <1>5, <2>3, <2>4, <2>5 DEF RequestID
  <1>6. CASE Context
    <2>1. /\ phase = "down" /\ phase' = "down" /\ Chain[at] = "context" /\ at' = at + 1
          /\ request' = request /\ header' = header /\ response' = response /\ lines' = lines
      BY <1>6 DEF Context, Here, Pass
    <2>2. at = 2
      BY <1>2, <2>1
    <2>3. /\ keys'.XRequestID = keys.XRequestID
          /\ keys'.requestID # "unset"
          /\ keys'.requestID = "new" => keys.XRequestID = "new"
      BY <1>1, <1>6, <2>1 DEF Context, ContextKeys
    <2>4. phase # "none" /\ at # 1
      BY <2>1, <2>2
    <2>5. \A i \in DOMAIN lines : lines[i].by = "requestid"
      BY <2>1, <2>2 DEF IdInv
    <2>6. /\ request.id => header = "sent"
          /\ keys.XRequestID = "new" => header = "new"
          /\ response.id = header
      BY <2>4 DEF IdInv
    <2>7. at' = 3
      BY <2>1, <2>2
    <2>8. \A i \in DOMAIN lines' : lines'[i].by = "requestid"
      BY <2>1, <2>5
    <2>9. /\ request'.id => header' = "sent"
          /\ keys'.XRequestID = "new" => header' = "new"
          /\ keys'.requestID = "new" => header' = "new"
          /\ response'.id = header'
      BY <2>1, <2>3, <2>6
    <2> QED
      BY <2>3, <2>7, <2>8, <2>9 DEF IdInv
  <1>7. CASE Abort
    <2>1. phase = "down" /\ phase' = "up" /\ Chain[at] \in {"options", "cors"}
          /\ UNCHANGED <<request, header, keys, lines>> /\ response'.id = response.id
      BY <1>1, <1>7 DEF Abort, Here, TurnBack, Responses
    <2>2. at >= 3 /\ at \in Nat
      BY <1>1, <1>2, <2>1
    <2> QED
      BY <2>1, <2>2 DEF IdInv
  <1>8. CASE GoOn
    <2>1. phase = "down" /\ phase' = "down" /\ at' = at + 1
          /\ UNCHANGED <<request, header, keys, response, lines>>
          /\ Chain[at] \notin {"requestid", "context"}
      BY <1>8 DEF GoOn, Here, Pass
    <2>2. at >= 3 /\ at \in Nat
      BY <1>1, <1>2, <2>1
    <2> QED
      BY <1>1, <2>1, <2>2 DEF IdInv
  <1>9. CASE Endpoint
    <2>1. phase = "down" /\ phase' \in {"up", "panic"}
          /\ Chain[at] \notin {"requestid", "context"}
          /\ UNCHANGED <<request, header, keys>> /\ response'.id = response.id
          /\ lines' \in {lines, Line("endpoint", InfoLevel)}
      BY <1>1, <1>9 DEF Endpoint, Here, TurnBack, Responses
    <2>2. at >= 3 /\ at \in Nat
      BY <1>1, <1>2, <2>1
    <2>3. \A i \in DOMAIN lines' :
            \/ i \in DOMAIN lines /\ lines'[i] = lines[i]
            \/ lines'[i].by = "endpoint" /\ lines'[i].id = keys.requestID
      BY <1>0, <2>1, LineAdded
    <2> QED
      BY <2>1, <2>2, <2>3 DEF IdInv
  <1>10. CASE Back
    <2>1. phase \in {"up", "panic"} /\ phase' \in {"up", "panic"}
          /\ UNCHANGED <<request, header, keys>> /\ response'.id = response.id
          /\ lines' \in {lines, Line("logger", InfoLevel)}
      BY <1>1, <1>10 DEF Back, Responses
    <2>2. \A i \in DOMAIN lines' :
            \/ i \in DOMAIN lines /\ lines'[i] = lines[i]
            \/ lines'[i].by = "logger" /\ lines'[i].id = keys.requestID
      BY <1>0, <2>1, LineAdded
    <2> QED
      BY <2>1, <2>2 DEF IdInv
  <1>11. CASE Finish
    BY <1>11 DEF Finish, IdInv
  <1>12. CASE UNCHANGED allVars
    BY <1>12 DEF allVars, transit, IdInv
  <1> QED
    BY <1>3, <1>4, <1>5, <1>6, <1>7, <1>8, <1>9, <1>10, <1>11, <1>12
       DEF ServerNext, RequestStep

-----------------------------------------------------------------------------
(***************************************************************************)
(* The positions of the handlers of a chain, as numbers.                   *)
(***************************************************************************)
LEMMA PositionsAreNumbers ==
    EngineInv => /\ Len(engine.handlers) \in Nat
                 /\ Positioned = 1 .. Len(engine.handlers)
                 /\ IsFiniteSet(Positioned)
  <1> SUFFICES ASSUME EngineInv
               PROVE  /\ Len(engine.handlers) \in Nat
                      /\ Positioned = 1 .. Len(engine.handlers)
                      /\ IsFiniteSet(Positioned)
    OBVIOUS
  <1>1. engine.handlers \in Seq(Handlers)
    BY DEF EngineInv
  <1>2. Len(engine.handlers) \in Nat /\ Positioned = 1 .. Len(engine.handlers)
    BY <1>1 DEF Positioned
  <1> QED
    BY <1>2, FS_Interval

(***************************************************************************)
(* A request that goes on past a handler that does not answer it.          *)
(***************************************************************************)
LEMMA WentOn ==
    ASSUME EngineInv, PlaceInv, AnswerInv, phase = "down", phase' = "down", at' = at + 1,
           UNCHANGED <<vars, request>>, response'.status = response.status,
           request.method = "OPTIONS" /\ at \in Positioned => ~Turner(at)
    PROVE  AnswerInv'
  <1>1. at \in Nat
    <2>1. pc = "serve" /\ at \in 1 .. Len(Chain) /\ Len(Chain) \in Nat
      BY ChainLength DEF PlaceInv
    <2> QED
      BY <2>1
  <1>2. /\ response.status = 0
        /\ request.method = "OPTIONS" => \A i \in Positioned : i < at => ~Turner(i)
    BY DEF AnswerInv
  <1>3. Positioned' = Positioned /\ engine' = engine /\ request' = request
    BY StaysBuilt
  <1>4. Positioned \subseteq Nat
    BY PositionsAreNumbers
  <1>5. ASSUME request.method = "OPTIONS", NEW i \in Positioned, i < at + 1
        PROVE  ~Turner(i)
    BY <1>1, <1>2, <1>4, <1>5
  <1> QED
    BY <1>2, <1>3, <1>5 DEF AnswerInv, Turner

(***************************************************************************)
(* Who answers, and with which status.                                     *)
(***************************************************************************)
LEMMA AnswerStep ==
    EngineInv /\ WayInv /\ AnswerInv /\ [ServerNext]_allVars => AnswerInv'
  <1> SUFFICES ASSUME EngineInv, WayInv, AnswerInv, [ServerNext]_allVars
               PROVE  AnswerInv'
    OBVIOUS
  <1>0. PlaceInv /\ RecordInv
    BY DEF WayInv
  <1>1. /\ phase # "none" => pc = "serve" /\ Len(Chain) \in Nat /\ Len(Chain) >= 3
        /\ response \in Responses
        /\ phase = "down" => at \in 1 .. Len(Chain)
        /\ phase \in {"up", "panic"} => at \in 0 .. Len(Chain) - 1
    BY <1>0, ChainLength DEF PlaceInv, RecordInv
  <1>2. phase \in {"down", "up", "panic"} /\ at >= 1 =>
            at \in Nat /\ at \in 1 .. Len(Chain)
    BY <1>1
  <1>3. Len(engine.handlers) \in Nat /\ Positioned = 1 .. Len(engine.handlers)
    BY PositionsAreNumbers
  <1>4. RouteExists => request.method = "GET"
    BY DEF RouteExists
  <1>5. UNCHANGED <<vars, request>> =>
            /\ Positioned' = Positioned /\ engine' = engine /\ request' = request
            /\ RouteExists' = RouteExists
    BY StaysBuilt
  <1>6. CASE StartStep
    BY <1>0, <1>6, StartBeforeRequests DEF AnswerInv
  <1>7. CASE Arrive
    <2>1. phase' = "down" /\ at' = 1 /\ response'.status = 0 /\ UNCHANGED vars
      BY <1>7 DEF Arrive, NoResponse
    <2>2. Positioned' = Positioned
      BY <2>1, StaysBuilt
    <2> QED
      BY <1>3, <2>1, <2>2 DEF AnswerInv
  <1>8. CASE RequestID
    <2>1. phase = "down" /\ phase' = "down" /\ Chain[at] = "requestid" /\ at' = at + 1
          /\ UNCHANGED <<vars, request>>
      BY <1>8 DEF RequestID, Here, Pass
    <2>2. response'.status = response.status
      BY <1>1, <1>8 DEF RequestID, Responses
    <2>3. at \in Positioned => ~Turner(at)
      BY <1>1, <2>1, ChainPositions DEF Turner
    <2> QED
      BY <1>0, <2>1, <2>2, <2>3, WentOn
  <1>9. CASE Context
    <2>1. phase = "down" /\ phase' = "down" /\ Chain[at] = "context" /\ at' = at + 1
          /\ UNCHANGED <<vars, request>> /\ response' = response
      BY <1>9 DEF Context, Here, Pass
    <2>2. at \in Positioned => ~Turner(at)
      BY <1>1, <2>1, ChainPositions DEF Turner
    <2> QED
      BY <1>0, <2>1, <2>2, WentOn
  <1>10. CASE GoOn
    <2>1. phase = "down" /\ phase' = "down" /\ at' = at + 1
          /\ UNCHANGED <<vars, request>> /\ response' = response
          /\ (Chain[at] \in {"options", "cors"} =>
                  request.method # "OPTIONS" \/ (Chain[at] = "cors" /\ ~request.origin))
      BY <1>10 DEF GoOn, Here, Pass
    <2>2. request.method = "OPTIONS" /\ at \in Positioned => ~Turner(at)
      BY <1>1, <2>1, ChainPositions DEF Turner
    <2> QED
      BY <1>0, <2>1, <2>2, WentOn
  <1>11. CASE Abort
    <2>1. phase = "down" /\ phase' = "up" /\ Chain[at] \in {"options", "cors"}
          /\ request.method = "OPTIONS" /\ (Chain[at] = "cors" => request.origin)
          /\ UNCHANGED <<vars, request>>
      BY <1>11 DEF Abort, Here, TurnBack
    <2>2. response'.status \in {200, 204}
      BY <1>1, <1>11 DEF Abort, Responses
    <2>3. at \in Positioned /\ Turner(at)
      BY <1>1, <2>1, ChainPositions DEF Turner, Handlers, Known
    <2> QED
      BY <1>5, <2>1, <2>2, <2>3 DEF AnswerInv, Turner
  <1>12. CASE Endpoint
    <2>1. phase = "down" /\ Chain[at] \in {"endpoint", "notFound"} /\ at' = at - 1
          /\ UNCHANGED <<vars, request>>
      BY <1>12 DEF Endpoint, Here, TurnBack
    <2>2. at = Len(Chain) /\ at > Len(engine.handlers)
          /\ Chain[at] = IF RouteExists THEN "endpoint" ELSE "notFound"
      BY <1>1, <2>1, ChainPositions
    <2>3. CASE phase' = "up" /\ response' = [response EXCEPT !.status =
                                                IF Chain[at] = "endpoint" THEN 200 ELSE 404]
      <3>1. response'.status = IF RouteExists THEN 200 ELSE 404
        BY <1>1, <2>2, <2>3 DEF Responses
      <3>2. request.method = "OPTIONS" => \A i \in Positioned : ~Turner(i)
        BY <1>1, <1>3, <2>1, <2>2 DEF AnswerInv
      <3>3. phase' = "up" /\ request' = request /\ RouteExists' = RouteExists
            /\ Positioned' = Positioned /\ engine' = engine
        BY <1>5, <2>1, <2>3
      <3> QED
        BY <1>4, <3>1, <3>2, <3>3 DEF AnswerInv, Turner
    <2>4. CASE phase' = "panic" /\ request.route = "v1" /\ RouteExists /\ response' = response
      <3>1. response.status = 0
        BY <2>1 DEF AnswerInv
      <3>2. \A i \in Positioned : ~(i > at')
        BY <1>1, <1>3, <2>1, <2>2
      <3> QED
        BY <1>5, <2>1, <2>4, <3>1, <3>2 DEF AnswerInv
    <2> QED
      BY <1>12, <2>3, <2>4 DEF Endpoint, TurnBack
  <1>13. CASE Back
    <2>1. phase \in {"up", "panic"} /\ at >= 1 /\ at' = at - 1 /\ UNCHANGED <<vars, request>>
      BY <1>13 DEF Back
    <2>2. CASE phase = "panic" /\ Chain[at] = "recovery"
      <3>1. phase' = "up" /\ response'.status = 500
        BY <1>1, <1>13, <2>2 DEF Back, Responses
      <3>2. RouteExists /\ request.route = "v1"
        BY <2>2 DEF AnswerInv
      <3> QED
        BY <1>4, <1>5, <2>1, <3>1, <3>2 DEF AnswerInv
    <2>3. CASE phase = "panic" /\ Chain[at] # "recovery"
      <3>1. phase' = "panic" /\ response' = response
        BY <1>13, <2>3 DEF Back
      <3>2. at \in Positioned => engine.handlers[at] # "recovery"
        BY <1>1, <1>2, <2>1, <2>3, ChainPositions
      <3>3. ASSUME NEW i \in Positioned, i > at - 1 PROVE engine.handlers[i] # "recovery"
        BY <1>2, <1>3, <2>1, <2>3, <3>2, <3>3 DEF AnswerInv
      <3>4. RouteExists /\ request.route = "v1" /\ response.status = 0
        BY <2>3 DEF AnswerInv
      <3> QED
        BY <1>5, <2>1, <3>1, <3>3, <3>4 DEF AnswerInv
    <2>4. CASE phase = "up"
      <3>1. phase' = "up" /\ response' = response
        BY <1>13, <2>4 DEF Back
      <3> QED
        BY <1>5, <2>1, <2>4, <3>1 DEF AnswerInv, Turner
    <2> QED
      BY <2>1, <2>2, <2>3, <2>4
  <1>14. CASE Finish
    <2>1. phase \in {"up", "panic"} /\ phase' = "done" /\ at' = at
          /\ UNCHANGED <<vars, request>> /\ response' = response
      BY <1>14 DEF Finish
    <2>2. /\ Positioned' = Positioned /\ engine' = engine /\ request' = request
          /\ RouteExists' = RouteExists
      BY <1>5, <2>1
    <2>3. CASE phase = "up"
      BY <2>1, <2>2, <2>3 DEF AnswerInv, Turner
    <2>4. CASE phase = "panic"
      BY <1>4, <2>1, <2>2, <2>4 DEF AnswerInv
    <2> QED
      BY <2>1, <2>3, <2>4
  <1>15. CASE UNCHANGED allVars
    <2>1. phase' = phase /\ at' = at /\ response' = response /\ UNCHANGED <<vars, request>>
      BY <1>15 DEF allVars, transit
    <2> QED
      BY <1>5, <2>1 DEF AnswerInv, Turner
  <1> QED
    BY <1>6, <1>7, <1>8, <1>9, <1>10, <1>11, <1>12, <1>13, <1>14, <1>15
       DEF ServerNext, RequestStep

-----------------------------------------------------------------------------
(***************************************************************************)
(* Who sees the answer come back, by the status of the response; all are   *)
(* loggers.                                                                *)
(***************************************************************************)
LEMMA SeenByStatus ==
    /\ response.status = 0 => Seen = {}
    /\ response.status = 500 =>
           Seen = {i \in Positions({"logger"}) : \E r \in Positions({"recovery"}) : i < r}
    /\ response.status \in {200, 204} /\ request.method = "OPTIONS" =>
           Seen = {i \in Positions({"logger"}) : \A a \in Positions({"options", "cors"}) :
                      i < a \/ (engine.handlers[a] = "cors" /\ ~request.origin)}
    /\ response.status \notin {0, 500}
       /\ (request.method # "OPTIONS" \/ response.status \notin {200, 204}) =>
           Seen = Positions({"logger"})
  BY DEF Seen

LEMMA SeenAreLoggers ==
    EngineInv => /\ Seen \subseteq Positions({"logger"})
                 /\ Seen \subseteq Positioned
                 /\ Passed \subseteq Positioned
                 /\ IsFiniteSet(Passed)
  <1> SUFFICES ASSUME EngineInv
               PROVE  /\ Seen \subseteq Positions({"logger"})
                      /\ Seen \subseteq Positioned
                      /\ Passed \subseteq Positioned
                      /\ IsFiniteSet(Passed)
    OBVIOUS
  <1>1. Seen \subseteq Positions({"logger"})
    BY SeenByStatus
  <1>2. Positions({"logger"}) \subseteq Positioned
    BY DEF Positions, Positioned
  <1>3. Passed \subseteq Positioned
    BY <1>1, <1>2 DEF Passed
  <1> QED
    BY <1>1, <1>2, <1>3, PositionsAreNumbers, FS_Subset

(***************************************************************************)
(* A line adds itself to those of the access log if a logger writes it and *)
(* the level lets it through.                                              *)
(***************************************************************************)
LEMMA WrittenAfter ==
    ASSUME RecordInv, NEW by, NEW level, lines' = Line(by, level)
    PROVE  /\ IsFiniteSet(Written)
           /\ by # "logger" \/ ~Enabled(std, level) => Written' = Written
           /\ by = "logger" /\ Enabled(std, level) =>
                  Cardinality(Written') = Cardinality(Written) + 1
  <1> DEFINE r == [by |-> by, id |-> L(keys)]
             n == Len(lines)
  <1>1. lines \in Seq(LineRecords)
    BY DEF RecordInv
  <1>2. n \in Nat /\ DOMAIN lines = 1 .. n
    BY <1>1
  <1>3. Written \subseteq 1 .. n /\ IsFiniteSet(Written)
    <2>1. Written \subseteq 1 .. n
      BY <1>2 DEF Written
    <2>2. IsFiniteSet(1 .. n)
      BY <1>2, FS_Interval
    <2> HIDE DEF n
    <2> QED
      BY <2>1, <2>2, FS_Subset
  <1>4. r.by = by
    OBVIOUS
  <1> HIDE DEF r
  <1>5. lines' = IF Enabled(std, level) THEN Append(lines, r) ELSE lines
    BY DEF Line, r
  <1>6. CASE ~Enabled(std, level)
    BY <1>3, <1>5, <1>6 DEF Written
  <1>7. CASE Enabled(std, level)
    <2>1. /\ DOMAIN lines' = 1 .. n + 1
          /\ \A i \in 1 .. n : lines'[i] = lines[i]
          /\ lines'[n + 1] = r
      BY <1>1, <1>2, <1>5, <1>7
    <2>2. CASE by # "logger"
      <3>1. Written' = Written
        BY <1>2, <1>4, <2>1, <2>2 DEF Written
      <3> QED
        BY <1>3, <2>2, <3>1
    <2>3. CASE by = "logger"
      <3>1. Written' = Written \union {n + 1} /\ n + 1 \notin Written
        BY <1>2, <1>3, <1>4, <2>1, <2>3 DEF Written
      <3> QED
        BY <1>3, <1>7, <2>3, <3>1, FS_AddElement
    <2> QED
      BY <2>2, <2>3
  <1> QED
    BY <1>6, <1>7

(***************************************************************************)
(* As long as a request goes down, and while it panics, no line of the     *)
(* access log is written: the next state may be behind the loggers, but no *)
(* answer has come back through one.                                       *)
(***************************************************************************)
LEMMA NothingWritten ==
    ASSUME LogInv, phase \in {"down", "panic"}
    PROVE  Passed = {} /\ Cardinality(Written) = 0
  <1>1. Passed = {}
    BY DEF Passed
  <1> QED
    BY <1>1, FS_EmptySet DEF LogInv

LEMMA NothingLogged ==
    ASSUME LogInv, phase \in {"down", "panic"}, Written' = Written, Passed' = {},
           phase' = "up" => \A i \in Positions({"logger"})' : i <= at' => i \in Seen'
    PROVE  LogInv'
  <1>1. Cardinality(Written') = 0 /\ Cardinality(Passed') = 0
    BY NothingWritten, FS_EmptySet
  <1> QED
    BY <1>1 DEF LogInv

(***************************************************************************)
(* The access log keeps up with the loggers the answer has come back       *)
(* through.                                                                *)
(***************************************************************************)
LEMMA LogStep ==
    EngineInv /\ EngineInv' /\ WayInv /\ AnswerInv /\ LogInv /\ [ServerNext]_allVars => LogInv'
  <1> SUFFICES ASSUME EngineInv, EngineInv', WayInv, AnswerInv, LogInv, [ServerNext]_allVars
               PROVE  LogInv'
    OBVIOUS
  <1>0. PlaceInv /\ RecordInv
    BY DEF WayInv
  <1>1. /\ phase # "none" => pc = "serve" /\ Len(Chain) \in Nat /\ Len(Chain) >= 3
        /\ response \in Responses
        /\ phase = "down" => at \in 1 .. Len(Chain)
        /\ phase \in {"up", "panic"} => at \in 0 .. Len(Chain) - 1
    BY <1>0, ChainLength DEF PlaceInv, RecordInv
  <1>2. phase \in {"down", "up", "panic"} /\ at >= 1 =>
            at \in Nat /\ at \in 1 .. Len(Chain)
    BY <1>1
  <1>3. /\ Len(engine.handlers) \in Nat /\ Positioned = 1 .. Len(engine.handlers)
        /\ \A names : Positions(names) = {i \in Positioned : engine.handlers[i] \in names}
    BY PositionsAreNumbers DEF Positions, Positioned
  <1>4. UNCHANGED <<vars, request>> =>
            /\ Positioned' = Positioned /\ engine' = engine /\ std' = std
            /\ request' = request
            /\ \A names : Positions(names)' = Positions(names)
            /\ (response' = response => Seen' = Seen)
    BY StaysBuilt DEF Positions, Seen, vars, server
  <1>5. Seen' \subseteq Positioned'
    <2>1. (EngineInv => Seen \subseteq Positioned)'
      BY SeenAreLoggers, PTL
    <2> QED
      BY <2>1
  <1>6. /\ response'.status = 500 =>
               Seen' = {i \in Positions({"logger"})' : \E r \in Positions({"recovery"})' : i < r}
        /\ response'.status \in {200, 204} /\ request'.method = "OPTIONS" =>
               Seen' = {i \in Positions({"logger"})' : \A a \in Positions({"options", "cors"})' :
                           i < a \/ (engine'.handlers[a] = "cors" /\ ~request'.origin)}
        /\ response'.status \notin {0, 500}
           /\ (request'.method # "OPTIONS" \/ response'.status \notin {200, 204}) =>
               Seen' = Positions({"logger"})'
    BY DEF Seen, Positions
  <1>7. phase' = "down" \/ phase' = "panic" => Passed' = {}
    BY DEF Passed
  <1>8. lines' = lines => Written' = Written
    BY DEF Written
  <1>9. CASE StartStep
    BY <1>0, <1>9, StartBeforeRequests DEF LogInv
  <1>10. CASE Arrive
    <2>1. phase' = "down" /\ lines' = <<>>
      BY <1>10 DEF Arrive
    <2>2. Written' = {}
      BY <2>1 DEF Written
    <2> QED
      BY <1>7, <2>1, <2>2, FS_EmptySet DEF LogInv
  <1>11. CASE RequestID
    <2>1. phase = "down" /\ phase' = "down" /\ lines' \in {lines, Line("requestid", ErrorLevel)}
      BY <1>11 DEF RequestID, Here, Pass
    <2>2. Written' = Written
      BY <1>0, <1>8, <2>1, WrittenAfter
    <2> QED
      BY <1>7, <2>1, <2>2, NothingLogged
  <1>12. CASE Context \/ GoOn
    <2>1. phase = "down" /\ phase' = "down" /\ lines' = lines
      BY <1>12 DEF Context, GoOn, Here, Pass
    <2> QED
      BY <1>7, <1>8, <2>1, NothingLogged
  <1>13. CASE Abort
    <2>1. /\ phase = "down" /\ phase' = "up" /\ at' = at - 1
          /\ Chain[at] \in {"options", "cors"} /\ (Chain[at] = "cors" => request.origin)
          /\ request.method = "OPTIONS"
          /\ UNCHANGED <<vars, request>> /\ lines' = lines
      BY <1>13 DEF Abort, Here, TurnBack
    <2>2. response'.status \in {200, 204}
      BY <1>1, <1>13 DEF Abort, Responses
    <2>3. at \in Positioned /\ engine.handlers[at] = Chain[at] /\ at \in Nat
      BY <1>1, <1>3, <2>1, ChainPositions DEF Handlers, Known
    <2>4. Seen' = {i \in Positions({"logger"}) : \A a \in Positions({"options", "cors"}) :
                      i < a \/ (engine.handlers[a] = "cors" /\ ~request.origin)}
      BY <1>4, <1>6, <2>1, <2>2
    <2>5. at \in Positions({"options", "cors"})
      BY <1>3, <2>1, <2>3
    <2>6. \A i \in Seen' : i < at
      BY <2>1, <2>3, <2>4, <2>5
    <2>7. Passed' = {}
      BY <1>3, <1>4, <1>5, <2>1, <2>3, <2>6 DEF Passed
    <2>8. ASSUME NEW i \in Positions({"logger"}), i <= at - 1, NEW a \in Positions({"options", "cors"})
          PROVE  i < a \/ (engine.handlers[a] = "cors" /\ ~request.origin)
      BY <1>3, <2>1, <2>3, <2>8 DEF AnswerInv, Turner
    <2>9. \A i \in Positions({"logger"})' : i <= at' => i \in Seen'
      BY <1>4, <2>1, <2>4, <2>8
    <2> QED
      BY <1>8, <2>1, <2>7, <2>9, NothingLogged
  <1>14. CASE Endpoint
    <2>1. /\ phase = "down" /\ Chain[at] \in {"endpoint", "notFound"} /\ at' = at - 1
          /\ phase' \in {"up", "panic"}
          /\ UNCHANGED <<vars, request>> /\ lines' \in {lines, Line("endpoint", InfoLevel)}
      BY <1>14 DEF Endpoint, Here, TurnBack
    <2>2. at = Len(Chain) /\ at > Len(engine.handlers)
          /\ Chain[at] = IF RouteExists THEN "endpoint" ELSE "notFound"
      BY <1>1, <2>1, ChainPositions
    <2>3. Written' = Written
      BY <1>0, <1>8, <2>1, WrittenAfter
    <2>4. Passed' = {}
      <3>1. \A i \in Seen' : ~(i > at')
        BY <1>1, <1>3, <1>4, <1>5, <2>1, <2>2
      <3> QED
        BY <3>1 DEF Passed
    <2>5. phase' = "up" => Seen' = Positions({"logger"})'
      <3>1. phase' = "up" => response'.status = IF RouteExists THEN 200 ELSE 404
        BY <1>1, <1>14, <2>2 DEF Endpoint, TurnBack, Responses
      <3>2. RouteExists => request'.method = "GET"
        BY <2>1 DEF RouteExists
      <3> QED
        BY <1>6, <3>1, <3>2
    <2> QED
      BY <2>1, <2>3, <2>4, <2>5, NothingLogged
  <1>15. CASE Back
    <2>1. phase \in {"up", "panic"} /\ at >= 1 /\ at' = at - 1 /\ UNCHANGED <<vars, request>>
      BY <1>15 DEF Back
    <2>2. at \in Nat /\ at \in 1 .. Len(Chain)
          /\ (Chain[at] \in Handlers => at \in Positioned /\ engine.handlers[at] = Chain[at])
          /\ (at \in Positioned => engine.handlers[at] = Chain[at])
      BY <1>1, <1>2, <2>1, ChainPositions
    <2>3. CASE phase = "panic" /\ Chain[at] = "recovery"
      <3>1. phase' = "up" /\ lines' = lines /\ response'.status = 500
        BY <1>1, <1>15, <2>3 DEF Back, Logs, Responses
      <3>2. Seen' = {i \in Positions({"logger"}) : \E r \in Positions({"recovery"}) : i < r}
        BY <1>4, <1>6, <2>1, <3>1
      <3>3. at \in Positions({"recovery"})
        BY <1>3, <2>2, <2>3 DEF Handlers, Known
      <3>4. \A r \in Positions({"recovery"}) : r <= at
        BY <1>3, <2>2, <2>3 DEF AnswerInv
      <3>5. \A i \in Seen' : ~(i > at - 1)
        BY <1>3, <2>2, <3>2, <3>4
      <3>6. Passed' = {}
        BY <2>1, <3>5 DEF Passed
      <3>7. \A i \in Positions({"logger"})' : i <= at' => i \in Seen'
        BY <1>3, <1>4, <2>1, <2>2, <3>2, <3>3
      <3> QED
        BY <1>8, <2>3, <3>1, <3>6, <3>7, NothingLogged
    <2>4. CASE phase = "panic" /\ Chain[at] # "recovery"
      <3>1. phase' = "panic" /\ lines' = lines
        BY <1>15, <2>4 DEF Back, Logs
      <3> QED
        BY <1>7, <1>8, <2>4, <3>1, NothingLogged
    <2>5. CASE phase = "up"
      <3>1. phase' = "up" /\ response' = response
            /\ lines' = IF Chain[at] = "logger" THEN Line("logger", InfoLevel) ELSE lines
        BY <1>15, <2>5 DEF Back, Logs
      <3>2. Seen' = Seen
        BY <1>4, <2>1, <3>1
      <3>3. \A i \in Positions({"logger"})' : i <= at' => i \in Seen'
        BY <1>3, <1>4, <2>1, <2>2, <2>5, <3>2 DEF LogInv
      <3>4. Passed = {i \in Seen : i > at} /\ Passed' = {i \in Seen : i > at - 1}
        BY <2>1, <2>5, <3>1, <3>2 DEF Passed
      <3>5. IsFiniteSet(Passed) /\ Seen \subseteq Positioned
            /\ Seen \subseteq Positions({"logger"})
        BY SeenAreLoggers
      <3>6. Enabled(std, InfoLevel)' = Enabled(std, InfoLevel)
        BY <1>4, <2>1 DEF Enabled
      <3>7. CASE Chain[at] = "logger"
        <4>1. at \in Seen
          BY <1>3, <2>2, <2>5, <3>7 DEF LogInv, Handlers, Known
        <4>2. Passed' = Passed \union {at} /\ at \notin Passed
          <5>1. \A i \in Seen : i > at - 1 <=> i > at \/ i = at
            BY <1>3, <2>2, <3>5
          <5>2. ~(at > at)
            BY <2>2
          <5> HIDE DEF Seen
          <5> QED
            BY <3>4, <4>1, <5>1, <5>2
        <4>3. Cardinality(Passed') = Cardinality(Passed) + 1
          BY <3>5, <4>2, FS_AddElement
        <4>4. IF Enabled(std, InfoLevel) THEN Cardinality(Written') = Cardinality(Written) + 1
              ELSE Written' = Written
          BY <1>0, <3>1, <3>7, WrittenAfter
        <4> QED
          BY <2>5, <3>1, <3>3, <3>6, <4>3, <4>4 DEF LogInv
      <3>8. CASE Chain[at] # "logger"
        <4>1. at \notin Seen
          BY <1>3, <2>2, <3>5, <3>8
        <4>2. \A i \in Seen : i > at - 1 <=> i > at
          <5>1. \A i \in Seen : i \in Int /\ i # at
            BY <1>3, <3>5, <4>1
          <5>2. at \in Int
            BY <2>2
          <5> HIDE DEF Seen
          <5> QED
            BY <5>1, <5>2
        <4>3. Passed' = Passed
          <5> HIDE DEF Seen
          <5> QED
            BY <3>4, <4>2
        <4> QED
          BY <1>8, <2>5, <3>1, <3>3, <3>6, <3>8, <4>3 DEF LogInv
      <3> QED
        BY <3>7, <3>8
    <2> QED
      BY <2>1, <2>3, <2>4, <2>5
  <1>16. CASE Finish
    <2>1. phase \in {"up", "panic"} /\ phase' = "done" /\ at' = at
          /\ UNCHANGED <<vars, request>> /\ response' = response /\ lines' = lines
      BY <1>16 DEF Finish
    <2>2. Seen' = Seen /\ Written' = Written
          /\ Enabled(std, InfoLevel)' = Enabled(std, InfoLevel)
      BY <1>4, <1>8, <2>1 DEF Enabled
    <2>3. Passed' = Passed
      <3>1. CASE phase = "up"
        BY <2>1, <2>2, <3>1 DEF Passed
      <3>2. CASE phase = "panic"
        <4>1. Seen = {}
          BY <3>2, SeenByStatus DEF AnswerInv
        <4> QED
          BY <2>1, <2>2, <4>1 DEF Passed
      <3> QED
        BY <2>1, <3>1, <3>2
    <2> QED
      BY <2>1, <2>2, <2>3 DEF LogInv
  <1>17. CASE UNCHANGED allVars
    <2>1. phase' = phase /\ at' = at /\ response' = response /\ lines' = lines
          /\ UNCHANGED <<vars, request>>
      BY <1>17 DEF allVars, transit
    <2>2. Seen' = Seen /\ Written' = Written /\ Positions({"logger"})' = Positions({"logger"})
          /\ Enabled(std, InfoLevel)' = Enabled(std, InfoLevel)
      BY <1>4, <1>8, <2>1 DEF Enabled
    <2> QED
      BY <2>1, <2>2 DEF LogInv, Passed
  <1> QED
    BY <1>9, <1>10, <1>11, <1>12, <1>13, <1>14, <1>15, <1>16, <1>17
       DEF ServerNext, RequestStep

-----------------------------------------------------------------------------
LEMMA StartOfNext == [ServerNext]_allVars => [StartupStep]_vars
  <1> SUFFICES ASSUME [ServerNext]_allVars PROVE [StartupStep]_vars
    OBVIOUS
  <1>1. CASE StartStep
    BY <1>1 DEF StartStep
  <1>2. CASE RequestStep
    BY <1>2 DEF RequestStep, Arrive, RequestID, Context, Abort, GoOn, Endpoint, Back, Finish
  <1>3. CASE UNCHANGED allVars
    BY <1>3 DEF allVars
  <1> QED
    BY <1>1, <1>2, <1>3 DEF ServerNext

(***************************************************************************)
(* Before the start no engine is built and no request has come.            *)
(***************************************************************************)
LEMMA TransitInit ==
    ServerInit => EngineInv /\ TransitInv
  <1> SUFFICES ASSUME ServerInit PROVE EngineInv /\ TransitInv
    OBVIOUS
  <1>1. /\ pc = "parse" /\ phase = "none" /\ at = 0 /\ request = NoRequest /\ header = "none"
        /\ keys = NoKeys /\ response = NoResponse /\ lines = <<>>
    BY DEF ServerInit, Init, InitTransit
  <1>2. EngineInv
    BY <1>1 DEF ServerInit, Init, EngineInv, NoEngine, Modes, Routes
  <1>3. WayInv
    BY <1>1 DEF WayInv, RecordInv, PlaceInv, NoKeys, NoResponse, ContextKeys, Responses, Ids
  <1> QED
    BY <1>1, <1>2, <1>3 DEF TransitInv, IdInv, AnswerInv, LogInv

(***************************************************************************)
(* The invariant of a server that serves requests, from its command line   *)
(* to the last of them.                                                    *)
(***************************************************************************)
THEOREM TransitInvariance ==
    ServerSpec => [](StartupInv /\ EngineInv /\ TransitInv)
  <1>1. ServerSpec => []StartupInv
    BY ServerStarts, StartupInvariance, PTL
  <1>2. ServerInit => EngineInv /\ TransitInv
    BY TransitInit
  <1>3. StartupInv /\ EngineInv /\ TransitInv /\ [ServerNext]_allVars
            => EngineInv' /\ TransitInv'
    <2> SUFFICES ASSUME StartupInv, EngineInv, TransitInv, [ServerNext]_allVars
                 PROVE  EngineInv' /\ TransitInv'
      OBVIOUS
    <2>1. EngineInv'
      BY StartOfNext, EngineStep
    <2>2. WayInv /\ IdInv /\ AnswerInv /\ LogInv
      BY DEF TransitInv
    <2>3. WayInv'
      BY <2>1, <2>2, RecordStep, PlaceStep DEF WayInv
    <2>4. IdInv' /\ AnswerInv' /\ LogInv'
      BY <2>1, <2>2, IdStep, AnswerStep, LogStep
    <2> QED
      BY <2>1, <2>3, <2>4 DEF TransitInv
  <1> QED
    BY <1>1, <1>2, <1>3, PTL DEF ServerSpec

(***************************************************************************)
(* A request and its response stay within their types, and on the chain.   *)
(***************************************************************************)
THEOREM TransitCorrect == ServerSpec => []TransitOK
  <1>1. StartupInv /\ EngineInv /\ TransitInv => TransitOK
    <2> SUFFICES ASSUME StartupInv, EngineInv, TransitInv PROVE TransitOK
      OBVIOUS
    <2>1. RecordInv /\ PlaceInv /\ TypeOK
      BY DEF StartupInv, TransitInv, WayInv
    <2>2. /\ header \in Ids
          /\ keys \in [XRequestID : Ids \union {"unset"}, requestID : Ids \union {"unset", ""}]
          /\ response.id \in Ids
      BY <2>1 DEF RecordInv, ContextKeys, Responses, Ids
    <2>3. lines \in Seq([by : {"requestid", "endpoint", "logger"}, id : Ids \union {"unset", ""}])
      <3>1. LineRecords \subseteq [by : {"requestid", "endpoint", "logger"},
                                  id : Ids \union {"unset", ""}]
        BY DEF LineRecords, Ids
      <3>2. lines \in Seq(LineRecords)
        BY <2>1 DEF RecordInv
      <3> QED
        BY <3>1, <3>2, SeqMonotonic
    <2>4. at \in 0 .. (Len(engine.handlers) + 2)
      <3>1. Len(engine.handlers) \in Nat
        BY PositionsAreNumbers
      <3>2. CASE phase \in {"none", "done"}
        BY <2>1, <3>1, <3>2 DEF PlaceInv
      <3>3. CASE phase \notin {"none", "done"}
        <4>1. Len(Chain) \in Nat /\ Len(Chain) <= Len(engine.handlers) + 2
          BY <2>1, <3>1, <3>3, ChainShape DEF PlaceInv
        <4> QED
          BY <2>1, <3>1, <3>3, <4>1 DEF PlaceInv, RecordInv
      <3> QED
        BY <3>2, <3>3
    <2> QED
      BY <2>1, <2>2, <2>3, <2>4 DEF TransitOK, RecordInv, PlaceInv
  <1> QED
    BY <1>1, TransitInvariance, PTL

(***************************************************************************)
(* The client gets the id the handlers saw, its own if it sent one; the    *)
(* lines of a request carry that id or none, and all the same.             *)
(***************************************************************************)
THEOREM IdsAreConsistent == ServerSpec => []RequestIdConsistent
  <1>1. EngineInv /\ TransitInv => RequestIdConsistent
    <2> SUFFICES ASSUME TransitInv, phase = "done" PROVE RequestIdConsistent
      BY DEF RequestIdConsistent, Finished
    <2> DEFINE behind == {lines[i].id : i \in {j \in DOMAIN lines : lines[j].by # "requestid"}}
    <2>1. /\ request.id => header = "sent"
          /\ keys.requestID = "new" => header = "new"
          /\ response.id = header
          /\ keys.requestID # "unset"
          /\ \A i \in DOMAIN lines : lines[i].by # "requestid" => lines[i].id = keys.requestID
      BY DEF TransitInv, IdInv
    <2>2. keys.requestID \in {"", "new"}
      BY <2>1 DEF TransitInv, WayInv, RecordInv, ContextKeys
    <2>3. Cardinality(behind) <= 1
      <3>1. behind \subseteq {keys.requestID}
        BY <2>1
      <3>2. IsFiniteSet({keys.requestID}) /\ Cardinality({keys.requestID}) = 1
        BY FS_Singleton
      <3> HIDE DEF behind
      <3> QED
        BY <3>1, <3>2, FS_Subset
    <2> QED
      BY <2>1, <2>2, <2>3 DEF RequestIdConsistent
  <1> QED
    BY <1>1, TransitInvariance, PTL

(***************************************************************************)
(* The access log has a line for every logger the answer came back         *)
(* through, or none at all, as the level says.                             *)
(***************************************************************************)
THEOREM AccessIsLogged == ServerSpec => []AccessLogged
  <1>1. StartupInv /\ EngineInv /\ TransitInv => AccessLogged
    <2> SUFFICES ASSUME StartupInv, EngineInv, TransitInv, phase = "done" PROVE AccessLogged
      BY DEF AccessLogged, Finished
    <2>1. pc = "serve" /\ at = 0
      BY DEF TransitInv, WayInv, PlaceInv
    <2>2. Passed = Seen
      <3>1. Seen \subseteq Positioned /\ Positioned = 1 .. Len(engine.handlers)
            /\ Len(engine.handlers) \in Nat
        BY SeenAreLoggers, PositionsAreNumbers
      <3>2. \A i \in Seen : i > 0
        BY <3>1
      <3> QED
        BY <2>1, <3>2 DEF Passed
    <2>3. Enabled(std, InfoLevel) <=> opts.log.level \in {"debug", "info"}
      <3>1. opts.log \in LogOptions
        BY DEF StartupInv, TypeOK, Options
      <3>2. ~LogInvalid(opts.log)
        BY <2>1 DEF StartupInv, OptionsInv, AfterLog, Valid, Validate
      <3>3. std = New(opts.log)
        BY <2>1 DEF StartupInv, LoggerInv, AfterLog
      <3> QED
        BY <3>1, <3>2, <3>3, InfoEnabled
    <2> QED
      BY <2>2, <2>3 DEF AccessLogged, TransitInv, LogInv
  <1> QED
    BY <1>1, TransitInvariance, PTL

(***************************************************************************)
(* Every request is answered by the one the chain has for it, unless its   *)
(* handler panics in a chain without recovery.                             *)
(***************************************************************************)
THEOREM RequestsGetAnswered == ServerSpec => []RequestsAnswered
  <1>1. EngineInv /\ TransitInv => RequestsAnswered
    <2> SUFFICES ASSUME EngineInv, TransitInv, phase = "done" PROVE RequestsAnswered
      BY DEF RequestsAnswered, Finished
    <2>1. AnswerInv /\ at = 0
      BY DEF TransitInv, WayInv, PlaceInv
    <2>2. Positioned \subseteq 1 .. Len(engine.handlers) /\ Len(engine.handlers) \in Nat
          /\ \A names : Positions(names) = {i \in Positioned : engine.handlers[i] \in names}
      BY PositionsAreNumbers DEF Positions, Positioned
    <2>3. response.status = 0 => Positions({"recovery"}) = {}
      <3>1. response.status = 0 =>
                \A i \in Positioned : i > 0 => engine.handlers[i] # "recovery"
        BY <2>1 DEF AnswerInv
      <3>2. \A i \in Positioned : i > 0
        BY <2>2
      <3> QED
        BY <3>1, <3>2 DEF Positions, Positioned
    <2>4. (\A i \in Positioned : ~Turner(i)) <=>
              /\ Positions({"options"}) = {}
              /\ Positions({"cors"}) = {} \/ ~request.origin
      BY <2>2 DEF Turner
    <2> QED
      BY <2>1, <2>3, <2>4 DEF AnswerInv, RequestsAnswered
  <1> QED
    BY <1>1, TransitInvariance, PTL
=============================================================================
