----------------------------- MODULE ApiServer -----------------------------
(***************************************************************************)
(* The server of Startup with the requests it serves: the way of a request *)
(* down the handlers of its route and back up, in gin's order.  Requests   *)
(* share nothing, so one at a time is enough.  The controllers at the end  *)
(* of the chain are those of ResourceService; here they answer or panic.   *)
(***************************************************************************)
EXTENDS Startup

CONSTANT Requests   \* what clients send: method, route, and which headers

ASSUME RequestAssumption ==
    Requests \subseteq [method : {"GET", "OPTIONS"}, route : Routes \union {"unmatched"},
                        id : BOOLEAN, origin : BOOLEAN]

VARIABLES
    request,    \* the request being served
    phase,      \* how it moves: "down" the chain, back "up", or a "panic"
    at,         \* the handler it is at
    header,     \* X-Request-ID of the request, as the handlers read it
    keys,       \* the keys of the gin context
    response,   \* the status and the X-Request-ID of the response
    lines       \* the lines logged for the request: who wrote them, and their requestID

transit == <<phase, at, header, keys, response, lines>>
allVars == <<vars, request, transit>>

\* An id is "sent" by the client or "new", generated.
Ids == {"none", "sent", "new"}
NoKeys == [XRequestID |-> "unset", requestID |-> "unset"]
NoResponse == [status |-> 0, id |-> "none"]
NoRequest == [method |-> "GET", route |-> "unmatched", id |-> FALSE, origin |-> FALSE]

TransitOK ==
    /\ TypeOK
    /\ request \in Requests \union {NoRequest}
    /\ phase \in {"none", "down", "up", "panic", "done"}
    /\ phase # "none" => pc = "serve"
    /\ at \in 0 .. (Len(engine.handlers) + 2)
    /\ header \in Ids
    /\ keys \in [XRequestID : Ids \union {"unset"}, requestID : Ids \union {"unset", ""}]
    /\ response.id \in Ids
    /\ lines \in Seq([by : {"requestid", "endpoint", "logger"}, id : Ids \union {"unset", ""}])

InitTransit ==
    /\ request = NoRequest
    /\ phase = "none"
    /\ at = 0
    /\ header = "none"
    /\ keys = NoKeys
    /\ response = NoResponse
    /\ lines = <<>>

-----------------------------------------------------------------------------
\* The chain

\* gin copies the handlers when a route is added: /healthz is added before the
\* one of prometheus.
RouteExists == request.route \in engine.routes /\ request.method = "GET"

Chain ==
    engine.handlers
        \o (IF engine.metrics /\ ~(request.route = "healthz" /\ RouteExists)
            THEN <<"prometheus">> ELSE <<>>)
        \o <<IF RouteExists THEN "endpoint" ELSE "notFound">>

Arrive == \E r \in Requests :
    /\ pc = "serve"
    /\ phase \in {"none", "done"}
    /\ request' = r
    /\ phase' = "down"
    /\ at' = 1
    /\ header' = IF r.id THEN "sent" ELSE "none"
    /\ keys' = NoKeys
    /\ response' = NoResponse
    /\ lines' = <<>>
    /\ UNCHANGED vars

Line(by, level) ==
    IF Enabled(std, level) THEN Append(lines, [by |-> by, id |-> L(keys)]) ELSE lines

Here(names) == phase = "down" /\ Chain[at] \in names
Pass == at' = at + 1 /\ UNCHANGED phase
TurnBack(direction) == phase' = direction /\ at' = at - 1

\* Seeded fault: an id of the client is overwritten.
RequestIDAlwaysNew ==
    /\ Here({"requestid"}) /\ Pass
    /\ response' = [response EXCEPT !.id = "new"]
    /\ keys' = [keys EXCEPT !.XRequestID = "new"]
    /\ UNCHANGED <<vars, request, header, lines>>

\* Seeded fault: when the generator has failed, its zero id is taken.
RequestIDOfFailure ==
    /\ Here({"requestid"}) /\ Pass
    /\ \E id \in {header, "new", "zero"} :
        /\ id = header <=> header # "none"
        /\ header' = id
        /\ response' = [response EXCEPT !.id = id]
        /\ keys' = IF header = "none" THEN [keys EXCEPT !.XRequestID = id] ELSE keys
        /\ lines' = IF id = "zero" THEN Line("requestid", ErrorLevel) ELSE lines
    /\ UNCHANGED <<vars, request>>

\* The generator may fail; then nothing is set, and an error is logged.
RequestID ==
    /\ Here({"requestid"}) /\ Pass
    /\ \/ /\ header # "none"
          /\ response' = [response EXCEPT !.id = header]
          /\ UNCHANGED <<header, keys, lines>>
       \/ /\ header = "none"
          /\ header' = "new"
          /\ keys' = [keys EXCEPT !.XRequestID = "new"]
          /\ response' = [response EXCEPT !.id = "new"]
          /\ UNCHANGED lines
       \/ /\ header = "none"
          /\ lines' = Line("requestid", ErrorLevel)
          /\ UNCHANGED <<header, keys, response>>
    /\ UNCHANGED <<vars, request>>

\* A key that is not set reads as the empty string.
Context ==
    /\ Here({"context"}) /\ Pass
    /\ keys' = [keys EXCEPT !.requestID = IF keys.XRequestID = "unset" THEN ""
                                          ELSE keys.XRequestID]
    /\ UNCHANGED <<vars, request, header, response, lines>>

\* Seeded fault: the request is answered and goes on.
OptionsGoesOn ==
    /\ Here({"options"}) /\ Pass
    /\ response' = IF request.method = "OPTIONS" THEN [response EXCEPT !.status = 200]
                   ELSE response
    /\ UNCHANGED <<vars, request, header, keys, lines>>

\* options answers every OPTIONS request, cors a preflight, with an Origin.
Abort ==
    /\ Here({"options", "cors"})
    /\ request.method = "OPTIONS"
    /\ Chain[at] = "cors" => request.origin
    /\ TurnBack("up")
    /\ response' = [response EXCEPT !.status = IF Chain[at] = "cors" THEN 204 ELSE 200]
    /\ UNCHANGED <<vars, request, header, keys, lines>>

\* The middlewares that do nothing on the way down but set headers.
GoOn ==
    /\ Here({"recovery", "secure", "nocache", "dump", "logger", "prometheus", "options", "cors"})
    /\ Chain[at] \in {"options", "cors"} =>
           request.method # "OPTIONS" \/ (Chain[at] = "cors" /\ ~request.origin)
    /\ Pass
    /\ UNCHANGED <<vars, request, header, keys, response, lines>>

\* The handler of the route answers or panics; a controller logs its call first.
Endpoint ==
    /\ Here({"endpoint", "notFound"})
    /\ lines' = IF request.route = "v1" /\ RouteExists THEN Line("endpoint", InfoLevel)
                ELSE lines
    /\ \/ /\ TurnBack("up")
          /\ response' = [response EXCEPT !.status = IF Chain[at] = "endpoint" THEN 200 ELSE 404]
       \/ /\ request.route = "v1" /\ RouteExists
          /\ TurnBack("panic")
          /\ UNCHANGED response
    /\ UNCHANGED <<vars, request, header, keys>>

\* Seeded fault: the line is written by a deferred call.
LogsDeferred == phase \in {"up", "panic"}

\* The line of the access log is written behind Next, which a panic does not reach.
Logs == phase = "up"

Back ==
    /\ phase \in {"up", "panic"} /\ at >= 1
    /\ IF phase = "panic" /\ Chain[at] = "recovery"
       THEN phase' = "up" /\ response' = [response EXCEPT !.status = 500]
       ELSE UNCHANGED <<phase, response>>
    /\ lines' = IF Logs /\ Chain[at] = "logger" THEN Line("logger", InfoLevel) ELSE lines
    /\ at' = at - 1
    /\ UNCHANGED <<vars, request, header, keys>>

\* The response is sent; after a panic net/http drops the connection.
Finish ==
    /\ phase \in {"up", "panic"} /\ at = 0
    /\ phase' = "done"
    /\ UNCHANGED <<vars, request, at, header, keys, response, lines>>

RequestStep ==
    \/ Arrive \/ RequestID \/ Context \/ Abort \/ GoOn \/ Endpoint \/ Back \/ Finish

StartStep == StartupStep /\ UNCHANGED <<request, transit>>

ServerInit == Init /\ InitTransit

ServerNext == StartStep \/ RequestStep

ServerSpec == ServerInit /\ [][ServerNext]_allVars

-----------------------------------------------------------------------------
\* Properties of finished requests

Finished == phase = "done"
Positions(names) == {i \in DOMAIN engine.handlers : engine.handlers[i] \in names}

(***************************************************************************)
(* The client gets the id the handlers saw, its own if it sent one, and    *)
(* all lines of a request behind the context middleware carry one and the  *)
(* same id, that one or none (requestid.go:39, :51, context.go:29).        *)
(***************************************************************************)
RequestIdConsistent ==
    Finished =>
        /\ response.id = header
        /\ request.id => header = "sent"
        /\ \A i \in DOMAIN lines :
            lines[i].id \in {"", response.id} \/ lines[i].by = "requestid"
        /\ Cardinality({lines[i].id : i \in {j \in DOMAIN lines : lines[j].by # "requestid"}}) <= 1

(***************************************************************************)
(* "RequestID is a middleware that injects a 'X-Request-ID' into the       *)
(* context and request/response header of each request"                    *)
(* (requestid.go:33): once the header has an id, so has the context.       *)
(***************************************************************************)
RequestIdInContext == Finished /\ header # "none" => keys.XRequestID = header

\* The lines of the access log, and the loggers that see an answer come back.
Written == {i \in DOMAIN lines : lines[i].by = "logger"}

Seen ==
    LET loggers == Positions({"logger"})
    IN  CASE response.status = 0 -> {}
          [] response.status = 500 ->
                {i \in loggers : \E r \in Positions({"recovery"}) : i < r}
          [] request.method = "OPTIONS" /\ response.status \in {200, 204} ->
                {i \in loggers : \A a \in Positions({"options", "cors"}) :
                    i < a \/ (engine.handlers[a] = "cors" /\ ~request.origin)}
          [] OTHER -> loggers

(***************************************************************************)
(* Whether a request leaves a line in the access log depends on what turns *)
(* it round: a panic is seen by the loggers in front of the last recovery, *)
(* an OPTIONS request by those in front of the first that answers it, any  *)
(* other request by all.  With recovery in front of logger, the order of   *)
(* the shipped configuration, a panic is never logged as a request         *)
(* (middleware/logger.go:118, :144, genericapiserver.go:108).              *)
(***************************************************************************)
AccessLogged ==
    Finished =>
        Cardinality(Written) =
            IF opts.log.level \in {"debug", "info"} THEN Cardinality(Seen) ELSE 0

(***************************************************************************)
(* Every request is answered unless its handler panics in a chain without  *)
(* recovery, and the chain decides who answers: an OPTIONS request never   *)
(* gets past options, any other reaches the handler of its route           *)
(* (middleware.go:40, :68, cors.go:29).                                    *)
(***************************************************************************)
RequestsAnswered ==
    Finished =>
        /\ response.status = 0 => Positions({"recovery"}) = {}
        /\ response.status \in {0, 500} => RouteExists /\ request.route = "v1"
        /\ request.method = "GET" /\ response.status \notin {0, 500} =>
               response.status = IF RouteExists THEN 200 ELSE 404
        /\ request.method = "OPTIONS" =>
               (response.status = 404 <=>
                   /\ Positions({"options"}) = {}
                   /\ Positions({"cors"}) = {} \/ ~request.origin)
=============================================================================
