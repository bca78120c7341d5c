---------------------------- MODULE MCApiServer ----------------------------
(***************************************************************************)
(* An instance of ApiServer for TLC: the ways to call the command that     *)
(* differ from the plain one in a setting from one source, in a setting    *)
(* from several sources, or in two settings of the file.                   *)
(***************************************************************************)
EXTENDS ApiServer, TLC

\* Lists of middlewares: none, each, every order of those that may turn a
\* request round or log it, the shipped list, a second request id.
SomeMiddlewares ==
    {<<>>, <<"secure", "nocache">>, <<"missing", "dump">>, <<"logger", "logger">>,
     <<"requestid", "logger">>,
     <<"recovery", "logger", "secure", "nocache", "cors", "dump">>,
     <<"logger", "recovery", "options">>, <<"options", "cors", "logger">>}
    \union {<<m>> : m \in Known}
    \union {<<m, n>> : m, n \in {"recovery", "logger", "options", "cors"}}

Values(k) ==
    CASE k = <<"server", "mode">> -> Modes
      [] k = <<"server", "middlewares">> -> SomeMiddlewares
      [] k[2] = "bindPort" -> {-1, 0, 1, 8080, 65535, 65536}
      [] k = <<"jwt", "key">> -> {0, 5, 6, 32, 33}
      [] k = <<"postgres", "logLevel">> -> 0 .. 4
      [] k = <<"log", "level">> -> {"debug", "info", "warn", "fatal", "verbose"}
      [] k = <<"log", "format">> -> {"console", "json", "JSON", "plain"}
      [] k = <<"log", "outputPaths">> -> {"stdout", "missing"}
      [] k[2] \in {"certFile", "keyFile", "certDir", "pairName"} -> Texts
      [] OTHER -> BOOLEAN

Nothing == <<>>
Settings(k) == {Nothing} \union {k :> v : v \in Values(k)}

Call(argv, config, flags, env, file) ==
    [argv |-> argv, config |-> config, flags |-> flags, env |-> env, file |-> file]

\* One setting, from any of the sources, possibly from all three; a list of
\* middlewares, of which there are many, from one source.
OneSetting ==
    UNION {{Call("run", "read", f, e, c) :
                f \in IF k \in FlagKeys THEN Settings(k) ELSE {Nothing},
                e \in Settings(k), c \in Settings(k)} :
           k \in Keys \ {<<"server", "middlewares">>}}
    \union {Call("run", "read", f, Nothing, Nothing) : f \in Settings(<<"server", "middlewares">>)}

TwoSettings ==
    {Call("run", "read", Nothing, Nothing, f @@ g) :
        f, g \in UNION {Settings(k) : k \in Keys \ {<<"server", "middlewares">>}}}
    \union {Call("run", "read", Nothing, Nothing, f @@ g) :
        f \in Settings(<<"server", "middlewares">>),
        g \in UNION {Settings(k) : k \in {<<"log", "level">>, <<"feature", "metrics">>,
                                          <<"server", "healthz">>}}}

SomeInvocations ==
    {Call(argv, config, Nothing, Nothing, Nothing) :
        argv \in Arguments, config \in ConfigFiles}
    \union OneSetting \union TwoSettings

SomeRequests ==
    [method : {"GET", "OPTIONS"}, route : {"v1"}, id : BOOLEAN, origin : BOOLEAN]
    \union [method : {"GET"}, route : {"healthz", "version", "unmatched"}, id : {FALSE},
            origin : {FALSE}]

\* The plain way alone.
NoMiddlewares == {<<>>}
PlainInvocation == {Call("run", "read", Nothing, Nothing, Nothing)}
=============================================================================
