------------------------------ MODULE Options ------------------------------
(***************************************************************************)
(* The options of sea-apiserver: their defaults, what completing and       *)
(* validating them does, and how flags, environment and configuration file *)
(* are laid over each other.  A setting is addressed by its group and its  *)
(* field, as in a configuration file.  Only the fields that decide how the *)
(* process starts or how a request runs are kept; a path or a name is ""   *)
(* or something else, a JWT key is its length.                             *)
(***************************************************************************)
EXTENDS Integers, Sequences

CONSTANT Middlewares        \* values of server.middlewares that are considered

\* They are lists of names; none is the default.
ASSUME MiddlewaresAssumption == Middlewares \subseteq Seq(STRING) /\ <<>> \in Middlewares

Modes == {"debug", "test", "release", "unknown"}
Levels == {"debug", "info", "warn", "error", "dpanic", "panic", "fatal"}
Texts == {"", "given"}

ServerRunOptions == [mode : Modes, healthz : BOOLEAN, middlewares : Middlewares]
InsecureServingOptions == [bindPort : Int]
SecureServingOptions == [bindPort : Int, required : BOOLEAN, certFile : Texts,
                         keyFile : Texts, certDir : Texts, pairName : Texts]
PostgresSQLOptions == [logLevel : Int]
JwtOptions == [key : Nat]
\* "JSON" stands for the spellings that differ in case only; outputPaths for
\* the paths of lines and of zap's own errors, "missing" if one of either kind
\* cannot be opened.
LogOptions == [level : Levels \union {"verbose"}, format : {"console", "json", "JSON", "plain"},
               outputPaths : {"stdout", "missing"}]
FeatureOptions == [profiling : BOOLEAN, metrics : BOOLEAN]

Options == [server : ServerRunOptions, insecure : InsecureServingOptions,
            secure : SecureServingOptions, postgres : PostgresSQLOptions,
            jwt : JwtOptions, log : LogOptions, feature : FeatureOptions]

-----------------------------------------------------------------------------
\* Defaults, two groups of which come from the configuration of the server

NewConfig == [mode |-> "release", healthz |-> TRUE, middlewares |-> <<>>,
              profiling |-> TRUE, metrics |-> TRUE]

NewServerRunOptions == [mode |-> NewConfig.mode, healthz |-> NewConfig.healthz,
                        middlewares |-> NewConfig.middlewares]
NewInsecureServingOptions == [bindPort |-> 8080]
NewSecureServingOptions ==
    [bindPort |-> 8443, required |-> TRUE, certFile |-> "", keyFile |-> "",
     certDir |-> "given", pairName |-> "given"]
NewPostgresSQLOptions == [logLevel |-> 1]
NewJwtOptions == [key |-> 0]
NewLogOptions == [level |-> "info", format |-> "console", outputPaths |-> "stdout"]
NewFeatureOptions == [profiling |-> NewConfig.profiling, metrics |-> NewConfig.metrics]

NewOptions ==
    [server |-> NewServerRunOptions, insecure |-> NewInsecureServingOptions,
     secure |-> NewSecureServingOptions, postgres |-> NewPostgresSQLOptions,
     jwt |-> NewJwtOptions, log |-> NewLogOptions, feature |-> NewFeatureOptions]

Keys == UNION {{<<g, f>> : f \in DOMAIN NewOptions[g]} : g \in DOMAIN NewOptions}

-----------------------------------------------------------------------------
\* Flags, environment and file

\* No flag goes by this name: secure.required has none, and the flag of
\* postgres.log-level is called postgres.log-mode.
Unbound == {<<"secure", "required">>, <<"postgres", "logLevel">>}

\* The fields that the flags of each group are bound to.
ServerRunFlags == {"mode", "healthz", "middlewares"}
InsecureFlags == {"bindPort"}
SecureFlags == {"bindPort", "certFile", "keyFile", "certDir", "pairName"}
PostgresFlags == {"logLevel"}
JwtFlags == {"key"}
LogFlags == {"level", "format", "outputPaths"}
FeatureFlags == {"profiling", "metrics"}

Flags == [server |-> ServerRunFlags, insecure |-> InsecureFlags, secure |-> SecureFlags,
          postgres |-> PostgresFlags, jwt |-> JwtFlags, log |-> LogFlags,
          feature |-> FeatureFlags]

\* pflag assigns to the fields as it parses the command line.
FlagKeys == UNION {{<<g, f>> : f \in Flags[g]} : g \in DOMAIN Flags}

Overlay(opts, value(_), ks) ==
    [g \in DOMAIN opts |-> [f \in DOMAIN opts[g] |->
        IF <<g, f>> \in ks THEN value(<<g, f>>) ELSE opts[g][f]]]

ParseFlags(opts, inv) == Overlay(opts, LAMBDA k : inv.flags[k], DOMAIN inv.flags)

\* What an empty variable would set; a switch, a number or a word of a fixed
\* list is never empty.
Empty(k, v) ==
    \/ k[2] \in {"certFile", "keyFile", "certDir", "pairName"} /\ v = ""
    \/ k[2] = "key" /\ v = 0
    \/ k[2] = "middlewares" /\ v = <<>>

\* viper takes an empty variable of the environment for one that is not set.
InEnv(inv, k) == k \in DOMAIN inv.env /\ ~Empty(k, inv.env[k])

\* Seeded fault: the configuration file is looked at before the environment.
FindFileFirst(inv, k) ==
    IF k \in DOMAIN inv.flags THEN inv.flags[k]
    ELSE IF k \in DOMAIN inv.file THEN inv.file[k]
    ELSE IF InEnv(inv, k) THEN inv.env[k]
    ELSE NewOptions[k[1]][k[2]]

\* viper: a flag that was given, then the environment, then the file, then the
\* default of the flag.
Find(inv, k) ==
    IF k \in DOMAIN inv.flags THEN inv.flags[k]
    ELSE IF InEnv(inv, k) THEN inv.env[k]
    ELSE IF k \in DOMAIN inv.file THEN inv.file[k]
    ELSE NewOptions[k[1]][k[2]]

\* A key without a flag is known to viper only from the file, and the flag that
\* sets the field does not count.
FindUnbound(inv, k) == IF InEnv(inv, k) THEN inv.env[k] ELSE inv.file[k]

Unmarshal(opts, inv) ==
    Overlay(opts,
            LAMBDA k : IF k \in Unbound THEN FindUnbound(inv, k) ELSE Find(inv, k),
            (Keys \ Unbound) \union (Unbound \intersect DOMAIN inv.file))

-----------------------------------------------------------------------------
\* Complete and Validate

SecureCompleteFails(s) ==
    /\ s.bindPort # 0 /\ s.certFile = "" /\ s.keyFile = ""
    /\ s.certDir # "" /\ s.pairName = ""

SecureComplete(s) ==
    IF s.bindPort # 0 /\ s.certFile = "" /\ s.keyFile = "" /\ s.certDir # ""
    THEN [s EXCEPT !.certFile = "given", !.keyFile = "given"]
    ELSE s

\* An empty key is replaced by a generated one, of 32 characters.
Complete(opts) ==
    [opts EXCEPT !.jwt.key = IF @ = 0 THEN 32 ELSE @, !.secure = SecureComplete(@)]

InsecureInvalid(s) == s.bindPort < 0 \/ s.bindPort > 65535
SecureInvalid(s) ==
    \/ s.required /\ s.bindPort < 1
    \/ s.bindPort < 0 \/ s.bindPort > 65535
JwtInvalid(j) == j.key \notin 6 .. 32

\* Seeded fault: the format is not looked at.
LogFormatUnchecked(l) == l.level \notin Levels

LogInvalid(l) == l.level \notin Levels \/ l.format = "plain"

\* The groups with an error; the other three validate nothing.
Validate(opts) ==
    {g \in {"insecure", "secure", "jwt", "log"} :
        \/ g = "insecure" /\ InsecureInvalid(opts.insecure)
        \/ g = "secure" /\ SecureInvalid(opts.secure)
        \/ g = "jwt" /\ JwtInvalid(opts.jwt)
        \/ g = "log" /\ LogInvalid(opts.log)}

-----------------------------------------------------------------------------
\* What the options leave in the configuration of the server.

ServerRunApplyTo(s, config) ==
    [config EXCEPT !.mode = s.mode, !.healthz = s.healthz, !.middlewares = s.middlewares]

FeatureApplyTo(o, config) ==
    [config EXCEPT !.profiling = o.profiling, !.metrics = o.metrics]
=============================================================================
