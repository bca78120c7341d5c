--------------------------- MODULE StartupProofs ---------------------------
(***************************************************************************)
(* The properties of Startup that hold for every invocation.  What is true *)
(* of the options, the logger and the store depends on how far the start   *)
(* has come; StartupInv says what each stage may rely on.  The theorems    *)
(* hold for the server, too, whose requests leave all of this alone.       *)
(***************************************************************************)
EXTENDS ApiServer, TLAPS

Ready(o) == ~SecureCompleteFails(o.secure) /\ Complete(o) = o
Valid(o) == Ready(o) /\ Validate(o) = {}

AfterLog == {"engine", "store", "migrate", "router", "serve"}

OptionsInv ==
    /\ inv \in Invocations
    /\ pc = "parse" => opts = NewOptions
    /\ pc \in {"config", "unmarshal"} => opts = ParseFlags(NewOptions, inv)
    /\ pc = "validate" => Ready(opts)
    /\ pc \in {"parse", "config", "unmarshal", "complete", "validate", "log"} =>
           engine = NoEngine /\ factory = "none"
    /\ pc \in AfterLog \union {"log"} \/ engine # NoEngine \/ factory # "none" => Valid(opts)

LoggerInv ==
    /\ pc \in AfterLog => std = New(opts.log)
    /\ pc \in {"migrate", "router", "serve"} =>
           gormLogger = [std |-> std, level |-> opts.postgres.logLevel]

StoreInv ==
    /\ pc = "migrate" => factory \in {"nil", "database"}
    /\ ServingHasDatabase

\* Where the settings come from, before and after they are completed.
DefaultOr(k) == ~Given(k) => Value(k) = Default(k)
Unmarshalled == \A k \in Keys : FromSources(k) /\ DefaultOr(k)
AllFromSources == \A k \in Keys \ Completed : FromSources(k)
DefaultsCompleted ==
    /\ \A k \in Keys \ Completed : DefaultOr(k)
    /\ ~Given(<<"jwt", "key">>) => opts.jwt.key = 32

SourceInv ==
    /\ pc = "complete" => Unmarshalled
    /\ pc = "validate" => DefaultsCompleted
    /\ pc \in AfterLog \union {"validate", "log"} \/ exit = "panic" => AllFromSources

StartupInv == TypeOK /\ OptionsInv /\ LoggerInv /\ StoreInv /\ PanicsAreUnchecked
              /\ SourceInv /\ FailureIsTheCallers

-----------------------------------------------------------------------------
(***************************************************************************)
(* Completing options keeps their types.                                   *)
(***************************************************************************)
LEMMA CompleteType ==
    ASSUME NEW o \in Options PROVE Complete(o) \in Options
  BY DEF Options, Complete, SecureComplete, SecureServingOptions, JwtOptions, Texts

(***************************************************************************)
(* Options are complete once they have been completed.                     *)
(***************************************************************************)
LEMMA CompleteReady ==
    ASSUME NEW o \in Options, ~SecureCompleteFails(o.secure)
    PROVE  Ready(Complete(o))
  <1>1. o.secure \in SecureServingOptions /\ o.jwt \in JwtOptions
    BY DEF Options
  <1>2. SecureComplete(SecureComplete(o.secure)) = SecureComplete(o.secure)
    BY <1>1 DEF SecureComplete, SecureServingOptions
  <1>3. ~SecureCompleteFails(SecureComplete(o.secure))
    BY <1>1 DEF SecureComplete, SecureServingOptions, SecureCompleteFails
  <1> QED
    BY <1>1, <1>2, <1>3 DEF Ready, Complete, Options, JwtOptions

(***************************************************************************)
(* The level of a valid logger writes information if it is debug or info.  *)
(***************************************************************************)
LEMMA InfoEnabled ==
    ASSUME NEW l \in LogOptions, ~LogInvalid(l)
    PROVE  Enabled(New(l), InfoLevel) <=> l.level \in {"debug", "info"}
  BY DEF LogOptions, LogInvalid, Levels, New, ParseLevel, Parsed, Enabled,
         DebugLevel, InfoLevel, ErrorLevel, FatalLevel
(***************************************************************************)
(* A flag that is given is the value of its field.                         *)
(***************************************************************************)
LEMMA ParsedValue ==
    ASSUME NEW i, NEW g \in DOMAIN NewOptions, NEW f \in DOMAIN NewOptions[g]
    PROVE  /\ DOMAIN ParseFlags(NewOptions, i) = DOMAIN NewOptions
           /\ DOMAIN ParseFlags(NewOptions, i)[g] = DOMAIN NewOptions[g]
           /\ ParseFlags(NewOptions, i)[g][f] =
                  IF <<g, f>> \in DOMAIN i.flags THEN i.flags[<<g, f>>] ELSE NewOptions[g][f]
  BY DEF ParseFlags, Overlay

(***************************************************************************)
(* The value of a field after unmarshalling.                               *)
(***************************************************************************)
LEMMA UnmarshalValue ==
    ASSUME NEW i, NEW o, NEW g \in DOMAIN o, NEW f \in DOMAIN o[g], <<g, f>> \in Keys
    PROVE  Unmarshal(o, i)[g][f] =
               IF <<g, f>> \notin Unbound THEN Find(i, <<g, f>>)
               ELSE IF <<g, f>> \in DOMAIN i.file THEN FindUnbound(i, <<g, f>>)
               ELSE o[g][f]
  BY DEF Unmarshal, Overlay

(***************************************************************************)
(* A key is the name of a group and the name of one of its fields.         *)
(***************************************************************************)
LEMMA KeyParts ==
    ASSUME NEW k \in Keys
    PROVE  /\ k = <<k[1], k[2]>>
           /\ k[1] \in DOMAIN NewOptions
           /\ k[2] \in DOMAIN NewOptions[k[1]]
  BY DEF Keys

(***************************************************************************)
(* Completing the options leaves all but three fields alone.               *)
(***************************************************************************)
LEMMA CompleteKeeps ==
    ASSUME NEW o \in Options, NEW k \in Keys \ Completed
    PROVE  Complete(o)[k[1]][k[2]] = o[k[1]][k[2]]
  <1>1. /\ k = <<k[1], k[2]>>
        /\ k[1] \in DOMAIN NewOptions
        /\ k[2] \in DOMAIN NewOptions[k[1]]
    BY KeyParts
  <1>2. k[1] # "jwt"
    BY <1>1 DEF Completed, NewOptions, NewJwtOptions
  <1>3. CASE k[1] = "secure"
    <2>1. k[2] # "certFile" /\ k[2] # "keyFile"
      BY <1>1, <1>3 DEF Completed
    <2>2. o.secure \in SecureServingOptions
      BY DEF Options
    <2>3. SecureComplete(o.secure)[k[2]] = o.secure[k[2]]
      <3>1. k[2] \in {"bindPort", "required", "certFile", "keyFile", "certDir", "pairName"}
        BY <1>1, <1>3 DEF NewOptions, NewSecureServingOptions
      <3> QED
        BY <2>1, <2>2, <3>1 DEF SecureComplete, SecureServingOptions
    <2> QED
      BY <1>3, <2>3 DEF Complete, Options
  <1>4. CASE k[1] # "secure"
    BY <1>1, <1>2, <1>4 DEF Complete, Options, NewOptions
  <1> QED
    BY <1>3, <1>4

(***************************************************************************)
(* The server is configured with the mode of the options.                  *)
(***************************************************************************)
LEMMA ConfiguredMode ==
    ASSUME NEW o PROVE BuildGenericConfig(o).mode = o.server.mode
  BY DEF BuildGenericConfig, FeatureApplyTo, ServerRunApplyTo, NewConfig

(***************************************************************************)
(* Every step keeps the types.                                             *)
(***************************************************************************)
LEMMA StartupTypeStep ==
    TypeOK /\ OptionsInv /\ [StartupStep]_vars
        => TypeOK'
  <1> SUFFICES ASSUME TypeOK /\ OptionsInv,
                      [StartupStep]_vars
               PROVE  TypeOK'
    OBVIOUS
  <1> USE DEF TypeOK, OptionsInv, Steps,
          At, Goto, Exit, settings, server
  <1>1. CASE Execute
    BY <1>1, InvocationAssumption DEF Execute
  <1>2. CASE ReadConfig
    BY <1>2 DEF ReadConfig
  <1>3. CASE UnmarshalOptions
    BY <1>3, InvocationAssumption DEF UnmarshalOptions
  <1>4. CASE CompleteOptions
    <2>1. Complete(opts) \in Options
      BY CompleteType
    <2>2. [opts EXCEPT !.jwt = Complete(opts).jwt] \in Options
      BY <2>1 DEF Options
    <2> QED
      BY <1>4, <2>1, <2>2 DEF CompleteOptions
  <1>5. CASE ValidateOptions
    BY <1>5 DEF ValidateOptions
  <1>6. CASE InitLog
    <2>1. New(opts.log) \in Loggers
      BY DEF New, ParseLevel, Parsed, Loggers, DebugLevel, InfoLevel, ErrorLevel, FatalLevel
    <2> QED
      BY <1>6, <2>1 DEF InitLog
  <1>7. CASE BuildServer
    <2>1. BuildGenericConfig(opts).mode \in Modes
      BY ConfiguredMode DEF Options, ServerRunOptions
    <2>2. InstallAPIs(BuildGenericConfig(opts)) \subseteq Routes
      BY DEF InstallAPIs, Routes
    <2> QED
      BY <1>7, <2>1, <2>2 DEF BuildServer
  <1>8. CASE OpenStore
    <2>1. opts.postgres.logLevel \in Int
      BY DEF Options, PostgresSQLOptions
    <2> QED
      BY <1>8, <2>1 DEF OpenStore, Open
  <1>9. CASE Migrate
    BY <1>9 DEF Migrate, Tables
  <1>10. CASE InitRouter
    BY <1>10 DEF InitRouter, Routes
  <1>11. CASE UNCHANGED vars
    BY <1>11 DEF vars
  <1> QED
    BY <1>1, <1>2, <1>3, <1>4, <1>5, <1>6, <1>7, <1>8, <1>9, <1>10, <1>11 DEF StartupStep

(***************************************************************************)
(* The options are completed and validated before anything uses them, and  *)
(* stay so.                                                                *)
(***************************************************************************)
LEMMA OptionsStep ==
    TypeOK /\ OptionsInv /\ [StartupStep]_vars
        => OptionsInv'
  <1> SUFFICES ASSUME TypeOK /\ OptionsInv,
                      [StartupStep]_vars
               PROVE  OptionsInv'
    OBVIOUS
  <1> USE DEF TypeOK, OptionsInv, AfterLog,
          At, Goto, Exit, settings, server
  <1>1. CASE Execute
    BY <1>1 DEF Execute
  <1>2. CASE ReadConfig
    BY <1>2 DEF ReadConfig
  <1>3. CASE UnmarshalOptions
    BY <1>3 DEF UnmarshalOptions
  <1>4. CASE CompleteOptions
    <2>1. ~SecureCompleteFails(opts.secure) => Ready(Complete(opts))
      BY CompleteReady
    <2> QED
      BY <1>4, <2>1 DEF CompleteOptions
  <1>5. CASE ValidateOptions
    BY <1>5 DEF ValidateOptions, Valid
  <1>6. CASE InitLog
    BY <1>6 DEF InitLog
  <1>7. CASE BuildServer
    BY <1>7 DEF BuildServer
  <1>8. CASE OpenStore
    BY <1>8 DEF OpenStore, Open
  <1>9. CASE Migrate
    BY <1>9 DEF Migrate
  <1>10. CASE InitRouter
    BY <1>10 DEF InitRouter
  <1>11. CASE UNCHANGED vars
    BY <1>11 DEF vars
  <1> QED
    BY <1>1, <1>2, <1>3, <1>4, <1>5, <1>6, <1>7, <1>8, <1>9, <1>10, <1>11 DEF StartupStep

(***************************************************************************)
(* The logger is the one of the options, and the one gorm was given.       *)
(***************************************************************************)
LEMMA LoggerStep ==
    TypeOK /\ OptionsInv /\ LoggerInv /\ [StartupStep]_vars
        => LoggerInv'
  <1> SUFFICES ASSUME TypeOK /\ OptionsInv /\ LoggerInv,
                      [StartupStep]_vars
               PROVE  LoggerInv'
    OBVIOUS
  <1> USE DEF LoggerInv, AfterLog,
          At, Goto, Exit, settings, server
  <1>1. CASE Execute
    BY <1>1 DEF Execute
  <1>2. CASE ReadConfig
    BY <1>2 DEF ReadConfig
  <1>3. CASE UnmarshalOptions
    BY <1>3 DEF UnmarshalOptions
  <1>4. CASE CompleteOptions
    BY <1>4 DEF CompleteOptions
  <1>5. CASE ValidateOptions
    BY <1>5 DEF ValidateOptions
  <1>6. CASE InitLog
    BY <1>6 DEF InitLog
  <1>7. CASE BuildServer
    BY <1>7 DEF BuildServer
  <1>8. CASE OpenStore
    BY <1>8 DEF OpenStore, Open
  <1>9. CASE Migrate
    BY <1>9 DEF Migrate
  <1>10. CASE InitRouter
    BY <1>10 DEF InitRouter
  <1>11. CASE UNCHANGED vars
    BY <1>11 DEF vars
  <1> QED
    BY <1>1, <1>2, <1>3, <1>4, <1>5, <1>6, <1>7, <1>8, <1>9, <1>10, <1>11 DEF StartupStep

(***************************************************************************)
(* The migration lets nobody past who has no database.                     *)
(***************************************************************************)
LEMMA StoreStep ==
    TypeOK /\ StoreInv /\ [StartupStep]_vars
        => StoreInv'
  <1> SUFFICES ASSUME TypeOK /\ StoreInv,
                      [StartupStep]_vars
               PROVE  StoreInv'
    OBVIOUS
  <1> USE DEF TypeOK, StoreInv, ServingHasDatabase,
          At, Goto, Exit, settings, server
  <1>1. CASE Execute
    BY <1>1 DEF Execute
  <1>2. CASE ReadConfig
    BY <1>2 DEF ReadConfig
  <1>3. CASE UnmarshalOptions
    BY <1>3 DEF UnmarshalOptions
  <1>4. CASE CompleteOptions
    BY <1>4 DEF CompleteOptions
  <1>5. CASE ValidateOptions
    BY <1>5 DEF ValidateOptions
  <1>6. CASE InitLog
    BY <1>6 DEF InitLog
  <1>7. CASE BuildServer
    BY <1>7 DEF BuildServer
  <1>8. CASE OpenStore
    BY <1>8 DEF OpenStore, Open
  <1>9. CASE Migrate
    BY <1>9 DEF Migrate
  <1>10. CASE InitRouter
    BY <1>10 DEF InitRouter
  <1>11. CASE UNCHANGED vars
    BY <1>11 DEF vars
  <1> QED
    BY <1>1, <1>2, <1>3, <1>4, <1>5, <1>6, <1>7, <1>8, <1>9, <1>10, <1>11 DEF StartupStep

(***************************************************************************)
(* A step that panics met something nobody checked.                        *)
(***************************************************************************)
LEMMA PanicStep ==
    TypeOK /\ OptionsInv /\ PanicsAreUnchecked /\ [StartupStep]_vars
        => PanicsAreUnchecked'
  <1> SUFFICES ASSUME TypeOK /\ OptionsInv /\ PanicsAreUnchecked,
                      [StartupStep]_vars
               PROVE  PanicsAreUnchecked'
    OBVIOUS
  <1> USE DEF TypeOK, PanicsAreUnchecked,
          At, Goto, Exit, settings, server
  <1>1. CASE Execute
    BY <1>1 DEF Execute
  <1>2. CASE ReadConfig
    BY <1>2 DEF ReadConfig
  <1>3. CASE UnmarshalOptions
    BY <1>3 DEF UnmarshalOptions
  <1>4. CASE CompleteOptions
    BY <1>4 DEF CompleteOptions
  <1>5. CASE ValidateOptions
    BY <1>5 DEF ValidateOptions
  <1>6. CASE InitLog
    <2>1. pc = "log" => Valid(opts)
      BY DEF OptionsInv
    <2>2. opts.log \in LogOptions
      BY DEF Options
    <2>3. Valid(opts) => ~LogInvalid(opts.log)
      BY DEF Valid, Validate
    <2> QED
      BY <1>6, <2>1, <2>2, <2>3 DEF InitLog, Builds, LogInvalid, LogOptions
  <1>7. CASE BuildServer
    BY <1>7, ConfiguredMode DEF BuildServer
  <1>8. CASE OpenStore
    BY <1>8 DEF OpenStore, Open
  <1>9. CASE Migrate
    BY <1>9 DEF Migrate
  <1>10. CASE InitRouter
    BY <1>10 DEF InitRouter
  <1>11. CASE UNCHANGED vars
    BY <1>11 DEF vars
  <1> QED
    BY <1>1, <1>2, <1>3, <1>4, <1>5, <1>6, <1>7, <1>8, <1>9, <1>10, <1>11 DEF StartupStep

(***************************************************************************)
(* Flags, environment and file are laid over the defaults.                 *)
(***************************************************************************)
LEMMA UnmarshalSources ==
    ASSUME opts = ParseFlags(NewOptions, inv), UnmarshalOptions, pc' = "complete",
           NEW k \in Keys
    PROVE  (FromSources(k) /\ DefaultOr(k))'
  <1> DEFINE g == k[1]
             f == k[2]
             parsed == ParseFlags(NewOptions, inv)
             value == Unmarshal(parsed, inv)[g][f]
  <1>1. k = <<g, f>> /\ g \in DOMAIN NewOptions /\ f \in DOMAIN NewOptions[g]
    BY KeyParts
  <1>2. /\ g \in DOMAIN parsed /\ f \in DOMAIN parsed[g]
        /\ parsed[g][f] = IF k \in DOMAIN inv.flags THEN inv.flags[k] ELSE Default(k)
    BY <1>1, ParsedValue DEF Default
  <1>3. value = IF k \notin Unbound THEN Find(inv, k)
                ELSE IF k \in DOMAIN inv.file THEN FindUnbound(inv, k)
                ELSE parsed[g][f]
    BY <1>1, <1>2, UnmarshalValue
  <1>4. Value(k)' = value /\ inv' = inv
    BY DEF UnmarshalOptions, Value, At, Goto, Exit
  <1>5. Find(inv, k) = IF k \in DOMAIN inv.flags THEN inv.flags[k]
                       ELSE IF InEnv(inv, k) THEN inv.env[k]
                       ELSE IF k \in DOMAIN inv.file THEN inv.file[k]
                       ELSE Default(k)
    BY DEF Find, Default
  <1>6. FindUnbound(inv, k) = IF InEnv(inv, k) THEN inv.env[k] ELSE inv.file[k]
    BY DEF FindUnbound
  <1>7. InEnv(inv, k)' <=> InEnv(inv, k)
    BY <1>4 DEF InEnv
  <1> HIDE DEF g, f, parsed, value
  <1> QED
    BY <1>2, <1>3, <1>4, <1>5, <1>6, <1>7 DEF FromSources, Given, Default, DefaultOr

(***************************************************************************)
(* Completing the options and using them changes no other setting.         *)
(***************************************************************************)
LEMMA SourceStep ==
    TypeOK /\ OptionsInv /\ SourceInv /\ [StartupStep]_vars
        => SourceInv'
  <1> SUFFICES ASSUME TypeOK /\ OptionsInv /\ SourceInv,
                      [StartupStep]_vars
               PROVE  SourceInv'
    OBVIOUS
  <1> USE DEF TypeOK, SourceInv, AfterLog,
          At, Goto, Exit, settings, server
  <1>0. UNCHANGED <<inv, opts>> =>
            /\ AllFromSources' <=> AllFromSources
            /\ DefaultsCompleted' <=> DefaultsCompleted
            /\ Unmarshalled' <=> Unmarshalled
    BY DEF AllFromSources, DefaultsCompleted, Unmarshalled, DefaultOr,
           FromSources, Given, Value, Default
  <1>1. CASE Execute
    BY <1>1, <1>0 DEF Execute
  <1>2. CASE ReadConfig
    BY <1>2, <1>0 DEF ReadConfig
  <1>3. CASE UnmarshalOptions
    <2>1. pc' = "complete" => opts = ParseFlags(NewOptions, inv)
      BY <1>3 DEF UnmarshalOptions, OptionsInv
    <2>2. pc' = "complete" => Unmarshalled'
      BY <1>3, <2>1, UnmarshalSources DEF Unmarshalled
    <2> QED
      BY <1>3, <2>2 DEF UnmarshalOptions
  <1>4. CASE CompleteOptions
    <2> SUFFICES ASSUME pc' = "validate" PROVE SourceInv'
      BY <1>4 DEF CompleteOptions
    <2>1. opts' = Complete(opts) /\ inv' = inv /\ pc = "complete"
      BY <1>4 DEF CompleteOptions
    <2>2. \A k \in Keys \ Completed : Value(k)' = Value(k)
      BY <2>1, CompleteKeeps DEF TypeOK, Value
    <2>3. Unmarshalled
      BY <2>1
    <2>4. AllFromSources'
      BY <2>1, <2>2, <2>3 DEF AllFromSources, Unmarshalled, FromSources
    <2>5. \A k \in Keys \ Completed : DefaultOr(k)'
      BY <2>1, <2>2, <2>3 DEF Unmarshalled, DefaultOr, Given, Default
    <2>6. ~Given(<<"jwt", "key">>) => opts.jwt.key = 0
      BY <2>3 DEF Unmarshalled, DefaultOr, Keys, NewOptions, NewJwtOptions, Value, Default
    <2>7. ~Given(<<"jwt", "key">>)' => opts'.jwt.key = 32
      BY <2>1, <2>6 DEF Complete, Options, JwtOptions, Given
    <2> QED
      BY <2>1, <2>4, <2>5, <2>7 DEF DefaultsCompleted
  <1>5. CASE ValidateOptions
    BY <1>5, <1>0 DEF ValidateOptions
  <1>6. CASE InitLog
    BY <1>6, <1>0 DEF InitLog
  <1>7. CASE BuildServer
    BY <1>7, <1>0 DEF BuildServer
  <1>8. CASE OpenStore
    BY <1>8, <1>0 DEF OpenStore
  <1>9. CASE Migrate
    BY <1>9, <1>0 DEF Migrate
  <1>10. CASE InitRouter
    BY <1>10, <1>0 DEF InitRouter
  <1>11. CASE UNCHANGED vars
    BY <1>11, <1>0 DEF vars
  <1> QED
    BY <1>1, <1>2, <1>3, <1>4, <1>5, <1>6, <1>7, <1>8, <1>9, <1>10, <1>11 DEF StartupStep

(***************************************************************************)
(* Two keys of the secure server, and their defaults.                      *)
(***************************************************************************)
LEMMA SecureKeys ==
    /\ <<"secure", "bindPort">> \in Keys /\ Default(<<"secure", "bindPort">>) = 8443
    /\ <<"secure", "pairName">> \in Keys /\ Default(<<"secure", "pairName">>) = "given"
  <1>1. "secure" \in DOMAIN NewOptions /\ NewOptions["secure"] = NewSecureServingOptions
    BY DEF NewOptions
  <1>2. /\ "bindPort" \in DOMAIN NewSecureServingOptions
        /\ "pairName" \in DOMAIN NewSecureServingOptions
        /\ NewSecureServingOptions["bindPort"] = 8443
        /\ NewSecureServingOptions["pairName"] = "given"
    BY DEF NewSecureServingOptions
  <1> QED
    BY <1>1, <1>2 DEF Keys, Default

(***************************************************************************)
(* What is not given is valid, so options that are not valid were given.   *)
(***************************************************************************)
LEMMA InvalidWasGiven ==
    ASSUME TypeOK, DefaultsCompleted, Ready(opts), Validate(opts) # {}
    PROVE  \E k \in Keys : /\ Given(k) /\ Value(k) # Default(k)
                           /\ k[1] \in {"insecure", "secure", "jwt", "log"}
  <1> DEFINE Wrong(k) == Given(k) /\ Value(k) # Default(k)
  <1>1. \A k \in Keys \ Completed : Value(k) # Default(k) => Wrong(k)
    BY DEF DefaultsCompleted, DefaultOr
  <1>2. /\ opts.insecure \in InsecureServingOptions /\ opts.secure \in SecureServingOptions
        /\ opts.jwt \in JwtOptions /\ opts.log \in LogOptions
    BY DEF TypeOK, Options
  <1>3. \/ InsecureInvalid(opts.insecure) \/ SecureInvalid(opts.secure)
        \/ JwtInvalid(opts.jwt) \/ LogInvalid(opts.log)
    BY DEF Validate
  <1>4. CASE InsecureInvalid(opts.insecure)
    <2>1. <<"insecure", "bindPort">> \in Keys \ Completed
      BY DEF Keys, Completed, NewOptions, NewInsecureServingOptions
    <2>2. Value(<<"insecure", "bindPort">>) # Default(<<"insecure", "bindPort">>)
      BY <1>2, <1>4 DEF Value, Default, NewOptions, NewInsecureServingOptions, InsecureInvalid,
                        InsecureServingOptions
    <2> QED
      BY <1>1, <2>1, <2>2
  <1>5. CASE SecureInvalid(opts.secure)
    <2>1. <<"secure", "bindPort">> \in Keys \ Completed
      BY SecureKeys DEF Completed
    <2>2. Value(<<"secure", "bindPort">>) # 8443
      BY <1>2, <1>5 DEF Value, SecureInvalid, SecureServingOptions
    <2> QED
      BY <1>1, <2>1, <2>2, SecureKeys
  <1>6. CASE JwtInvalid(opts.jwt)
    <2>1. <<"jwt", "key">> \in Keys
      BY DEF Keys, NewOptions, NewJwtOptions
    <2>2. Given(<<"jwt", "key">>)
      BY <1>6 DEF DefaultsCompleted, JwtInvalid
    <2>3. opts.jwt.key # 0
      <3>1. Complete(opts).jwt.key # 0
        BY <1>2 DEF Complete, TypeOK, Options, JwtOptions
      <3> QED
        BY <3>1 DEF Ready
    <2>4. Value(<<"jwt", "key">>) # Default(<<"jwt", "key">>)
      BY <2>3 DEF Value, Default, NewOptions, NewJwtOptions
    <2> QED
      BY <2>1, <2>2, <2>4
  <1>7. CASE LogInvalid(opts.log)
    <2>1. <<"log", "level">> \in Keys \ Completed /\ <<"log", "format">> \in Keys \ Completed
      BY DEF Keys, Completed, NewOptions, NewLogOptions
    <2>2. \/ Value(<<"log", "level">>) # Default(<<"log", "level">>)
          \/ Value(<<"log", "format">>) # Default(<<"log", "format">>)
      BY <1>2, <1>7 DEF Value, Default, NewOptions, NewLogOptions, LogInvalid, LogOptions,
                        Levels
    <2> QED
      BY <1>1, <2>1, <2>2
  <1> QED
    BY <1>3, <1>4, <1>5, <1>6, <1>7

(***************************************************************************)
(* A step that gives up does so for something the caller gave.             *)
(***************************************************************************)
LEMMA FailureStep ==
    TypeOK /\ OptionsInv /\ SourceInv /\ FailureIsTheCallers /\ [StartupStep]_vars
        => FailureIsTheCallers'
  <1> SUFFICES ASSUME TypeOK /\ OptionsInv /\ SourceInv /\ FailureIsTheCallers,
                      [StartupStep]_vars
               PROVE  FailureIsTheCallers'
    OBVIOUS
  <1> USE DEF TypeOK, OptionsInv, SourceInv, FailureIsTheCallers,
          At, Goto, Exit, settings, server
  <1>1. CASE Execute
    BY <1>1 DEF Execute
  <1>2. CASE ReadConfig
    BY <1>2 DEF ReadConfig
  <1>3. CASE UnmarshalOptions
    BY <1>3 DEF UnmarshalOptions
  <1>4. CASE CompleteOptions
    <2> SUFFICES ASSUME SecureCompleteFails(opts.secure), pc = "complete",
                        opts' = [opts EXCEPT !.jwt = Complete(opts).jwt], inv' = inv
                 PROVE  FailureIsTheCallers'
      BY <1>4 DEF CompleteOptions
    <2>1. <<"secure", "pairName">> \in Keys
      BY SecureKeys
    <2>2. Value(<<"secure", "pairName">>) # Default(<<"secure", "pairName">>)
      <3>1. Value(<<"secure", "pairName">>) = opts.secure.pairName
        BY DEF Value
      <3>2. opts.secure.pairName = ""
        BY DEF SecureCompleteFails
      <3>3. Default(<<"secure", "pairName">>) = "given"
        BY SecureKeys
      <3>4. "given" # ""
        OBVIOUS
      <3> QED
        BY <3>1, <3>2, <3>3, <3>4
    <2>3. Given(<<"secure", "pairName">>)
      BY <2>1, <2>2 DEF Unmarshalled, DefaultOr
    <2>4. Value(<<"secure", "pairName">>)' = Value(<<"secure", "pairName">>)
      BY DEF Value, Options
    <2> QED
      BY <2>1, <2>2, <2>3, <2>4 DEF Given, Default
  <1>5. CASE ValidateOptions
    <2> SUFFICES ASSUME Validate(opts) # {}, pc = "validate", UNCHANGED settings
                 PROVE  FailureIsTheCallers'
      BY <1>5 DEF ValidateOptions
    <2>1. \E k \in Keys : /\ Given(k) /\ Value(k) # Default(k)
                          /\ k[1] \in {"insecure", "secure", "jwt", "log"}
      BY InvalidWasGiven
    <2> QED
      BY <2>1 DEF Given, Value, Default
  <1>6. CASE InitLog
    BY <1>6 DEF InitLog
  <1>7. CASE BuildServer
    BY <1>7 DEF BuildServer
  <1>8. CASE OpenStore
    BY <1>8 DEF OpenStore
  <1>9. CASE Migrate
    BY <1>9 DEF Migrate
  <1>10. CASE InitRouter
    BY <1>10 DEF InitRouter
  <1>11. CASE UNCHANGED vars
    BY <1>11 DEF vars, Given, Value, Default
  <1> QED
    BY <1>1, <1>2, <1>3, <1>4, <1>5, <1>6, <1>7, <1>8, <1>9, <1>10, <1>11 DEF StartupStep

-----------------------------------------------------------------------------
(***************************************************************************)
(* Nothing has happened yet: the initial state satisfies the invariant.    *)
(***************************************************************************)
LEMMA InitStartup == Init => StartupInv
  <1> SUFFICES ASSUME Init PROVE StartupInv
    OBVIOUS
  <1>1. NewOptions \in Options
    BY MiddlewaresAssumption
       DEF NewOptions, Options, NewServerRunOptions, NewConfig, ServerRunOptions,
           NewInsecureServingOptions, InsecureServingOptions, NewSecureServingOptions,
           SecureServingOptions, NewPostgresSQLOptions, PostgresSQLOptions,
           NewJwtOptions, JwtOptions, NewLogOptions, LogOptions, NewFeatureOptions,
           FeatureOptions, Modes, Texts, Levels
  <1>2. New(NewLogOptions) \in Loggers
    BY DEF New, NewLogOptions, ParseLevel, Parsed, Loggers, DebugLevel, InfoLevel,
           ErrorLevel, FatalLevel
  <1> QED
    BY <1>1, <1>2, InvocationAssumption
       DEF Init, StartupInv, SourceInv, FailureIsTheCallers, TypeOK, OptionsInv, LoggerInv,
           StoreInv, PanicsAreUnchecked,
           ServingHasDatabase, Steps, Tables, NoEngine, NoLogger, AfterLog, Loggers,
           DebugLevel, FatalLevel

(***************************************************************************)
(* The invariant holds at every stage of the start, whatever it was called *)
(* with.                                                                   *)
(***************************************************************************)
THEOREM StartupInvariance == StartupSpec => []StartupInv
  <1>1. StartupInv /\ [StartupStep]_vars => StartupInv'
    BY StartupTypeStep, OptionsStep, LoggerStep, StoreStep, PanicStep, SourceStep, FailureStep
       DEF StartupInv
  <1> QED
    BY <1>1, InitStartup, PTL DEF StartupSpec

(***************************************************************************)
(* The server of ApiServer starts like this: a request changes nothing of  *)
(* it.                                                                     *)
(***************************************************************************)
THEOREM ServerStarts == ServerSpec => StartupSpec
  <1>1. ServerInit => Init
    BY DEF ServerInit
  <1>2. [ServerNext]_allVars => [StartupStep]_vars
    BY DEF ServerNext, StartStep, RequestStep, Arrive, RequestID, Context, Abort, GoOn,
           Endpoint, Back, Finish, allVars, vars
  <1> QED
    BY <1>1, <1>2, PTL DEF ServerSpec, StartupSpec

(***************************************************************************)
(* The variables stay within their types.                                  *)
(***************************************************************************)
THEOREM StartupTypeCorrect == ServerSpec => []TypeOK
  <1>1. StartupInv => TypeOK
    BY DEF StartupInv
  <1> QED
    BY <1>1, ServerStarts, StartupInvariance, PTL

(***************************************************************************)
(* Nothing is built from options that are not complete and valid.          *)
(***************************************************************************)
THEOREM UsedOptionsAreValid == ServerSpec => []ValidBeforeUse
  <1>1. StartupInv => ValidBeforeUse
    BY DEF StartupInv, OptionsInv, ValidBeforeUse, Started, AfterLog, Valid, Ready
  <1> QED
    BY <1>1, ServerStarts, StartupInvariance, PTL

(***************************************************************************)
(* Nobody is served without a database.                                    *)
(***************************************************************************)
THEOREM ServersHaveADatabase == ServerSpec => []ServingHasDatabase
  <1>1. StartupInv => ServingHasDatabase
    BY DEF StartupInv, StoreInv
  <1> QED
    BY <1>1, ServerStarts, StartupInvariance, PTL

(***************************************************************************)
(* A start panics for one of four reasons only.                            *)
(***************************************************************************)
THEOREM PanicsWereUnchecked == ServerSpec => []PanicsAreUnchecked
  <1>1. StartupInv => PanicsAreUnchecked
    BY DEF StartupInv
  <1> QED
    BY <1>1, ServerStarts, StartupInvariance, PTL

(***************************************************************************)
(* What becomes of the database's errors is decided by the two levels, for *)
(* every configuration.                                                    *)
(***************************************************************************)
THEOREM ErrorsAreLogged == ServerSpec => []DatabaseErrorsLogged
  <1>1. StartupInv => DatabaseErrorsLogged
    <2> SUFFICES ASSUME StartupInv, pc = "serve"
                 PROVE  TraceWritten(gormLogger.std, gormLogger.level, TRUE, FALSE)
                            <=> opts.postgres.logLevel >= Error
                                /\ opts.log.level \in {"debug", "info"}
      BY DEF DatabaseErrorsLogged
    <2>1. opts.log \in LogOptions /\ opts.postgres.logLevel \in Int
      BY DEF StartupInv, TypeOK, Options, PostgresSQLOptions
    <2>2. ~LogInvalid(opts.log)
      BY DEF StartupInv, OptionsInv, AfterLog, Valid, Validate
    <2>3. gormLogger.std = New(opts.log) /\ gormLogger.level = opts.postgres.logLevel
      BY DEF StartupInv, LoggerInv, AfterLog
    <2>4. Enabled(New(opts.log), InfoLevel) <=> opts.log.level \in {"debug", "info"}
      BY <2>1, <2>2, InfoEnabled
    <2> QED
      BY <2>1, <2>3, <2>4 DEF TraceWritten, Traces, Reports, Error, Warn, Info
  <1> QED
    BY <1>1, ServerStarts, StartupInvariance, PTL

(***************************************************************************)
(* Flag, environment, file and default prevail in this order, whatever     *)
(* they hold, but for the two keys that no flag is named after.            *)
(***************************************************************************)
THEOREM SettingsFromSources == ServerSpec => []StrongestSourceWins
  <1>1. StartupInv => StrongestSourceWins
    BY DEF StartupInv, SourceInv, Unmarshalled, AllFromSources, AfterLog, StrongestSourceWins
  <1> QED
    BY <1>1, ServerStarts, StartupInvariance, PTL

(***************************************************************************)
(* A start fails with exit code 1 only for what its caller gave.           *)
(***************************************************************************)
THEOREM CallersFail == ServerSpec => []FailureIsTheCallers
  <1>1. StartupInv => FailureIsTheCallers
    BY DEF StartupInv
  <1> QED
    BY <1>1, ServerStarts, StartupInvariance, PTL

=============================================================================
