------------------------------ MODULE Logging ------------------------------
(***************************************************************************)
(* pkg/log over zap, as far as it decides which lines are written: the     *)
(* level a logger is built with, the fields L adds from a context, and     *)
(* gorm's logger of internal/pkg/logger, which writes through a standard   *)
(* library logger of the info level whatever it reports.                   *)
(***************************************************************************)
EXTENDS Integers

DebugLevel == -1
InfoLevel == 0
ErrorLevel == 2
FatalLevel == 5

Parsed == [debug |-> DebugLevel, info |-> InfoLevel, warn |-> 1, error |-> ErrorLevel,
           dpanic |-> 3, panic |-> 4, fatal |-> FatalLevel]

\* A level that does not parse becomes info.
ParseLevel(name) == IF name \in DOMAIN Parsed THEN Parsed[name] ELSE InfoLevel

\* zap builds no logger for an encoding it does not know, letter for letter,
\* nor for a path it cannot open; New panics then.
Builds(opts) == opts.format \in {"console", "json"} /\ opts.outputPaths = "stdout"

\* A logger is the lowest level it writes.
New(opts) == ParseLevel(opts.level)
Loggers == DebugLevel .. FatalLevel

\* Debug, Info, Warn and Error, in each of their forms, write at their level.
Enabled(logger, level) == level >= logger

\* The request id of a line of L: what the context holds under requestID, even
\* if it is empty, and no field if it holds nothing.
L(keys) == keys.requestID

\* gorm's levels.
Silent == 1
Error == 2
Warn == 3
Info == 4

\* What is reported at a level of gorm's.
Reports(level, at) == level >= at

\* Whether Trace reports a statement to its writer.
Traces(level, failed, slow) ==
    \/ failed /\ Reports(level, Error)
    \/ slow /\ Reports(level, Warn)
    \/ Reports(level, Info)

\* The writer is StdInfoLogger of the logger that was the global one when the
\* gorm logger was made.
TraceWritten(logger, level, failed, slow) ==
    Traces(level, failed, slow) /\ Enabled(logger, InfoLevel)
=============================================================================
