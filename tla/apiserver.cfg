SPECIFICATION ServerSpec
CONSTANTS
    Middlewares <- SomeMiddlewares
    Invocations <- SomeInvocations
    Requests <- SomeRequests
\* A process that has exited takes no step.
CHECK_DEADLOCK FALSE
INVARIANTS
    TransitOK
    ValidBeforeUse
    FailureIsTheCallers
    StrongestSourceWins
    PanicsAreUnchecked
    ServingHasDatabase
    DatabaseErrorsLogged
    RequestIdConsistent
    AccessLogged
    RequestsAnswered
