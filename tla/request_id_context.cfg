SPECIFICATION ServerSpec
CONSTANTS
    Middlewares <- NoMiddlewares
    Invocations <- PlainInvocation
    Requests <- SomeRequests
\* A process that has exited takes no step.
CHECK_DEADLOCK FALSE
INVARIANT
    RequestIdInContext
