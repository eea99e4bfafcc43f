CONSTANTS
    t1 = t1
    t2 = t2
    Threads <- MCThreads2
    Lifecycle <- MCLifecycle
    InitState = "un_initialized"
    MaxCalls = 7
    MaxFailures = 2
SPECIFICATION Spec
INVARIANT SessionConsistent
CHECK_DEADLOCK FALSE
