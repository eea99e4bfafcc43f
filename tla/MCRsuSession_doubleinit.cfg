CONSTANTS
    t1 = t1
    t2 = t2
    Threads <- MCThreads2
    Lifecycle <- MCThreads2
    InitState = "un_initialized"
    MaxCalls = 4
    MaxFailures = 0
SPECIFICATION Spec
INVARIANT SessionConsistent
CHECK_DEADLOCK FALSE
