CONSTANTS
    t1 = t1
    t2 = t2
    Threads <- MCThreads2
    Lifecycle <- MCLifecycle
    InitState = "initialized"
    MaxCalls = 4
    MaxFailures = 0
SPECIFICATION Spec
INVARIANT CallsSeeOpenDatabase
CHECK_DEADLOCK FALSE
