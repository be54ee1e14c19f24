SPECIFICATION Spec
CONSTANTS
    plain = plain
    help = help
    bare = bare
    Calls <- MCCalls
    Explicit <- MCExplicit
    Timeoutless <- MCTimeoutless
    DefaultTimeout = 300
    RetryTimeout = 1500
INVARIANTS
    TypeOK
    ResultTookEffect
    AtMostTwice
PROPERTIES
    ResultIsFinal
    TimedCallsReturn
    ImplementsAtLeastOnce
\* the trial stops when its calls are made, or waits on a call without timeout
CHECK_DEADLOCK FALSE
