SPECIFICATION Spec
CONSTANTS
    t1 = t1
    t2 = t2
    t3 = t3
    a = a
    b = b
    Trials <- MCTrials
    TrialIds <- MCTrialIds
    TaskOf <- MCTaskOf
    Benchmarks <- MCBenchmarks
    Filters <- MCFilters
    BatchSize = 2
INVARIANTS
    TypeOK
    EndedBeforeSubmit
    RecordedInFull
    RequestedAreTried
PROPERTIES
    RunEnds
\* the process ends
CHECK_DEADLOCK FALSE
