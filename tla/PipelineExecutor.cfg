\* Two items, one at a time or both at once.
CONSTANTS
    Items = 2
    Pipelines <- MCPipelines
    Concurrencies = {1, 2}
    BatchSize = 2
    MaxAttempts = 2
    MaxYield = 3
    Capacity = 1
SPECIFICATION FairSpec
INVARIANTS
    TypeOK
    CompletedIsComplete
    MarkedIsDone
    CancelStopsWork
    FailureStopsRun
PROPERTY CancelEnds
