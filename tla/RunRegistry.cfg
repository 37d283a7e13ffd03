\* A background run and an inline run in a registry with room for one.
CONSTANTS
    Run = {r1, r2}
    Background = {r1}
    MaxRuns = 1
    MaxChannels = 2
    NoRun = NoRun
    r1 = r1
    r2 = r2
    Scenarios <- MCScenarios
SPECIFICATION FairSpec
CHECK_DEADLOCK FALSE
INVARIANTS TypeOK LastWord
PROPERTIES EvictsOnlyEnded SubscriberHears
