SPECIFICATION FairSpec
CONSTANTS
    a = a
    b = b
    c = c
    d1 = d1
    d2 = d2
    Call = {a, b, c}
    Session = {1, 2}
    Dataset = {d1, d2}
    Scenarios <- MCScenarios
    Threshold = 2
    Overlap = 1
    MaxWindow = 2
    PruneThreshold = 1
CHECK_DEADLOCK FALSE
INVARIANTS TypeOK OneImprovePerSession SeenBeforePassed NothingStranded
PROPERTIES ImprovesEnd WaitReturns
