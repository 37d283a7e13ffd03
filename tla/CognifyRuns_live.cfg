CONSTANTS
    Proc = {p1}
    Run = {r1, r2}
    Dataset = {ds1}
    Data = {d1}
    Slug = {s1}
    Typed = {}
    Store = {st1}
    DatasetOf <- MCDatasetOf
    StoreOf <- MCStoreOf
    Scopes = {"WholeRun"}
    Incremental = {TRUE}
    MaxFaults = 2
    Free = Free
    NoRun = NoRun
    FirstData = d1
    SecondDataset = ds2
SPECIFICATION FairSpec
PROPERTIES
    AbandonedRunsAreClosed
    CallsReturn
INVARIANT FailedRunLeavesNothing
