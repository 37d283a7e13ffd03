CONSTANTS
    Proc = {p1, p2}
    Run = {r1, r2}
    Dataset = {ds1}
    Data = {d1}
    Slug = {s1}
    Typed = {}
    Store = {st1}
    DatasetOf <- MCDatasetOf
    StoreOf <- MCStoreOf
    Scopes = {"WholeRun"}
    Incremental = {TRUE}
    MaxFaults = 1
    Free = Free
    NoRun = NoRun
    FirstData = d1
    SecondDataset = ds2
SPECIFICATION Spec
INVARIANT RecoverySparesLiveRuns
