CONSTANTS
    Proc = {p1}
    Run = {r1, r2}
    Dataset = {ds1, ds2}
    Data = {d1, d2}
    Slug = {s1}
    Typed = {ds1}
    Store = {st1}
    DatasetOf <- MCDatasetOf
    StoreOf <- MCStoreOf
    Scopes = {"WholeRun"}
    Incremental = {TRUE}
    MaxFaults = 0
    Free = Free
    NoRun = NoRun
    FirstData = d1
    SecondDataset = ds2
SPECIFICATION Spec
INVARIANT MarkedBacked
