CONSTANTS
    Proc = {p1}
    Run = {r1, r2}
    Dataset = {ds1}
    Data = {d1, d2}
    Slug = {s1}
    Typed = {ds1}
    Store = {st1}
    DatasetOf <- MCDatasetOf
    StoreOf <- MCStoreOf
    Scopes = {"WholeRun", "FailedItems"}
    Incremental = {TRUE, FALSE}
    MaxFaults = 1
    Free = Free
    NoRun = NoRun
    FirstData = d1
    SecondDataset = ds2
SPECIFICATION Spec
SYMMETRY Interchangeable
INVARIANTS
    TypeOK
    NoOwnerlessArtifact
    MarkedBacked
    OnePerDataset
