CONSTANTS
    Proc = {p1, p2, p3}
    Run = {r1}
    Dataset = {ds1}
    Data = {d1}
    Slug = {s1}
    Typed = {ds1}
    Store = {st1}
    DatasetOf <- MCDatasetOf
    StoreOf <- MCStoreOf
    Scopes = {"WholeRun", "Nothing"}
    Incremental = {TRUE}
    MaxFaults = 4
    Free = Free
    NoRun = NoRun
    FirstData = d1
    SecondDataset = ds2
SPECIFICATION Spec
SYMMETRY InterchangeableProc
INVARIANTS
    RecoveryOnlyDead
    OneRecoverer
PROPERTIES
    RolledBackBeforeClosed
