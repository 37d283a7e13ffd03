SPECIFICATION Spec
CONSTANTS
    c1 = c1
    c2 = c2
    c3 = c3
    d1 = d1
    d2 = d2
    i1 = i1
    i2 = i2
    own1 = own1
    own2 = own2
    shared = shared
    kind = kind
    None = None
    Call = {c1, c2, c3}
    Dataset = {d1, d2}
    Item = {i1, i2}
    Content = {1, 2}
    Node = {own1, own2, shared, kind}
    Type = {kind}
    Extracts <- MCExtracts
    Scenarios <- UpdateScenarios
PROPERTY UpdateTakesEffect
