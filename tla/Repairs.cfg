SPECIFICATION Spec
CONSTANTS
    None = None
    m1 = m1
    m2 = m2
    s1 = s1
    eur = eur
    Movements = {m1, m2}
    Sessions = {s1}
    Currencies = {eur}
    MaxRuns = 2
    MaxEdits = 2
    MaxFaults = 1
    b1 = b1
    b2 = b2
    Buys = {b1, b2}
    Values = {0, 3}
    Fees = {0, 1}
    Rates = {1, 2}
    MaxBuyRuns = 3
    MaxBuyEdits = 2
    l1 = l1
    l2 = l2
    Legs = {l1, l2}
    GivenLegs <- LegsGiven
    MaxLegRuns = 3
    MaxLegEdits = 1
    MaxMigrations = 3
    MaxConfigEdits = 2
    MaxConfigFaults = 1
    x1 = x1
    x2 = x2
    Securities = {x1, x2}
    CompanyChecked = {x1}
    MaxSymbolRuns = 2
    MaxSymbolEdits = 2
INVARIANTS
    
    RepairsHold
    RestoreUndoes
CHECK_DEADLOCK FALSE
