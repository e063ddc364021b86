SPECIFICATION FairSpec
CONSTANTS
    s1 = s1
    s2 = s2
    r1 = r1
    r2 = r2
    r3 = r3
    Symbols = {s1, s2}
    Requests = {r1, r2, r3}
    SymbolOf <- TwoSymbols
    Nobody = Nobody
    MaxPrecomputes = 1
    None = None
    NoDate = NoDate
    Garbled = Garbled
    StaleAfter = 4
    MaxRowsPerSide = 2
    NumStrikes = 1
    NumExpiries = 2
    RowReadings <- GivenRows
    RollReadings <- GivenRolls
    PageReadings <- GivenPages
INVARIANTS RowsHonest RollsAgree PagesAgree
PROPERTIES CarriedForward RefreshEnds
CHECK_DEADLOCK FALSE
