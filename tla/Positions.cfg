SPECIFICATION DocumentSpec
CONSTANTS
    Ids = {p1, p2, p3}
    Strikes = {s1, s2}
    Expirations = {e1, e2}
    Kinds = {"call"}
    None = None
    MaxWrites = 3
    MaxSlow = 2
    MaxNow = 2
SYMMETRY Interchangeable
INVARIANTS
    OneSuccessor
PROPERTY
    CorrectionsKeep
CHECK_DEADLOCK FALSE
