SPECIFICATION RunSpec
CONSTANTS
    Ids = {p1, p2}
    Strikes = {s1, s2}
    Expirations = {e1, e2}
    Kinds = {"call", "put"}
    None = None
    MaxWrites = 2
    MaxSlow = 0
    MaxNow = 2
    Runs = {r1}
    Crons = {c1}
    TargetStrikes = {s3}
    TargetExpirations = {e3}
SYMMETRY Interchangeable
INVARIANTS
    ObservationsCurrent
    ScoresMatch
    DecisionsHold
CHECK_DEADLOCK FALSE
