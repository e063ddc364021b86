CONSTANTS
    QuoteFields <- QuoteAndTrade
    ObservedFields <- ActivityFields
    OccSymbols <- Occ
    DegeneracyMin = 2
    Strikes = {1, 2}
    Expirations = {1, 2}
    YfBuckets <- YfAnswers
    TvBuckets <- TvAnswers
    LastDay = 3
    MaxCycles = 3
SPECIFICATION Spec
INVARIANTS NeverDropped LastKnownGood FieldsHonest
PROPERTY OccNeverDowngraded
CHECK_DEADLOCK FALSE
