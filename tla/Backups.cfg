SPECIFICATION Spec
CONSTANTS
    account = account
    settings = settings
    b0 = b0
    b1 = b1
    b2 = b2
    r1 = r1
    r2 = r2
    Items = {account, settings}
    Settings = {settings}
    ApplyOrder <- Order
    Makers = {r1, r2}
    Imports = {r1, r2}
    Backups = {b0, b1, b2}
    None = None
    MaxOperations = 2
    MaxEdits = 1
    First = b0
    LastDay = 3
    MonthLength = 1
    Retention = 1
    KeepMonths = 2
    MaxMisreads = 1
SYMMETRY Symmetric
INVARIANTS
    RolledBackIsClean
    ArchivesProtected
PROPERTIES
    ForeignDataSurvives
    LatestNeverBack
CHECK_DEADLOCK FALSE
