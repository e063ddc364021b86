SPECIFICATION FairSpec
CONSTANTS
    Contracts = {c1}
    WebTasks = {a, b}
    WorkerTasks = {w}
    WebReaders = {r}
    ThreadReaders = {s}
    Nobody = Nobody
    ReadMayFail = TRUE
    WriteMayFail = TRUE
    MayHang = TRUE
    MaxRefreshes = 3
INVARIANTS Saved
PROPERTIES NoLostUpdate RefreshCompletes
CHECK_DEADLOCK FALSE
