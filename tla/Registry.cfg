CONSTANTS
    NoCron = NoCron
    NumTasks = 1
    StartupTasks = {1}
    Crons = {hourly, daily, garbage}
    ValidCrons = {hourly, daily}
    WebOps = {"trigger", "cron", "enabled", "form", "external"}
    CanTimeout = TRUE
    MaxWebOps = 1
    MaxIterations = 2
    MaxBehind = 1
    MaxQueue = 2
    MaxLingering = 1
SPECIFICATION FairSpec
INVARIANTS CronAdopted ScheduleParsed NoDoubleDispatch
PROPERTIES Settles
CHECK_DEADLOCK FALSE
