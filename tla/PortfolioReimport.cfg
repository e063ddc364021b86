SPECIFICATION Spec
CONSTANTS
    a1 = a1
    a2 = a2
    t1 = t1
    t2 = t2
    t3 = t3
    r1 = r1
    Accounts = {a1, a2}
    Trades = {t1, t2, t3}
    Rows = {r1}
    TradeOf <- RowTrade
    AccountOf <- RowAccount
    None = None
    MaxFresh = 4
    MaxOps = 3
    MaxFaults = 0
    MaxAnswers = 2
    Recorded <- TopicRecorded
    Entries <- TopicEntries
    Actions <- TopicActions
    Transfers <- TopicTransfers
    Portfolios <- TopicPortfolios
    Listed <- Securities
    MaxEntries <- NoEntries
INVARIANT EachTradeOnce
CHECK_DEADLOCK FALSE
