SPECIFICATION Spec
CONSTANTS
    None = None
    Requests = {}
    Descriptions = {}
    MaxConflictRetries = 0
    usd = usd
    AccountIds = {1, 2}
    Currencies = {usd, eur}
    Keys = {k1}
    Sessions = {s1, s2}
    TransactionIds = {t1}
    EntryIds = {e1, e2}
    Amounts = {1}
    Balances = {0}
    SeedAccounts <- FirstOpen
    MaxMagnitude = 3
    Xids = {x1, x2}
PROPERTY Sealed
SYMMETRY Symmetry
CHECK_DEADLOCK FALSE
