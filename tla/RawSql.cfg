SPECIFICATION Spec
CONSTANTS
    None = None
    Requests = {}
    Descriptions = {}
    MaxConflictRetries = 0
    usd = usd
    AccountIds = {1, 2}
    Currencies = {usd, eur}
    Keys = {k1, k2}
    Sessions = {s1, s2}
    TransactionIds = {t1, t2}
    EntryIds = {e1, e2}
    Amounts = {0, 1}
    Balances = {0}
    SeedAccounts <- FirstOpen
    MaxMagnitude = 3
    Xids = {x1, x2}
INVARIANTS
    TypeOK
    AnySqlBalances
    EntriesAnchored
    WritesConfined
PROPERTY SealedOnceClosed
SYMMETRY Symmetry
CHECK_DEADLOCK FALSE
