SPECIFICATION FairSpec
CONSTANTS
    None = None
    Requests = {r1, r2, r3}
    Inputs <- OpposingInputs
    AccountIds <- FourAccounts
    SeedAccounts <- RingAccounts
    Keys = {"ab", "ba", "bc", "ca", "self", "zero", "usd"}
    Currencies = {"EUR", "USD"}
    Descriptions = {"d"}
    MaxMagnitude = 10
    MaxConnections = 3
    HasBalanceCheck = TRUE
    Faults = {}
    MaxConflictRetries = 0
    AllowFundingAccountCreation = FALSE
INVARIANTS NoWaitCycle NoInternalError
PROPERTIES EveryRequestAnswered
