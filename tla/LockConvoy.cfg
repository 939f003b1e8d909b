SPECIFICATION Spec
CONSTANTS
    None = None
    Requests = {r1, r2}
    Inputs <- RingInputs
    AccountIds <- FourAccounts
    SeedAccounts <- RingAccounts
    Keys = {"ab", "ba", "bc", "ca"}
    Currencies = {"EUR", "USD"}
    Descriptions = {"d"}
    MaxMagnitude = 10
    MaxConnections = 3
    HasBalanceCheck = TRUE
    Faults = {"lock_timeout"}
    MaxConflictRetries = 0
    AllowFundingAccountCreation = FALSE
INVARIANTS NoInternalError
