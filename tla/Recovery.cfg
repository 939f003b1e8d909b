SPECIFICATION FairSpec
CONSTANTS
    None = None
    Requests = {r1, r2}
    Inputs <- RecoveryInputs
    AccountIds <- ThreeAccounts
    SeedAccounts <- RecoveryAccounts
    Keys = {"fund", "spend", "gone"}
    Currencies = {"EUR"}
    Descriptions = {"d"}
    MaxMagnitude = 3
    MaxConnections = 1
    HasBalanceCheck = TRUE
    Faults = {"conflict", "lock_timeout", "connection", "cancel"}
    MaxConflictRetries = 1
    AllowFundingAccountCreation = FALSE
INVARIANTS NoWaitCycle
PROPERTIES EveryRequestAnswered AnsweredLetsGo ObeysSchema
