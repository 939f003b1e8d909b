SPECIFICATION Spec
CONSTANTS
    None = None
    Requests = {r1, r2}
    Inputs <- RangeInputs
    AccountIds <- ThreeAccounts
    SeedAccounts <- Treasury
    Keys = {"p", "q"}
    Currencies = {"EUR"}
    Descriptions = {"d"}
    MaxMagnitude = 5
    MaxConnections = 3
    HasBalanceCheck = TRUE
    Faults = {}
    MaxConflictRetries = 1
    AllowFundingAccountCreation = FALSE
INVARIANTS NoInternalError
