SPECIFICATION Spec
CONSTANTS
    None = None
    Requests = {r1, r2}
    AccountIds = {1, 2, 3, 4}
    Currencies = {"EUR", "USD"}
    Keys = {1, 2}
    Descriptions = {0, 1}
    MaxConflictRetries = 0
    MaxMagnitude = 100
    MaxScale = 1
    MaxIntegerDigits = 1
    MaxDecimalScale = 2
    MaxMantissa = 999
    MaxKeyLength = 2
    MaxDescriptionLength = 1
    MaxNameLength = 1
    AllowFundingAccountCreation = FALSE
    SeedAccounts <- Seed
    RawTransfers <- Transfers
    RawAccounts <- Openings
    Drifts <- Drifted
SYMMETRY Symmetry
INVARIANTS EdgeTypeOK StatusTellsTruth ExactAmounts RefusedForCause HashedByValue
    ArithmeticExact RowsReadable NoFalseAlarm DamageReported
