SPECIFICATION Spec
CONSTANTS
    None = None
    Requests = {r1, r2, r3}
    Inputs <- ContentionInputs
    AccountIds <- ThreeAccounts
    SeedAccounts <- Treasury
    Keys = {"fund", "k", "d"}
    Currencies = {"EUR"}
    Descriptions = {"d"}
    MaxMagnitude = 10
    MaxConnections = 2
    HasBalanceCheck = FALSE
    Faults = {"conflict", "lock_timeout", "cancel"}
    MaxConflictRetries = 1
    AllowFundingAccountCreation = FALSE
SYMMETRY Symmetry
INVARIANTS TypeOK NoOverdraft FundsSecured BalancesMatchLog LogBalanced TransferDiscipline
    OneTransactionPerKey AnswersTruthful ReplaysAgree WinnerAlwaysFound
PROPERTIES AppendOnly ImplementsService
