SPECIFICATION FairBridgeSpec
CONSTANTS
    Deposits <- MCDeposits
    Withdrawals <- MCWithdrawals
    Requests <- MCRequests
    Amount <- MCAmount
    MaxHeight = 3
    MaxUnbacked = 1
    MaxCrashes = 1
    MaxRejections = 1
INVARIANTS
    BridgeTypeOK
    PaidOnceAndCommitted
    Solvent
PROPERTIES
    WithdrawalsPaid
CHECK_DEADLOCK FALSE
