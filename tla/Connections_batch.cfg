SPECIFICATION PoolFairSpec
CONSTANTS
    m1 = m1
    Merchants = {m1}
    MaxTrx = 2
    Owner <- OneOwner
    Amount <- Rising
    Fix = 0
    Percent = 0
    InitialReceiving = 1
    InitialSending = 3
    InitialHot = 1
    MaxApprovals = 2
    MaxFaults = 1
    MaxOpenConns = 11
INVARIANTS PoolTypeOK FivePerWithdrawal
PROPERTIES ServedOrExhausted
CHECK_DEADLOCK FALSE
