SPECIFICATION Spec
CONSTANTS
    m1 = m1
    m2 = m2
    a1 = a1
    a2 = a2
    Merchants = {m1}
    Assets = {a1}
    MaxKey = 1
    UserKeys = {1}
    MerchantOf <- OneMerchant
    MaxTrx = 2
    MaxDeposit = 1
    Fix = 0
    Percent = 0
    MinimumValue = 1
    MaxFaults = 0
INVARIANTS RowsWithinDeposits
