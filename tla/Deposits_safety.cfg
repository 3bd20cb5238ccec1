SPECIFICATION Spec
CONSTANTS
    m1 = m1
    m2 = m2
    a1 = a1
    a2 = a2
    Merchants = {m1, m2}
    Assets = {a1}
    MaxKey = 3
    UserKeys = {1, 3}
    MerchantOf <- TwoMerchants
    MaxTrx = 3
    MaxDeposit = 2
    Fix = 0
    Percent = 10
    MinimumValue = 1
    MaxFaults = 1
INVARIANTS TypeOK SweptOnce SettledNet UnsweptCreditedOnce
PROPERTIES ImplementsContract
