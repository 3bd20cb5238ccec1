SPECIFICATION Spec
CONSTANTS
    m1 = m1
    m2 = m2
    Merchants = {m1}
    MaxTrx = 1
    Owner <- OneOwner
    Amount <- Rising
    Fix = 1
    Percent = 0
    InitialReceiving = 0
    InitialSending = 5
    InitialHot = 1
    MaxApprovals = 2
    MaxFaults = 0
INVARIANT PaidOnceWithoutFaults
