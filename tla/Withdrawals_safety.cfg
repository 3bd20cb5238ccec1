SPECIFICATION Spec
CONSTANTS
    m1 = m1
    m2 = m2
    Merchants = {m1, m2}
    MaxTrx = 2
    Owner <- OneOwner
    Amount <- Rising
    Fix = 0
    Percent = 10
    InitialReceiving = 1
    InitialSending = 3
    InitialHot = 1
    MaxApprovals = 2
    MaxFaults = 2
INVARIANTS TypeOK ChargedPerApproval PaidPerCharge StatusIsTrue
PROPERTIES RejectionHolds ImplementsContract
