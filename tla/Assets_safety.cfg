SPECIFICATION Spec
CONSTANTS
    r1 = r1
    r2 = r2
    r3 = r3
    m1 = m1
    m2 = m2
    Requests = {r1, r2, r3}
    Merchants = {m1, m2}
    WithWallets = {m1}
    Foreign = {f}
    Null = null
    Empty = empty
    None = none
    Holder <- HolderOf
    Initial = 2
    MaxRows = 2
    MaxLinks = 1
    MaxFaults = 1
SYMMETRY Symmetry
INVARIANTS TypeOK IssuerHoldsStranded UnlinkedByReject ActiveIsIssued ApprovedIsActive
