SPECIFICATION Spec
CONSTANTS
    r1 = r1
    r2 = r2
    r3 = r3
    m1 = m1
    m2 = m2
    Requests = {r1}
    Merchants = {m1}
    WithWallets = {m1}
    Foreign = {f}
    Null = null
    Empty = empty
    None = none
    Holder <- HolderOf
    Initial = 1
    MaxRows = 1
    MaxLinks = 1
    MaxFaults = 0
PROPERTIES RejectedIsDeleted
