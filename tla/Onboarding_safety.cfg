SPECIFICATION Spec
CONSTANTS
    r1 = r1
    r2 = r2
    r3 = r3
    r4 = r4
    u1 = u1
    u2 = u2
    Requests = {r1, r2, r3, r4}
    Users = {u1, u2}
    Known = test
    None = none
    MaxRows = 4
    MaxBlocked = 1
    MaxFaults = 1
SYMMETRY Symmetry
INVARIANTS TypeOK OnboardedHasMerchant SessionIsStored ApprovedOrOverwritten GrantedIsOnboarded
PROPERTIES AccessHolds
