SPECIFICATION Spec
CONSTANTS
    r1 = r1
    r2 = r2
    r3 = r3
    Requests = {r1, r2, r3}
    Users = {u1}
    Receiving = R
    Sending = S
    PublicKeys = {k1, k2}
    Urls = {url}
    NoUrl = nourl
    Commissions = {c1}
    DefaultCommission = c0
    None = none
    MaxFaults = 1
SYMMETRY Symmetry
INVARIANTS TypeOK AnswersHold FundedIsStored EntryHasWallets RefusedHasWallet
PROPERTIES NoOtherLoss
