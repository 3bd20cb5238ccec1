SPECIFICATION Spec
CONSTANTS
    Requests = {r1, r2, r3}
    sending = sending
    receiving = receiving
    plain = plain
    multi = multi
    key = key
    Addresses = {sending, receiving, plain, multi, key}
    Own <- OneOfEach
    SendingWallet = sending
    ReceivingWallet = receiving
    InitialGas <- SomeGas
    Signers = {s1, s2}
    Threshold = 3
    MaxFaults = 1
INVARIANTS TypeOK KeysKept InTurn Consent
PROPERTIES ImplementsContract GasIsChecked
SYMMETRY Transfer_Symmetry
