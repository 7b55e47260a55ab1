\* One payment at a time to one of three payees, two writes, one transaction.
CONSTANTS
    U64Max = 4095
    MaxZat = 2100
    ZecDigits = 2
    Payments <- MCPayments
    Agents = {"agent", "rival"}
    IdempotencyKeys = {"", "k"}
    Proofs = {d1, d2}
    Registry <- MCRegistry
    UnknownPayee = "stranger"
    ChainNetwork = "testnet"
    DefaultExpiryDelta = 2
    Resource = "resource"
    MaxTip = 1
    MaxBroadcasts = 1
    FacilitatorInputs <- MCFacilitatorInputs
    DisclosureInputs <- MCDisclosureInputs
SYMMETRY MCSymmetry
SPECIFICATION Spec
INVARIANTS SettledPaysThePayee VerifyAndSettleAgree HonestPaymentSettles DisclosureProvesPayment
CHECK_DEADLOCK FALSE
