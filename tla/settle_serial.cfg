\* Settles one after the other, two prepares racing under one idempotency
\* key, one crash or failed store statement anywhere.
CONSTANTS
    Payments = {p1, p2}
    Txs = {t1, t2}
    Jkts = {j1}
    Keys = {k1}
    NoKey = NoKey
    Expiries = {5}
    Tips = {}
    Validity = 1
    FinalityDepth = 3
    Preparers = {a1, a2}
    Settlers = {s1}
    Readers = {}
    MaxTime = 1
    MaxInterruptions = 1
SPECIFICATION Spec
SYMMETRY Symmetry
INVARIANTS OneLivePaymentPerKey FailedIsRetryable FireOnceUninterrupted
PROPERTY ImplementsContract
CHECK_DEADLOCK FALSE
