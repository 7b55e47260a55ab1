\* Settles one after the other and one crash.
CONSTANTS
    Payments = {p1}
    Txs = {t1, t2}
    Jkts = {j1}
    Keys = {}
    NoKey = NoKey
    Expiries = {5}
    Tips = {}
    Validity = 1
    FinalityDepth = 3
    Preparers = {a1}
    Settlers = {s1}
    Readers = {}
    MaxTime = 0
    MaxInterruptions = 1
SPECIFICATION Spec
INVARIANT FireOnce
CHECK_DEADLOCK FALSE
