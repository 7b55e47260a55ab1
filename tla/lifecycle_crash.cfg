\* Two overlapping settles of one payment, a caller reading its status, two
\* crashes or failed store statements anywhere.
CONSTANTS
    Payments = {p1}
    Txs = {t1, t2}
    Jkts = {j1}
    Keys = {}
    NoKey = NoKey
    Expiries = {5}
    Tips = {4, 5}
    Validity = 1
    FinalityDepth = 3
    Preparers = {a1}
    Settlers = {s1, s2}
    Readers = {r1}
    MaxTime = 1
    MaxInterruptions = 2
SPECIFICATION Spec
SYMMETRY Symmetry
INVARIANTS TypeOK NothingLost SuccessIsBroadcast
PROPERTY ReadsNeverGoBack
CHECK_DEADLOCK FALSE
