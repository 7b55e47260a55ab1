\* One payment, a chain of four blocks whose settled tip trails by two, one
\* reorg, two faults or crashes, the chain at the pace of the sweeps.
CONSTANTS
    Payments = {p1}
    Txs = {p1}
    FinalityDepth = 2
    Expiry = 3
    ReorgWindow = 2
    MaxTip = 4
    MaxReorgs = 1
    MaxFaults = 2
    Paced = TRUE
SPECIFICATION Spec
INVARIANTS SettledTruth SweepCatchesReorgs
PROPERTY EventuallyAgrees
CHECK_DEADLOCK FALSE
