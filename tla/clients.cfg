\* The demo gateway with two settle requests and one stream, or one harness run, on one
\* payment and one fault.
SPECIFICATION Spec
CONSTANTS
    Payments = {p1}
    Txs = {a1, a2, h}
    Attempts = {a1, a2}
    Harness = h
    Streams = {s1}
    FinalityDepth = 2
    Expiry = 3
    MaxFaults = 1
INVARIANTS StuckStageHasACause DisclosureOfTheSettledTx PaidIsIrreversible OkMeansPaid RejectedMeansUnpaid
PROPERTY StreamsEnd
CHECK_DEADLOCK FALSE
