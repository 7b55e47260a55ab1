\* One payment, one connection, channels of one snapshot, five changes, one fault.
CONSTANTS
    Payments = {p1}
    Streams = {s1}
    Target <- MCTarget
    Capacity = 1
    MaxChanges = 5
    MaxFaults = 1
SPECIFICATION Spec
INVARIANTS RegistryIsBounded NothingPublishedIsLost
PROPERTY LastWordComes
CHECK_DEADLOCK FALSE
