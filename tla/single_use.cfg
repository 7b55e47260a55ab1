\* Three requests for one token, two intents, requests that end in time;
\* any of them may fail to sign or be cut short.
CONSTANTS
    Jtis = {j1}
    Intents = {i1, i2}
    NoIntent = NoIntent
    Tasks = {a, b, c}
    TTL = 2
    MaxTime = 6
    MaxSigns = 3
    Punctual = TRUE
SPECIFICATION SingleUseSpec
SYMMETRY Symmetry
INVARIANTS TypeOKSingleUse OneSigner SignedOnce
CHECK_DEADLOCK FALSE
