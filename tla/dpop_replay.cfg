\* Two requests that present proofs under one id to both services; a proof
\* can pass for three units, the window is five.
CONSTANTS
    Services = {"zpay", "zspend"}
    Keys = {k1}
    NoKey = NoKey
    Iats = {1, 6}
    Tasks = {a, b}
    Skew = 1
    Window = 5
    Stall = 1
    MaxTime = 7
SPECIFICATION Spec
SYMMETRY Symmetry
INVARIANTS TypeOK NoReplay BurnedStaysBurned
CHECK_DEADLOCK FALSE
