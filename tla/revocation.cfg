\* Two overlapping checks, three tokens, pages of one revocation, a drain of
\* at most two pages.
CONSTANTS
    Tokens = {j1, j2, j3}
    NoToken = NoToken
    Checks = {a, b}
    MaxStaleness = 2
    Latency = 1
    PageLimit = 1
    MaxPages = 2
    MaxClock = 4
SPECIFICATION RevocationSpec
SYMMETRY Symmetry
INVARIANTS CursorCovers NoLateAdmission
CHECK_DEADLOCK FALSE
