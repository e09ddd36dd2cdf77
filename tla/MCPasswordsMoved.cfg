SPECIFICATION Spec
CONSTANTS
    Containers = {c1, c2}
    m1 = m1
    m2 = m2
    x1 = x1
    x2 = x2
    Members = {m1, m2}
    NoMember = NoMember
    Mobiles = {x1, x2, x3}
    NoMobile = NoMobile
    Alias <- FirstNumbers
    MaxMoves = 2
    MaxCodes = 1
    MaxSlips = 0
INVARIANT StableUnderNumberChange
\* The requests and the changes are bounded.
CHECK_DEADLOCK FALSE
