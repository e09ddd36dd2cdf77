SPECIFICATION Spec
CONSTANTS
    Containers = {c1, c2}
    m1 = m1
    m2 = m2
    x1 = x1
    x2 = x2
    Members = {m1, m2}
    NoMember = NoMember
    Mobiles = {x1, x2, x3}
    NoMobile = NoMobile
    Alias <- FirstNumbers
    MaxMoves = 2
    MaxCodes = 2
    MaxSlips = 1
SYMMETRY Interchangeable
INVARIANT TypeOK
INVARIANT OwnPassword
INVARIANT OneResetPerCode
INVARIANT TextedIffStored
PROPERTY LatestCodeOnly
\* Codes and number changes are bounded: when they are used up, nothing need
\* be left to do.
CHECK_DEADLOCK FALSE
