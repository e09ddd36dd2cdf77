SPECIFICATION Spec
CONSTANTS
    Containers = {c1, c2}
    Requests = {r1, r2, r3}
    NoRequest = NoRequest
    Statements = 2
    MaxAccidents = 3
SYMMETRY Interchangeable
INVARIANT TypeOK
INVARIANT NoLeftovers
INVARIANT OneErrorPerAccident
PROPERTY IsAtomic
CHECK_DEADLOCK FALSE
