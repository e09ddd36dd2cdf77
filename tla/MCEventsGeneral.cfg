\* Every request about a deleted event is refused, which is no step.
CHECK_DEADLOCK FALSE
\* One container, so no race: a general event that got a contribution.
SPECIFICATION Spec
CONSTANTS
    Containers = {c1}
    m1 = m1
    m2 = m2
    e1 = e1
    e2 = e2
    i1 = i1
    Members = {m1, m2}
    NoMember = NoMember
    Executives = {m1}
    Events = {e1}
    Items = {i1}
    EventOf <- OneItem
    Contributions = {x1}
    NoRequest = NoRequest
    NaN = NaN
    Ulp = 1
    InColumn <- OneBit
    Requests <- GeneralRequests
SYMMETRY Interchangeable
INVARIANT GeneralEventDeletable
