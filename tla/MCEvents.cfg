\* Once the events are completed every request is refused, which is no step.
CHECK_DEADLOCK FALSE
SPECIFICATION Spec
CONSTANTS
    Containers = {c1, c2}
    m1 = m1
    m2 = m2
    e1 = e1
    e2 = e2
    i1 = i1
    Members = {m1, m2}
    NoMember = NoMember
    Executives = {m1}
    Events = {e1, e2}
    Items = {i1}
    EventOf <- OneItem
    Contributions = {x1}
    NoRequest = NoRequest
    NaN = NaN
    Ulp = 1
    InColumn <- OneBit
    Requests <- AllRequests
SYMMETRY Interchangeable
INVARIANT TypeOK
INVARIANT ItemsOnPledgeEvents
INVARIANT PaidPledgeStands
INVARIANT PledgedWithinNeeded
INVARIANT NoOrphans
PROPERTY CompletedIsFinal
