\* Once every code is sent, stored and used, nothing is left to be done.
CHECK_DEADLOCK FALSE
SPECIFICATION Spec
CONSTANTS
    k1 = k1
    Dispatchers = {d1, d2}
    Messages = {k1, k2}
    NoMessage = NoMessage
    Deliveries <- Twice
    MaxAttempts = 2
    Containers = {c1, c2}
    Mobiles = {x1, x2}
    Invited = {x1}
    FirstMobiles = {x2}
    NoMobile = NoMobile
INVARIANT TypeOK
INVARIANT OnePendingInvite
INVARIANT SentIffStored
INVARIANT OneTextPerAnswer
SYMMETRY Symmetry
PROPERTY InvitesStrangers
PROPERTY KeepsInviteLife
