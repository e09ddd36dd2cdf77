SPECIFICATION Spec
CONSTANTS
    Containers = {c1}
    k1 = k1
    k2 = k2
    Codes = {k1, k2}
    NoCode = NoCode
    Relationship <- OtherAndSpouse
    Mobiles = {x0, x1, x2}
    AdminMobile = x0
    Admin = u0
    Users = {u0, u1, u2}
    NoUser = NoUser
    NumberText <- Lpad
SYMMETRY Interchangeable

INVARIANT DatabaseFailureLeavesNoUser
