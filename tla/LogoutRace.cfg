SPECIFICATION Spec
CONSTANTS
    Users = {user}
    Superusers = {}
    Ids = {i1, i2}
    Requests = {r1, r2}
    RoleIds = {}
    Roles = {}
    Second = 2
    AccessTtl = 2
    RefreshTtl = 4
    MaxNow = 2
    VerifyTokenType = TRUE
    Ops = {"login", "logout"}
    All = All
    Null = Null
    user = user
    i1 = i1
    i2 = i2
    r1 = r1
    r2 = r2
SYMMETRY MCSymmetry
CHECK_DEADLOCK FALSE
PROPERTY EndedStaysEnded
