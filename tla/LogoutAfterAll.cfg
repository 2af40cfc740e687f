SPECIFICATION Spec
CONSTANTS
    Users = {user}
    Superusers = {}
    Ids = {i1, i2}
    Requests = {r1}
    RoleIds = {}
    Roles = {}
    Second = 2
    AccessTtl = 2
    RefreshTtl = 4
    MaxNow = 3
    VerifyTokenType = TRUE
    Ops = {"login", "logout", "logout_all"}
    All = All
    Null = Null
    user = user
    i1 = i1
    i2 = i2
    r1 = r1
SYMMETRY MCSymmetry
CHECK_DEADLOCK FALSE
PROPERTY LogoutRevokesPresented
