SPECIFICATION Spec
CONSTANTS
    Users = {user, admin}
    Superusers = {admin}
    Ids = {i1, i2}
    Requests = {r1, r2}
    RoleIds = {editor}
    Roles = {editor}
    Second = 2
    AccessTtl = 2
    RefreshTtl = 4
    MaxNow = 0
    VerifyTokenType = FALSE
    Ops = {"login", "refresh", "logout_all", "add_roles",
           "remove_roles"}
    All = All
    Null = Null
    user = user
    admin = admin
    i1 = i1
    i2 = i2
    r1 = r1
    r2 = r2
    editor = editor
SYMMETRY MCSymmetry
CHECK_DEADLOCK FALSE
INVARIANTS SessionInv AdminClaimGenuine
PROPERTIES RevocationAuthorized
