SPECIFICATION Spec
CONSTANTS
    Users = {admin}
    Superusers = {admin}
    Ids = {i1, i2}
    Requests = {r1}
    RoleIds = {editor, reader}
    Roles = {editor}
    Second = 1
    AccessTtl = 1
    RefreshTtl = 2
    MaxNow = 3
    VerifyTokenType = FALSE
    Ops = {"login", "refresh", "logout", "logout_all", "add_roles", "remove_roles"}
    All = All
    Null = Null
    admin = admin
    i1 = i1
    i2 = i2
    r1 = r1
    editor = editor
    reader = reader
SYMMETRY MCSymmetry
CHECK_DEADLOCK FALSE
INVARIANTS SerialInv LogoutAllEndsSessions TokenRolesCurrent
PROPERTIES EndedStaysEnded LogoutSparesOthers
