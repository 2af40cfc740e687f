SPECIFICATION FairSilentSpec
CONSTANTS
    Greenlets = {g1, g2}
    UserIds = {u1, u2, u3}
    Logins = {ann, bob}
    RoleIds = {i1, i2, i3}
    RoleNames = {reader, editor}
    Members = {member}
    MaxBatch = 2
    Delays = 3
    MaxRequests = 2
    MaxRows = 2
    RowIds = {u1, u2, u3, i1, i2, i3}
    Keys = {ann, bob, reader, editor, member}
    Null = Null
    g1 = g1
    g2 = g2
    u1 = u1
    u2 = u2
    u3 = u3
    ann = ann
    bob = bob
    i1 = i1
    i2 = i2
    i3 = i3
    reader = reader
    editor = editor
    member = member
CHECK_DEADLOCK FALSE
PROPERTY EveryRequestAnswered
