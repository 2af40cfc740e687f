SPECIFICATION Spec
CONSTANTS
    Users = {ann, bob}
    Requests = {r1, r2}
    Secrets = {s1, s2}
    RequestIds = {i1, i2}
    Roles = {editor}
    RequestTtl = 2
    MaxNow = 2
    MaxRequests = 3
    Null = Null
    ann = ann
    bob = bob
    r1 = r1
    r2 = r2
    s1 = s1
    s2 = s2
    i1 = i1
    i2 = i2
    editor = editor
SYMMETRY MCSymmetry
CHECK_DEADLOCK FALSE
INVARIANTS FactorInv ActiveFactorNotBypassed FactorIsPrivate ActivationProven
           StaleCopyBounded
