SPECIFICATION Spec
CONSTANTS
    Socials = {s1, s2}
    UserIds = {u1, u2, u3}
    RandomLogins = {x1, x2}
    ChosenLogins = {c1, c2}
    Requests = {r1}
    Null = Null
    s1 = s1
    s2 = s2
    u1 = u1
    u2 = u2
    u3 = u3
    x1 = x1
    x2 = x2
    c1 = c1
    c2 = c2
    r1 = r1
SYMMETRY MCSymmetry
CHECK_DEADLOCK FALSE
INVARIANT FirstLoginServed
