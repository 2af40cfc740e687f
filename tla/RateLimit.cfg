SPECIFICATION Spec
CONSTANTS
    Addresses = {a1}
    Requests = {r1, r2}
    Limit = 1
    Period = 2
    Hour = 3
    MaxLag = 0
    MaxNow = 7
    MaxCount = 2
    Null = Null
    a1 = a1
    r1 = r1
    r2 = r2
SYMMETRY MCSymmetry
CHECK_DEADLOCK FALSE
INVARIANTS TypeOK RateInv TwiceTheLimit
PROPERTIES WindowSpec
