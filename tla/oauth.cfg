SPECIFICATION Spec
CONSTANTS
    Requests = {r1, r2}
    Codes = {c1, c2}
    NoCode = NoCode
    MaxConnections = 2
    MaxPairs = 3
SYMMETRY Symmetry
INVARIANTS
    OneChain
    ReplayEndsAll
CHECK_DEADLOCK FALSE
