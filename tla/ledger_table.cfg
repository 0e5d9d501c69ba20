SPECIFICATION Spec
CONSTANTS
    Requests = {r1, r2}
    Payments = {p1}
    Amounts = {1}
    Batches = {}
    UnitCount = 1
    MaxInvoices = 3
    MaxRows = 3
SYMMETRY Symmetry
CONSTRAINT FewRows
INVARIANTS
    TypeOK
    ReversalsMatch
    CorrectionPairs
CHECK_DEADLOCK FALSE
