SPECIFICATION Spec
CONSTANTS
    Requests = {r1}
    Payments = {p1, p2}
    Amounts = {1, 2}
    Batches = {b1, b2}
    UnitCount = 1
    MaxInvoices = 2
    MaxRows = 3
SYMMETRY Symmetry
CONSTRAINT FewRowsBesideBatches
INVARIANTS
    NothingOverallocated
    StatusFollowsLedger
    DebtCountedOnce
PROPERTIES
    NoMoneyIntoDead
    CancelledIsFinal
CHECK_DEADLOCK FALSE
