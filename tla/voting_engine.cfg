SPECIFICATION TrialSpec
CONSTANTS
    Members = {m1, m2, m3}
    Percents = {0, 33333, 50000, 66667, 100000}
INVARIANTS
    OwnerQuorumIsLeast
    BarAgreesWithResult
PROPERTIES
    ApprovalHelps
CHECK_DEADLOCK FALSE
