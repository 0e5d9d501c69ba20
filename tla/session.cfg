SPECIFICATION Spec
CONSTANTS
    r1 = r1
    r2 = r2
    p1 = p1
    p2 = p2
    o1 = o1
    o2 = o2
    Requests = {r1, r2}
    Proposals = {p1, p2}
    Owners = {o1, o2}
    Recipients = {o1, o2}
    Recipient <- MCRecipient
    Addressed = {o1, o2}
    FailureLimit = 2
    Last = 3
    MaxBallots = 2
    MaxByHand = 1
SYMMETRY Symmetry
INVARIANT SessionInv
PROPERTIES DeadBallotRecordsNothing OpenedMeansIssued ClosedWithSession
CHECK_DEADLOCK FALSE
