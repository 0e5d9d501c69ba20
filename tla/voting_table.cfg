SPECIFICATION Spec
CONSTANTS
    Requests = {r1, r2}
    Subjects = {s1}
    Texts = {t1}
    Choices = {"APPROVE", "REJECT"}
    NoText = NoText
    Ballots = {}
    NoBallot = NoBallot
    NoChoice = NoChoice
    Weight <- MCWeight
    Rule <- MCRule
    FailureLimit = 2
    MaxVersions = 1
    MaxIssues = 2
    MaxVotes = 3
    MaxFailures = 0
SYMMETRY Symmetry
INVARIANTS
    CorrectionsKeepCount
    VoteTableInv
PROPERTIES
    FrozenOnce
CHECK_DEADLOCK FALSE
