SPECIFICATION Spec
CONSTANTS
    Requests = {r1, r2}
    Subjects = {s1}
    Texts = {t1}
    Choices = {"APPROVE", "REJECT"}
    NoText = NoText
    Ballots = {}
    NoBallot = NoBallot
    NoChoice = NoChoice
    Weight <- MCWeight
    Rule <- MCRule
    FailureLimit = 2
    MaxVersions = 1
    MaxIssues = 1
    MaxVotes = 2
    MaxFailures = 0
SYMMETRY Symmetry
INVARIANTS
    OneEffectiveVote
CHECK_DEADLOCK FALSE
