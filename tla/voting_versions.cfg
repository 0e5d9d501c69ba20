SPECIFICATION Spec
CONSTANTS
    Requests = {r1}
    Subjects = {s1}
    Texts = {t1, t2}
    Choices = {"APPROVE", "REJECT"}
    NoText = NoText
    Ballots = {}
    NoBallot = NoBallot
    NoChoice = NoChoice
    Weight <- MCWeight
    Rule <- MCRule
    FailureLimit = 1
    MaxVersions = 2
    MaxIssues = 1
    MaxVotes = 2
    MaxFailures = 1
SYMMETRY Symmetry
INVARIANTS
    OneLiveVersion
    TextIsFrozen
PROPERTIES
    DecisionIsFinal
CHECK_DEADLOCK FALSE
