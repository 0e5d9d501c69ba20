SPECIFICATION Spec
CONSTANTS
    Requests = {r1}
    Subjects = {s1, s2}
    Texts = {t1}
    Choices = {"APPROVE", "REJECT"}
    NoText = NoText
    Ballots = {}
    NoBallot = NoBallot
    NoChoice = NoChoice
    Weight <- MCWeight
    Rule <- MCRule
    FailureLimit = 2
    MaxVersions = 1
    MaxIssues = 2
    MaxVotes = 2
    MaxFailures = 0
SYMMETRY Symmetry
INVARIANTS
    OneEffectiveVote
    VotedLinkIsUsed
PROPERTIES
    DeadLinkRecordsNothing
    NoVoteAfterClose
    ResultIsComplete
    ImplementsBallotBox
CHECK_DEADLOCK FALSE
