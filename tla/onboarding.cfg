SPECIFICATION Spec
CONSTANTS
    Invites = {i1, i2}
    Windows = {w1, w2}
    Stakes = {s1}
    Entries = {e1}
    None = None
    MaxVersion = 3
SYMMETRY Symmetry
INVARIANTS
    NoLostEdit
    PublishedAsShown
    ProofsKept
PROPERTY ClosedIsFinal
CHECK_DEADLOCK FALSE
