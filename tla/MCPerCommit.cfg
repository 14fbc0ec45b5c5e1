SPECIFICATION Spec
CONSTANTS
    c1 = c1
    c2 = c2
    c3 = c3
    Variable = {1, 2}
    Commit = {c1, c2, c3}
    OtherCommit = {other}
    NoCommit = NoCommit
    Day <- MCDay
    Histories <- MCHistories
INVARIANT
    PinFitsName
PROPERTIES
    MovesForward
    CatchesUp
